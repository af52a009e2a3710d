----------------------------- MODULE FrameDecoder ---------------------------
(***************************************************************************)
(* The stateful decoder of the QBT wire format (emwin-protocol             *)
(* qbt_receiver/protocol/codec.rs), scaled down: the sync marker is        *)
(* SyncLen NULs, a header is the start of a frame and one symbol that      *)
(* stands for all its fields, and a body is BodyLen[h] symbols.  The       *)
(* checksum of a header is ideal: only the body it was made for passes.    *)
(*                                                                         *)
(* A stream is fed in chunks of any size; the decoder is then reset and    *)
(* fed the same stream in one piece.  One step is one call of              *)
(* process_buffer, so that a loop in feed which never ends would be seen.  *)
(***************************************************************************)
EXTENDS Integers, FiniteSets, Sequences, SequencesExt

CONSTANTS
    Streams,     \* the inputs, as sequences of pieces
    SyncLen,     \* SYNC_BYTES.len()
    Headers,     \* header symbols that parse_header accepts
    BodyLen,     \* the length it finds for each of them
    BodyOf,      \* the body whose checksum the header carries
    Compressed,  \* the headers of V2 blocks, whose body is inflated
    Unwanted     \* headers of filler files, or with impossible numbering

ASSUME DecoderAssumption ==
    /\ SyncLen \in Nat \ {0}
    /\ Streams \subseteq Seq(Seq(STRING))
    /\ IsFiniteSet(Headers) /\ BodyLen \in [Headers -> Nat \ {0}]
    /\ Compressed \subseteq Headers /\ Unwanted \subseteq Headers

Nul == "n"
Slash == "/"
HeaderLen == 3

VARIABLES
    stream,   \* the pieces of the input
    bytes,    \* the pieces joined
    fed,      \* how much of it was fed in this pass
    buffer,   \* QbtProtocolDecoder.buffer
    state,    \* QbtProtocolDecoder.state
    pending,  \* QbtProtocolDecoder.pending: <<>>, <<header>> or <<header, body>>
    out,      \* the events of this pass
    busy,     \* feed is running
    pass,     \* "chunks", "whole" or "done"
    first     \* the events of the first pass

decoder == <<buffer, state, pending>>
decoderVars == <<stream, bytes, fed, decoder, out, busy, pass, first>>

Drop(seq, k) == SubSeq(seq, k + 1, Len(seq))

Block(h) == <<"block", h>>
ServerList(content) == <<"list", content>>
DecodeWarning(what) == <<"warning", what>>

States == {"Resync", "StartFrame", "FrameType", "ServerList", "BlockHeader",
           "BlockBody", "Validate"}

DecoderTypeOK ==
    /\ stream \in Streams
    /\ fed \in 0..Len(bytes)
    /\ state \in States
    /\ Len(buffer) <= fed
    /\ Len(pending) = CASE state = "BlockBody" -> 1 [] state = "Validate" -> 2 [] OTHER -> 0
    /\ busy \in BOOLEAN
    /\ pass \in {"chunks", "whole", "done"}

DecoderInit ==
    /\ stream \in Streams
    /\ bytes = FlattenSeq(stream)
    /\ fed = 0
    /\ buffer = <<>> /\ state = "Resync" /\ pending = <<>>
    /\ out = <<>>
    /\ busy = FALSE
    /\ pass = "chunks"
    /\ first = <<>>

-----------------------------------------------------------------------------
\* feed appends the decoded chunk and starts its loop.
Feed(k) ==
    /\ ~busy
    /\ fed + k <= Len(bytes)
    /\ buffer' = buffer \o SubSeq(bytes, fed + 1, fed + k)
    /\ fed' = fed + k
    /\ busy' = TRUE
    /\ UNCHANGED <<stream, bytes, state, pending, out, pass, first>>

\* process_buffer made no progress: feed returns.
Waits == busy' = FALSE /\ UNCHANGED <<decoder, out>>

Goes(newBuffer, newState) ==
    /\ buffer' = newBuffer
    /\ state' = newState
    /\ UNCHANGED <<busy, pending, out>>

\* feed turns an error into a warning and resynchronises.
Recovers(newBuffer, what) ==
    /\ buffer' = newBuffer
    /\ state' = "Resync"
    /\ pending' = <<>>
    /\ out' = Append(out, DecodeWarning(what))
    /\ busy' = (newBuffer # <<>>)

SyncAt == {i \in 1..Len(buffer) - SyncLen + 1 :
              \A j \in i..i + SyncLen - 1 : buffer[j] = Nul}

\* Seeded fault: nothing is kept of a chunk without a marker.
FindSyncForgetful ==
    /\ state = "Resync"
    /\ \/ SyncAt # {} /\ Goes(Drop(buffer, Min(SyncAt) + SyncLen - 1), "StartFrame")
       \/ /\ SyncAt = {}
          /\ buffer' = <<>>
          /\ busy' = FALSE
          /\ UNCHANGED <<state, pending, out>>

FindSync ==
    /\ state = "Resync"
    /\ \/ SyncAt # {} /\ Goes(Drop(buffer, Min(SyncAt) + SyncLen - 1), "StartFrame")
       \/ /\ SyncAt = {}
          /\ buffer' = Drop(buffer, Max({0, Len(buffer) - (SyncLen - 1)}))
          /\ busy' = FALSE
          /\ UNCHANGED <<state, pending, out>>

Padding == {k \in 0..Len(buffer) : \A i \in 1..k : buffer[i] = Nul}

\* Seeded fault: an empty buffer after the marker counts as progress.
SkipPaddingSpins ==
    LET rest == Drop(buffer, Max(Padding))
    IN  /\ state = "StartFrame"
        /\ \/ rest # <<>> /\ Goes(rest, "FrameType")
           \/ /\ rest = <<>>
              /\ buffer' = rest
              /\ UNCHANGED <<busy, state, pending, out>>

SkipPadding ==
    LET rest == Drop(buffer, Max(Padding))
    IN  /\ state = "StartFrame"
        /\ \/ rest # <<>> /\ Goes(rest, "FrameType")
           \/ /\ rest = <<>>
              /\ buffer' = rest
              /\ busy' = (buffer # <<>>)
              /\ UNCHANGED <<state, pending, out>>

DetectFrameType ==
    /\ state = "FrameType"
    /\ \/ buffer = <<>> /\ Waits
       \/ /\ buffer # <<>> /\ buffer[1] # Slash
          /\ Goes(Drop(buffer, 1), "Resync")
       \/ Len(buffer) = 1 /\ buffer[1] = Slash /\ Waits
       \/ /\ Len(buffer) > 1 /\ buffer[1] = Slash
          /\ \/ buffer[2] = "P" /\ Goes(buffer, "BlockHeader")
             \/ buffer[2] = "S" /\ Goes(buffer, "ServerList")
             \/ buffer[2] \notin {"P", "S"} /\ Goes(Drop(buffer, 1), "Resync")

\* A frame up to the first NUL; one that is not UTF-8 or not a list fails.
ProcessServerList ==
    /\ state = "ServerList"
    /\ \/ ~Contains(buffer, Nul) /\ Waits
       \/ LET end     == Min({i \in DOMAIN buffer : buffer[i] = Nul})
              content == SubSeq(buffer, 1, end - 1)
              rest    == Drop(buffer, end)
          IN  /\ Contains(buffer, Nul)
              /\ \/ Contains(content, "x") /\ Recovers(rest, "list")
                 \/ /\ ~Contains(content, "x")
                    /\ out' = Append(out, ServerList(content))
                    /\ buffer' = rest
                    /\ state' = "StartFrame"
                    /\ UNCHANGED <<pending, busy>>

\* Seeded fault: everything buffered goes with a bad header.
ProcessBlockHeaderGreedy ==
    /\ state = "BlockHeader"
    /\ \/ Len(buffer) < HeaderLen /\ Waits
       \/ /\ Len(buffer) >= HeaderLen
          /\ \/ buffer[HeaderLen] \notin Headers /\ Recovers(<<>>, "header")
             \/ /\ buffer[HeaderLen] \in Headers
                /\ pending' = <<buffer[HeaderLen]>>
                /\ buffer' = Drop(buffer, HeaderLen)
                /\ state' = "BlockBody"
                /\ UNCHANGED <<out, busy>>

\* The header is consumed before it is parsed.
ProcessBlockHeader ==
    /\ state = "BlockHeader"
    /\ \/ Len(buffer) < HeaderLen /\ Waits
       \/ /\ Len(buffer) >= HeaderLen
          /\ \/ buffer[HeaderLen] \notin Headers /\ Recovers(Drop(buffer, HeaderLen), "header")
             \/ /\ buffer[HeaderLen] \in Headers
                /\ pending' = <<buffer[HeaderLen]>>
                /\ buffer' = Drop(buffer, HeaderLen)
                /\ state' = "BlockBody"
                /\ UNCHANGED <<out, busy>>

ProcessBlockBody ==
    LET length == BodyLen[pending[1]]
    IN  /\ state = "BlockBody"
        /\ \/ Len(buffer) < length /\ Waits
           \/ /\ Len(buffer) >= length
              /\ pending' = Append(pending, SubSeq(buffer, 1, length))
              /\ buffer' = Drop(buffer, length)
              /\ state' = "Validate"
              /\ UNCHANGED <<out, busy>>

\* What validate_and_emit makes of a block: a failed inflate is reported
\* first, then fillers are dropped, then the checksum decides.
Verdict(h, body) ==
    CASE h \in Compressed /\ Contains(body, "x")       -> <<DecodeWarning("inflate")>>
      [] ~(h \in Compressed /\ Contains(body, "x"))
            /\ h \in Unwanted                          -> <<>>
      [] OTHER -> <<IF body = BodyOf[h] THEN Block(h) ELSE DecodeWarning("checksum")>>

ValidateAndEmit ==
    /\ state = "Validate"
    /\ out' = out \o Verdict(pending[1], pending[2])
    /\ pending' = <<>>
    /\ state' = "StartFrame"
    /\ UNCHANGED <<buffer, busy>>

ProcessBuffer ==
    /\ busy
    /\ \/ FindSync \/ SkipPadding \/ DetectFrameType \/ ProcessServerList
       \/ ProcessBlockHeader \/ ProcessBlockBody \/ ValidateAndEmit
    /\ UNCHANGED <<stream, bytes, fed, pass, first>>

-----------------------------------------------------------------------------
\* reset, and the same stream again.
Reset ==
    /\ ~busy /\ pass = "chunks" /\ fed = Len(bytes)
    /\ buffer' = <<>> /\ pending' = <<>> /\ state' = "Resync"
    /\ first' = out
    /\ out' = <<>>
    /\ fed' = 0
    /\ pass' = "whole"
    /\ UNCHANGED <<stream, bytes, busy>>

Finish ==
    /\ ~busy /\ pass = "whole" /\ fed = Len(bytes)
    /\ pass' = "done"
    /\ UNCHANGED <<stream, bytes, fed, decoder, out, busy, first>>

Done == pass = "done" /\ UNCHANGED decoderVars

DecoderNext ==
    \/ \E k \in 1..Len(bytes) :
          /\ pass = "chunks" \/ (pass = "whole" /\ k = Len(bytes))
          /\ Feed(k)
    \/ ProcessBuffer \/ Reset \/ Finish \/ Done

DecoderSpec == DecoderInit /\ [][DecoderNext]_decoderVars /\ WF_decoderVars(ProcessBuffer)

-----------------------------------------------------------------------------
(* Correctness *)

\* How TCP cuts the stream does not matter: the events are those of the same
\* bytes fed at once, and nothing of an earlier stream survives a reset.
ChunkingIrrelevant == pass = "done" => out = first

\* The frames among the pieces, with what each of them must become.  A piece
\* is a frame when it starts with the marker and is complete.
Marker == [i \in 1..SyncLen |-> Nul]
StartsFrame(piece, kind) ==
    /\ Len(piece) > SyncLen + 1
    /\ SubSeq(piece, 1, SyncLen + 2) = Marker \o <<Slash, kind>>
IsBlock(piece) ==
    /\ StartsFrame(piece, "P")
    /\ Len(piece) > SyncLen + HeaderLen
    /\ LET h == piece[SyncLen + HeaderLen]
       IN  h \in Headers \ Unwanted /\ Drop(piece, SyncLen + HeaderLen) = BodyOf[h]
IsList(piece) ==
    StartsFrame(piece, "S") /\ Last(piece) = Nul /\ ~Contains(piece, "x")

IsDelivery(event) == event[1] # "warning"
Deliveries(events) == SelectSeq(events, IsDelivery)
IsFrame(piece) == IsBlock(piece) \/ IsList(piece)
DeliveryOf(piece) ==
    IF IsBlock(piece) THEN Block(piece[SyncLen + HeaderLen])
    ELSE ServerList(SubSeq(piece, SyncLen + 1, Len(piece) - 1))
Expected ==
    LET frames == SelectSeq(stream, IsFrame)
    IN  [i \in DOMAIN frames |-> DeliveryOf(frames[i])]

\* A piece that starts a frame and ends before the frame does: it takes some
\* of what follows along.
Cut(piece) ==
    \/ StartsFrame(piece, "S") /\ Last(piece) # Nul
    \/ /\ StartsFrame(piece, "P")
       /\ \/ Len(piece) < SyncLen + HeaderLen
          \/ LET h == piece[SyncLen + HeaderLen]
             IN  h \in Headers /\ Len(piece) < SyncLen + HeaderLen + BodyLen[h]

\* Noise between frames, frames with a bad header, body or checksum and
\* fillers cost nothing: every complete frame is delivered, in order, once.
FramesDelivered ==
    (pass # "chunks" /\ \A i \in DOMAIN stream : ~Cut(stream[i])) =>
        Deliveries(first) = Expected

\* Where a piece starts, and how far the frame that it starts reaches: as far
\* as its header says, or for a list up to a NUL.  Of a cut frame that is some
\* way into the pieces behind it.
StartOf(i) == Len(FlattenSeq(SubSeq(stream, 1, i - 1)))
ReachOf(i) ==
    LET piece == stream[i]
        at    == StartOf(i) + SyncLen
    IN  IF StartsFrame(piece, "S")
        THEN Min({Len(bytes)} \cup {n \in at + 1..Len(bytes) : bytes[n] = Nul})
        ELSE at + HeaderLen + (IF Len(piece) < SyncLen + HeaderLen THEN 0
                               ELSE BodyLen[piece[SyncLen + HeaderLen]])

\* The cut frame i ends in the midst of a piece whose content could itself be
\* taken for the start of a frame.
EndsInDisguise(i) ==
    \E k \in DOMAIN stream :
        /\ StartOf(k) < ReachOf(i) /\ ReachOf(i) < StartOf(k) + Len(stream[k])
        /\ Contains(Drop(stream[k], SyncLen + 1), Slash)

\* s is t with some members left out.
Sifted(s, t) ==
    \E at \in [DOMAIN s -> DOMAIN t] :
        /\ \A i, j \in DOMAIN s : i < j => at[i] < at[j]
        /\ \A i \in DOMAIN s : s[i] = t[at[i]]

\* A frame that is cut short costs the frames it reaches into, however many
\* those are, and none behind them: once the length in its header is used up
\* the decoder finds the next marker, unless it comes to in the midst of
\* content that looks like a frame.
CutCostsItsReach ==
    LET cuts  == {i \in DOMAIN stream : Cut(stream[i])}
        Clear == {j \in DOMAIN stream : \A i \in cuts : i < j => ReachOf(i) <= StartOf(j)}
        kept  == SelectSeq([j \in DOMAIN stream |-> j],
                     LAMBDA j : j \in Clear /\ IsFrame(stream[j]))
    IN  (pass # "chunks" /\ ~\E i \in cuts : EndsInDisguise(i)) =>
            Sifted([n \in DOMAIN kept |-> DeliveryOf(stream[kept[n]])], Deliveries(first))

\* Between two calls of feed the decoder holds back less than a frame needs,
\* except inside a server list, which has no limit.
BufferBounded ==
    (~busy /\ state # "ServerList") =>
        Len(buffer) < Max({SyncLen, HeaderLen} \cup {BodyLen[h] : h \in Headers})

\* The loop of feed ends for every input.
FeedReturns == busy ~> ~busy

\* What recovery costs: nothing for whole frames amid noise, for a cut frame
\* those it reaches into, and never more memory than a frame.
FramesSurviveDamage == DecoderTypeOK /\ BufferBounded /\ FramesDelivered /\ CutCostsItsReach
=============================================================================
