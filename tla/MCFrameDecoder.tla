---------------------------- MODULE MCFrameDecoder --------------------------
(* Streams of up to MaxPieces pieces: good V1 and V2 blocks (with a NUL and *)
(* a slash in the V1 body), a filler, a server list, the damaged forms of   *)
(* each, noise and cut frames.                                              *)
EXTENDS FrameDecoder

CONSTANT MaxPieces

MCHeaders == {"1", "2", "f"}
MCBodyOf == [h \in MCHeaders |-> CASE h = "1" -> <<"d", "n", "/", "P">>
                                   [] h = "2" -> <<"z", "d", "d", "d", "d", "d", "d", "d", "d">>
                                   [] OTHER   -> <<"d", "d">>]
MCBodyLen == [h \in MCHeaders |-> Len(MCBodyOf[h])]

MCSync == <<"n", "n", "n">>
MCBlock(h, body) == MCSync \o <<"/", "P", h>> \o body
Pieces ==
    {MCBlock("1", MCBodyOf["1"]),                       \* V1 block
     MCBlock("2", MCBodyOf["2"]),                       \* V2 block, longer than other frames
     MCBlock("f", MCBodyOf["f"]),                       \* filler
     MCSync \o <<"/", "S", "a", "n">>,                  \* server list
     MCBlock("2", <<"x">> \o Tail(MCBodyOf["2"])),      \* does not inflate
     MCBlock("1", <<"d", "d", "d", "d">>),              \* wrong checksum
     MCSync \o <<"/", "P", "x">>,                       \* bad header
     <<"n">>, <<"x">>, <<"/">>,                         \* noise
     MCSync \o <<"/", "S", "x", "n">>,                  \* bad server list
     MCSync \o <<"/", "S", "a">>,                       \* cut in the list
     MCSync \o <<"/", "P">>,                            \* cut in the header
     MCBlock("1", <<"d">>),                             \* cut in the body
     MCBlock("2", <<"z", "d">>)}                        \* ... reaches over the next frame

MCStreams == UNION {[1..k -> Pieces] : k \in 0..MaxPieces}
=============================================================================
