------------------------------- MODULE MCFiles ------------------------------
(* The life of a file in one run: its frames are decoded, its blocks are    *)
(* assembled, its text is parsed, and it is retained.  The four share no    *)
(* variable and no fairness is asked of them, so a behaviour is of one part *)
(* and the others stay in their initial states.                             *)
EXTENDS MCFrameDecoder, FileAssembler, ProductPipeline, RetainedFiles

VARIABLE part

Seg(k, b, t, c) == [key |-> k, block |-> b, total |-> t, content |-> c]

\* Three files of two blocks and one of a single block, filler blocks and
\* blocks numbered outside their file.
Broadcast ==
    {Seg(k, b, 2, "v1") : k \in {"a", "b", "c"}, b \in {1, 2}}
    \cup {Seg("d", 1, 1, "v1"), Seg("fill", 1, 1, "v1")}
    \cup {Seg("a", 3, 2, "v1"), Seg("a", 0, 2, "v1"), Seg("d", 1, 0, "v1")}

\* Every instant from December of a common year to January of the year after
\* a leap year, and the ends of the ranges that must be recovered.
MCIssued ==
    MonthStart[<<FirstYear, 12>>] * TicksPerDay
        .. (MonthStart[<<LastYear, 2>>] * TicksPerDay) - 1

MCDelays == {- (14 * TicksPerDay) + 1, - (7 * TicksPerDay), -1, 0, 1,
             7 * TicksPerDay, (14 * TicksPerDay) - 1}

MCLifetimes == {0, 1, TicksPerDay, 7 * TicksPerDay, 28 * TicksPerDay - 1}

MCOffsets == {-1, 0, 1}

-----------------------------------------------------------------------------
parserVars == <<pipelineVars, bodyVars>>
filesVars  == <<part, decoderVars, assemblerVars, parserVars, vars>>

FilesInit ==
    /\ part \in {"decoder", "assembler", "parser", "store"}
    /\ DecoderInit /\ AssemblerInit /\ PipelineInit /\ Init
    /\ part # "decoder" => stream = <<>>
    /\ part # "store" => now = 0

Decodes   == part = "decoder" /\ DecoderNext /\ UNCHANGED <<part, assemblerVars, parserVars, vars>>
Assembles == part = "assembler" /\ AssemblerNext /\ UNCHANGED <<part, decoderVars, parserVars, vars>>
Retains   == part = "store" /\ Next /\ UNCHANGED <<part, decoderVars, assemblerVars, parserVars>>

\* The parser is done with a product when it is published.
Parses ==
    /\ part = "parser"
    /\ PipelineNext \/ (stage = "done" /\ UNCHANGED parserVars)
    /\ UNCHANGED <<part, decoderVars, assemblerVars, vars>>

FilesSpec == FilesInit /\ [][Decodes \/ Assembles \/ Parses \/ Retains]_filesVars
=============================================================================
