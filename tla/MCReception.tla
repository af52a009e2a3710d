----------------------------- MODULE MCReception ----------------------------
(* The receiver runtime with its event channel, and the loop of the decoder *)
(* that its task feeds.  They share no variable: a behaviour is of one of   *)
(* them, and the other stays in its initial state, in which nothing of it   *)
(* is enabled that it would have to do, so that each keeps its fairness.    *)
EXTENDS ReceiverRuntime, MCFrameDecoder

ReceptionInit == RuntimeInit /\ DecoderInit

\* The runtime moves while there is nothing to decode.
Runs == DecoderInit /\ stream = <<>> /\ RuntimeNext /\ UNCHANGED decoderVars

Decodes == RuntimeInit /\ DecoderNext /\ UNCHANGED runtimeVars

ReceptionSpec ==
    /\ ReceptionInit /\ [][Runs \/ Decodes]_<<runtimeVars, decoderVars>>
    /\ RuntimeFairness /\ WF_decoderVars(ProcessBuffer)
=============================================================================
