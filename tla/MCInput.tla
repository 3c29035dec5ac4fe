------------------------------- MODULE MCInput -------------------------------
(***************************************************************************)
(* From bytes to tokens: the parse buffer, the encodings, the tokenizer    *)
(* and the processors that read the start of an entity.  A behavior is one *)
(* of one of these components; the others stay in an initial state.        *)
(***************************************************************************)
EXTENDS MCTokens, MCEncodings, MCStart, InputBuffer

VARIABLE part
inputVars == <<part, streamVars, encodingVars, startVars, bufferVars>>

InputInit ==
    /\ part \in {"tokens", "encodings", "start", "buffer"}
    /\ part # "tokens" => source = CHOOSE s \in Sources : s.begin = <<>>
    /\ part # "encodings" => job = "detect" /\ subject = CHOOSE d \in Detections : TRUE
    /\ part # "start" => entity = CHOOSE e \in Entities : e.tokens = <<>>
    /\ StreamInit /\ EncodingInit /\ StartInit /\ BufferInit
Scans == part = "tokens" /\ StreamNext /\ UNCHANGED <<part, encodingVars, startVars, bufferVars>>
Converts == part = "encodings" /\ EncodingNext /\ UNCHANGED <<part, streamVars, startVars, bufferVars>>
Starts == part = "start" /\ StartNext /\ UNCHANGED <<part, streamVars, encodingVars, bufferVars>>
Buffers == part = "buffer" /\ BufferNext /\ UNCHANGED <<part, streamVars, encodingVars, startVars>>
\* The input may end anywhere; but the calls for a buffer never leave the
\* application without a next one, so there a deadlock is looked for.
Ends == part # "buffer" /\ UNCHANGED inputVars
InputNext == Scans \/ Converts \/ Starts \/ Buffers \/ Ends
InputSpec == InputInit /\ [][InputNext]_inputVars

\* The loops that take tokens from a text (ScanAdvances) and that convert
\* character data buffer by buffer (ConversionAdvances) get on at each turn.
LoopsAdvance == ScanAdvances /\ ConversionAdvances
=============================================================================
