------------------------------ MODULE MCJpegParts ------------------------------
(* Four parts of the codec that do not meet, checked in one run: what "part" is *)
(* decides which of them takes the steps.  The others stay as they are: the     *)
(* memory manager at its beginning, the rest without a scan, a file or a case.  *)
EXTENDS MCJpegMemory, MCJpegHuffman, MCJpegMarkers, MCJpegNumbers

VARIABLE part

NoEntropy ==
  /\ scan = <<>> /\ phase = "none" /\ coder = <<>> /\ dest = <<>> /\ input = <<>>
  /\ decoder = [output |-> <<>>] /\ lost = {}
NoMarkers == file = <<>> /\ source = <<>> /\ reader = [ret |-> "", error |-> TRUE]
NoCase == case = [kind |-> "none"]

PartsInit ==
  /\ Init
  /\ \/ part = "memory" /\ NoEntropy /\ NoMarkers /\ NoCase
     \/ part = "entropy" /\ EntropyInit /\ NoMarkers /\ NoCase
     \/ part = "markers" /\ NoEntropy /\ MarkersInit /\ NoCase
     \/ part = "numbers" /\ NoEntropy /\ NoMarkers /\ CaseInit

\* Of the parts only the coder and the decoder must always go on (JpegHuffman); the
\* others stop at the end of a file, at destruction and at a case.
Stopped == part # "entropy" /\ UNCHANGED <<part, vars, entropy, markers, case>>

PartsNext ==
  \/ part = "memory" /\ Next /\ UNCHANGED <<part, entropy, markers, case>>
  \/ part = "entropy" /\ EntropyNext /\ UNCHANGED <<part, vars, markers, case>>
  \/ part = "markers" /\ MarkersNext /\ UNCHANGED <<part, vars, entropy, case>>
  \/ part = "numbers" /\ CaseNext /\ UNCHANGED <<part, vars, entropy, markers>>
  \/ Stopped

PartsSpec == PartsInit /\ [][PartsNext]_<<part, vars, entropy, markers, case>>
=============================================================================
