-------------------------- MODULE MCAnalysisManager --------------------------
(* A small instance of AnalysisManager: two analyzers of one type on both   *)
(* sides of DISASSEMBLY and one of another type.                            *)
EXTENDS AnalysisManager

CONSTANTS a1

MCAnalyzers == 1..3
MCPriority == <<3, 6, 4>>
MCType == <<"instruction", "instruction", "function">>
MCTypes == {"instruction", "function"}
MCEnabled == {1, 2, 3}
MCAddr == {a1}
MCOneShots == {5}
MCDISASSEMBLY == 4
=============================================================================
