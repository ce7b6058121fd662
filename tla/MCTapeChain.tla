---------------------------- MODULE MCTapeChain ----------------------------
(* Instances of TapeChain for TLC: the chains of the runs. *)
EXTENDS TapeChain, TLC

Symmetry == Permutations(Tape)

ShippedChain == <<"BatchProcessing", "Reporting">>
NamingChain == <<"BatchProcessing", "TapeFileNaming", "CommandProcessing", "Reporting">>
CommandChain == <<"BatchProcessing", "CommandProcessing", "Reporting">>
SideChain == <<"DirectionSelector", "BatchProcessing", "Reporting">>
FullChain == <<"DirectionSelector", "BatchProcessing", "TapeFileNaming", "CommandProcessing", "Reporting">>

=============================================================================
