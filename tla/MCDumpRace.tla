----------------------------- MODULE MCDumpRace -----------------------------
(***************************************************************************)
(* Three processes: one machine for all, or dumps of three lengths.        *)
(***************************************************************************)
EXTENDS DumpRace

One == <<"header", "page 1", "page 2", "page 3">>

MCProcs   == {1, 2, 3}
MCRecords == {"header", "page 1", "page 2", "page 3", "other header", "other page"}

MCScenarios ==
  {[p \in MCProcs |-> One],
   [p \in MCProcs |-> <<One, <<"other header">>, <<"other header", "other page">>>>[p]]}
=============================================================================
