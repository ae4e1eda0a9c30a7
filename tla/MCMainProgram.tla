---------------------------- MODULE MCMainProgram ----------------------------
(***************************************************************************)
(* Command lines for MainProgram.  Three instructions at most: either      *)
(* limit comes first, at zero too, or the guest does.                      *)
(***************************************************************************)
EXTENDS MainProgram

MCCommands ==
  [parses : {TRUE}, help : {FALSE}, file : {"prog"}, args : {0, 1, 3}, hash : BOOLEAN,
   maxicnt : {0, 2, 3}, dumpicnt : {0, 2, 3}, silent : BOOLEAN, log : BOOLEAN]
  \cup
  [parses : BOOLEAN, help : BOOLEAN, file : {"", "prog"}, args : {1}, hash : {FALSE},
   maxicnt : {3}, dumpicnt : {1}, silent : BOOLEAN, log : {FALSE}]
=============================================================================
