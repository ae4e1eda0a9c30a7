---------------------------- MODULE MCHtifGuest ----------------------------
(***************************************************************************)
(* The stub with requests for every number interpret.hh lists, and with an *)
(* upper word that is not zero.                                            *)
(***************************************************************************)
EXTENDS HtifGuest

MCCalls == Range(SYS)

MCServed ==
  {SYS.open, SYS.close, SYS.lseek, SYS.read, SYS.write, SYS.stat, SYS.fstat,
   SYS.gettimeofday, SYS.times}
=============================================================================
