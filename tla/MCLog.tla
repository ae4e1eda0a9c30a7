------------------------------- MODULE MCLog --------------------------------
(***************************************************************************)
(* Programs for Log: a request, the instruction fetched before the look at *)
(* it, and one more, which may be none; what follows is no instruction.    *)
(***************************************************************************)
EXTENDS MCInterp, Log

BadBranch == Insn("branch", 0, 1, 2, 2, 0, -8)

\* capstone knows the words of Table, and some the switch does not.
MCKnown == 1 .. Len(Table) + 2

LogCalls ==
  {<<SYS_write, fd, Data, n>> : fd \in {1, 2, WordSize + 1}, n \in {0, 2}}
  \cup {<<SYS_open, Data>>, <<SYS_stat, Data, Data>>, <<17, 0>>, <<SYS_close, WordSize + 1>>,
        <<SYS_read, 0, 24, 2>>, <<SYS_lseek, 1, 0, 1>>, <<SYS_fstat, 1, Data>>,
        <<SYS_gettimeofday, Data, Data>>, <<SYS_times, Data>>}

\* A request in a protected page: served, and then its result cannot be stored.
Protected == 128

ProtectedImage ==
  LET m == WithCode(Table, Blank, <<Cycle0, Li(1, Protected), Post, Nop>>)
      buf == [o \in {0, 8, 16, 24} |->
                CASE o = 0 -> SYS_write [] o = 8 -> 1 [] o = 16 -> Data [] o = 24 -> 2] IN
  [a \in Word |->
     LET o == a - Protected IN
     IF o \in 0 .. 31 THEN ByteOf(buf[8 * (o \div 8)], o % 8) ELSE m[a]]

LogImages ==
  LET t == Table IN
  {WithRequest(WithCode(t, Blank, <<Li(1, p), Post, i, j>>), c) :
     p \in {1, Request}, i \in {Nop, Post, Mulhsu, BadBranch}, j \in {Nop, Ecall},
     c \in LogCalls}
  \cup {ProtectedImage}
=============================================================================
