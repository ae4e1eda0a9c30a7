------------------------------ MODULE RunProofs -----------------------------
(***************************************************************************)
(* Proofs about the specifications that extend Interp, for every program:  *)
(* the run that prints (Log), for every set of words capstone knows and    *)
(* every choice of the buffer; the run of a guest with the stub of         *)
(* HtifGuest in its memory (HtifStub), wherever the linker has put the     *)
(* stub, its buffer and the mailbox; and the run that begins with load_elf *)
(* (Program), for every file.  The first two are runs of Interp, and so is *)
(* the third from the end of load_elf on: the invariants of InterpProofs   *)
(* hold in them.                                                           *)
(*                                                                         *)
(* Of the text every step of Log extends it in one of three ways: an entry *)
(* is held back, an entry is sent past the buffer, the buffer is sent.  Of *)
(* the stub, every instruction of the guest and every look of the host is  *)
(* one step of HtifGuest; the invariant says what the registers and the    *)
(* mailbox hold at each place.                                             *)
(***************************************************************************)
EXTENDS Log, HtifStub, Program, InterpProofs, SequenceTheorems, FiniteSetTheorems

-----------------------------------------------------------------------------
(* Log.                                                                    *)

Names == {GetGPRName(r) : r \in Reg}

\* What may be printed.
Entries ==
  [kind : {"line", "unknown"}, pc : Word, asm : SUBSET Word, icnt : Nat]
    \cup [kind : {"state"}, pc : Word, icnt : Nat, regs : SUBSET (Names \X Word)]
    \cup [kind : {"guest"}, wide : BOOLEAN, icnt : Nat]
    \cup [kind : {"cut", "unsupported", "implement"}, icnt : Nat]

Outputs == [held : Seq(Entries), sent : Seq(Entries), lost : BOOLEAN]

LEMMA EntryCount == \A e \in Entries : e.icnt \in Nat
  BY DEF Entries

-----------------------------------------------------------------------------
(* A run that logs is a run of Interp.                                     *)

LEMMA LogStep == ASSUME [LogNext]_logVars PROVE [Next]_vars
  BY DEF LogNext, logVars, Silently, LogPoll, LogWrite, LogSysFault, LogUnsupported,
         LogExecute, LogAbort, LogUnknown, Next, Syscall, Execute, SysWrite

\* With or without --log the program does the same: what is proved of Interp holds
\* of a run that prints.
THEOREM LoggingOnlyPrints == LogSpec => Spec
<1>1. LogInit => Init
  BY DEF LogInit
<1> QED
  BY <1>1, LogStep, PTL DEF LogSpec, Spec

-----------------------------------------------------------------------------
(* Sequences of entries.                                                   *)

LEMMA NoElements == ToSet(<<>>) = {}
  BY DEF ToSet

LEMMA AppendElements ==
  ASSUME NEW s \in Seq(Entries), NEW e \in Entries
  PROVE  ToSet(Append(s, e)) = ToSet(s) \cup {e}
  BY AppendProperties DEF ToSet

LEMMA ConcatElements ==
  ASSUME NEW s \in Seq(Entries), NEW t \in Seq(Entries)
  PROVE  ToSet(s \o t) = ToSet(s) \cup ToSet(t)
<1> DEFINE u == s \o t
<1>1. /\ u \in Seq(Entries) /\ Len(u) = Len(s) + Len(t)
      /\ \A k \in 1 .. Len(s) + Len(t) :
           u[k] = IF k <= Len(s) THEN s[k] ELSE t[k - Len(s)]
  BY ConcatProperties
<1>2. DOMAIN s = 1 .. Len(s) /\ DOMAIN t = 1 .. Len(t) /\ DOMAIN u = 1 .. Len(s) + Len(t)
  BY <1>1, LenProperties
<1>3. Len(s) \in Nat /\ Len(t) \in Nat
  BY LenProperties
<1> HIDE DEF u
<1>4. ASSUME NEW k \in 1 .. Len(s) + Len(t) PROVE u[k] \in ToSet(s) \cup ToSet(t)
  <2>1. k <= Len(s) => k \in DOMAIN s /\ u[k] = s[k]
    BY <1>1, <1>2, <1>3
  <2>2. k > Len(s) => k - Len(s) \in DOMAIN t /\ u[k] = t[k - Len(s)]
    BY <1>1, <1>2, <1>3
  <2> QED
    BY <1>3, <2>1, <2>2 DEF ToSet
<1>5. ToSet(s) \subseteq ToSet(u)
  BY <1>1, <1>2, <1>3 DEF ToSet
<1>6. ASSUME NEW k \in 1 .. Len(t) PROVE t[k] \in ToSet(u)
  <2> DEFINE j == Len(s) + k
  <2>1. j \in 1 .. Len(s) + Len(t) /\ ~(j <= Len(s)) /\ j - Len(s) = k
    BY <1>3
  <2> HIDE DEF j
  <2>2. u[j] = t[k]
    BY <1>1, <2>1
  <2> QED
    BY <1>2, <2>1, <2>2 DEF ToSet
<1>7. ToSet(t) \subseteq ToSet(u)
  BY <1>2, <1>6 DEF ToSet
<1> QED
  BY <1>2, <1>4, <1>5, <1>7 DEF u, ToSet

LEMMA LastOfAppend ==
  ASSUME NEW s \in Seq(Entries), NEW t \in Seq(Entries), NEW e \in Entries
  PROVE  Last(s \o Append(t, e)) = e
<1> DEFINE u == Append(t, e)
<1>1. u \in Seq(Entries) /\ Len(u) = Len(t) + 1 /\ u[Len(u)] = e
  BY AppendProperties
<1> HIDE DEF u
<1>2. /\ Len(s \o u) = Len(s) + Len(u)
      /\ \A k \in 1 .. Len(s) + Len(u) :
           (s \o u)[k] = IF k <= Len(s) THEN s[k] ELSE u[k - Len(s)]
  BY <1>1, ConcatProperties
<1>3. Len(s) \in Nat /\ Len(t) \in Nat
  BY LenProperties
<1>4. (s \o u)[Len(s) + Len(u)] = e
  BY <1>1, <1>2, <1>3
<1> QED
  BY <1>2, <1>4 DEF Last, u

\* An entry at the end, no line or a later line, keeps the lines in order.
LEMMA AppendLines ==
  ASSUME NEW s \in Seq(Entries), NEW e \in Entries
  PROVE  /\ LinesOf(Append(s, e)) = LinesOf(s) \cup (IF e.kind = "line" THEN {e} ELSE {})
         /\ InOrder(s) /\ (e.kind = "line" => \A l \in LinesOf(s) : l.icnt < e.icnt)
              => InOrder(Append(s, e))
<1> DEFINE u == Append(s, e)
<1>1. LinesOf(u) = LinesOf(s) \cup (IF e.kind = "line" THEN {e} ELSE {})
  BY AppendElements DEF LinesOf
<1>2. /\ DOMAIN s = 1 .. Len(s) /\ DOMAIN u = 1 .. Len(s) + 1 /\ Len(s) \in Nat
      /\ \A k \in 1 .. Len(s) : u[k] = s[k]
      /\ u[Len(s) + 1] = e
  BY AppendProperties, LenProperties
<1> HIDE DEF u
<1>3. ASSUME InOrder(s), e.kind = "line" => \A l \in LinesOf(s) : l.icnt < e.icnt,
             NEW j \in DOMAIN u, NEW k \in DOMAIN u,
             j < k, u[j].kind = "line", u[k].kind = "line"
      PROVE  u[j].icnt < u[k].icnt
  <2>1. j \in DOMAIN s /\ u[j] = s[j]
    BY <1>2, <1>3
  <2>2. CASE k = Len(s) + 1
    <3>1. s[j] \in LinesOf(s) /\ u[k] = e
      BY <1>2, <1>3, <2>1, <2>2 DEF LinesOf, ToSet
    <3> QED
      BY <1>3, <2>1, <3>1
  <2>3. CASE k # Len(s) + 1
    <3>1. k \in DOMAIN s /\ u[k] = s[k]
      BY <1>2, <2>3
    <3> QED
      BY <1>3, <2>1, <3>1 DEF InOrder
  <2> QED
    BY <2>2, <2>3
<1> QED
  BY <1>1, <1>3 DEF InOrder, u

\* An entry that is no line may stand anywhere between them.
LEMMA InsertLines ==
  ASSUME NEW s \in Seq(Entries), NEW t \in Seq(Entries), NEW e \in Entries, e.kind # "line"
  PROVE  /\ LinesOf((s \o <<e>>) \o t) = LinesOf(s \o t)
         /\ InOrder(s \o t) => InOrder((s \o <<e>>) \o t)
<1> DEFINE v == s \o t
           w == Append(s, e)
           u == w \o t
           Old(k) == IF k <= Len(s) THEN k ELSE k - 1
<1>1. s \o <<e>> = w
  BY AppendIsConcat
<1>2. /\ w \in Seq(Entries) /\ Len(w) = Len(s) + 1 /\ w[Len(s) + 1] = e
      /\ \A k \in 1 .. Len(s) : w[k] = s[k]
  BY AppendProperties
<1>3. Len(s) \in Nat /\ Len(t) \in Nat
  BY LenProperties
<1>4. /\ v \in Seq(Entries) /\ DOMAIN v = 1 .. Len(s) + Len(t)
      /\ \A k \in 1 .. Len(s) + Len(t) :
           v[k] = IF k <= Len(s) THEN s[k] ELSE t[k - Len(s)]
  BY ConcatProperties, LenProperties
<1>5. /\ u \in Seq(Entries) /\ Len(u) = Len(w) + Len(t)
      /\ \A k \in 1 .. Len(w) + Len(t) :
           u[k] = IF k <= Len(w) THEN w[k] ELSE t[k - Len(w)]
  <2> HIDE DEF w
  <2> QED
    BY <1>2, ConcatProperties
<1>6. DOMAIN u = 1 .. Len(s) + Len(t) + 1
  BY <1>2, <1>3, <1>5, LenProperties
<1>7. LinesOf(u) = LinesOf(v)
  <2>1. ToSet(u) = ToSet(w) \cup ToSet(t)
    <3> HIDE DEF w
    <3> QED
      BY <1>2, ConcatElements
  <2>2. ToSet(u) = ToSet(v) \cup {e}
    BY <2>1, AppendElements, ConcatElements
  <2> QED
    BY <2>2 DEF LinesOf
<1> HIDE DEF u, v, w
<1>8. ASSUME NEW k \in DOMAIN u, u[k].kind = "line"
      PROVE  k # Len(s) + 1 /\ Old(k) \in DOMAIN v /\ u[k] = v[Old(k)]
  <2>1. k # Len(s) + 1
    BY <1>2, <1>3, <1>5, <1>6, <1>8
  <2>2. CASE k <= Len(s)
    <3>1. /\ k \in 1 .. Len(s) /\ k \in 1 .. Len(s) + Len(t) /\ Old(k) = k
          /\ k \in 1 .. Len(w) + Len(t) /\ k <= Len(w)
      BY <1>2, <1>3, <1>6, <2>2
    <3>2. u[k] = s[k] /\ v[k] = s[k]
      BY <1>2, <1>4, <1>5, <3>1
    <3> QED
      BY <1>4, <2>1, <3>1, <3>2
  <2>3. CASE k > Len(s) + 1
    <3>1. /\ ~(k <= Len(w)) /\ k \in 1 .. Len(w) + Len(t)
          /\ ~(k - 1 <= Len(s)) /\ k - 1 \in 1 .. Len(s) + Len(t)
          /\ k - Len(w) = (k - 1) - Len(s) /\ Old(k) = k - 1
      BY <1>2, <1>3, <1>6, <2>3
    <3>2. u[k] = t[k - Len(w)] /\ v[k - 1] = t[(k - 1) - Len(s)]
      BY <1>4, <1>5, <3>1
    <3> QED
      BY <1>4, <2>1, <3>1, <3>2
  <2> QED
    BY <1>3, <1>6, <2>1, <2>2, <2>3
<1>9. ASSUME InOrder(v), NEW j \in DOMAIN u, NEW k \in DOMAIN u,
             j < k, u[j].kind = "line", u[k].kind = "line"
      PROVE  u[j].icnt < u[k].icnt
  <2>1. Old(j) < Old(k)
    BY <1>3, <1>6, <1>8, <1>9
  <2>2. /\ Old(j) \in DOMAIN v /\ u[j] = v[Old(j)]
        /\ Old(k) \in DOMAIN v /\ u[k] = v[Old(k)]
    BY <1>8, <1>9
  <2> HIDE DEF Old
  <2> QED
    BY <1>9, <2>1, <2>2 DEF InOrder
<1> QED
  BY <1>1, <1>7, <1>9 DEF InOrder, u, v

-----------------------------------------------------------------------------
(* stdio.                                                                  *)

LEMMA HeldFacts ==
  ASSUME NEW c \in Outputs, NEW e \in Entries
  PROVE  /\ Held(c, e) \in Outputs
         /\ Held(c, e).sent = c.sent /\ Held(c, e).lost = c.lost
         /\ Held(c, e).held = Append(c.held, e)
  BY AppendProperties DEF Outputs, Held

\* What is sent arrives, or its loss is noted.
LEMMA SentFacts ==
  ASSUME NEW c \in Outputs, NEW open, NEW text \in Seq(Entries)
  PROVE  /\ Sent(c, open, text) \in Outputs
         /\ Sent(c, open, text).held = c.held
         /\ ~Sent(c, open, text).lost => ~c.lost /\ Sent(c, open, text).sent = c.sent \o text
         /\ Sent(c, open, text).sent \in {c.sent, c.sent \o text}
<1>1. c.sent \o text \in Seq(Entries)
  BY ConcatProperties DEF Outputs
<1>2. CASE 1 \in open
  BY <1>1, <1>2 DEF Outputs, Sent
<1>3. CASE 1 \notin open
  BY <1>3 DEF Outputs, Sent
<1> QED
  BY <1>2, <1>3

\* A flush empties the buffer, whatever becomes of the text.
LEMMA FlushFacts ==
  ASSUME NEW c \in Outputs, NEW open
  PROVE  /\ Flush(c, open) \in Outputs
         /\ Flush(c, open).held = <<>>
         /\ ~Flush(c, open).lost => ~c.lost /\ Flush(c, open).sent = c.sent \o c.held
         /\ Flush(c, open).sent \in {c.sent, c.sent \o c.held}
<1>1. c.held \in Seq(Entries) /\ c.sent \in Seq(Entries)
  BY DEF Outputs
<1>2. CASE c.held = <<>>
  BY <1>1, <1>2, ConcatEmptySeq DEF Flush
<1>3. CASE c.held # <<>>
  <2> DEFINE d == Sent(c, open, c.held)
  <2>1. /\ d \in Outputs
        /\ ~d.lost => ~c.lost /\ d.sent = c.sent \o c.held
        /\ d.sent \in {c.sent, c.sent \o c.held}
    BY <1>1, SentFacts
  <2>2. Flush(c, open) = [d EXCEPT !.held = <<>>]
    BY <1>3 DEF Flush
  <2> HIDE DEF d
  <2> QED
    BY <2>1, <2>2, EmptySeq DEF Outputs
<1> QED
  BY <1>2, <1>3

-----------------------------------------------------------------------------
(* The lines of a run.                                                     *)

TextOf(c) == c.sent \o c.held

KeepsLines(c, d) ==
  ~d.lost => /\ ~c.lost
             /\ LinesOf(TextOf(d)) = LinesOf(TextOf(c))
             /\ InOrder(TextOf(c)) => InOrder(TextOf(d))

AddsLine(c, d, e) ==
  ~d.lost => /\ ~c.lost
             /\ LinesOf(TextOf(d)) = LinesOf(TextOf(c)) \cup {e}
             /\ InOrder(TextOf(c)) /\ (\A l \in LinesOf(TextOf(c)) : l.icnt < e.icnt)
                  => InOrder(TextOf(d))

LEMMA HeldLines ==
  ASSUME NEW c \in Outputs, NEW e \in Entries
  PROVE  /\ e.kind # "line" => KeepsLines(c, Held(c, e))
         /\ e.kind = "line" => AddsLine(c, Held(c, e), e)
<1>1. c.sent \in Seq(Entries) /\ c.held \in Seq(Entries) /\ <<e>> \in Seq(Entries)
  BY DEF Outputs
<1>2. TextOf(c) \in Seq(Entries)
  BY <1>1, ConcatProperties DEF TextOf
<1>3. TextOf(Held(c, e)) = Append(TextOf(c), e)
  <2>1. TextOf(Held(c, e)) = c.sent \o (c.held \o <<e>>)
    BY <1>1, HeldFacts, AppendIsConcat DEF TextOf
  <2>2. @ = (c.sent \o c.held) \o <<e>>
    <3> DEFINE s == c.sent
               t == c.held
               u == <<e>>
    <3>1. s \in Seq(Entries) /\ t \in Seq(Entries) /\ u \in Seq(Entries)
      BY <1>1
    <3> HIDE DEF s, t, u
    <3>2. s \o (t \o u) = (s \o t) \o u
      BY <3>1, ConcatAssociative
    <3> QED
      BY <3>2 DEF s, t, u
  <2> QED
    BY <1>2, <2>1, <2>2, AppendIsConcat DEF TextOf
<1> QED
  BY <1>2, <1>3, HeldFacts, AppendLines DEF KeepsLines, AddsLine

LEMMA FlushLines ==
  ASSUME NEW c \in Outputs, NEW open
  PROVE  KeepsLines(c, Flush(c, open))
<1>1. c.sent \o c.held \in Seq(Entries)
  BY ConcatProperties DEF Outputs
<1>2. ~Flush(c, open).lost => ~c.lost /\ TextOf(Flush(c, open)) = TextOf(c)
  BY <1>1, FlushFacts, ConcatEmptySeq DEF TextOf
<1> QED
  BY <1>2 DEF KeepsLines

LEMMA SentLines ==
  ASSUME NEW c \in Outputs, NEW open, NEW e \in Entries, e.kind # "line"
  PROVE  KeepsLines(c, Sent(c, open, <<e>>))
<1>1. c.sent \in Seq(Entries) /\ c.held \in Seq(Entries) /\ <<e>> \in Seq(Entries)
  BY DEF Outputs
<1>2. ~Sent(c, open, <<e>>).lost =>
        ~c.lost /\ TextOf(Sent(c, open, <<e>>)) = (c.sent \o <<e>>) \o c.held
  BY <1>1, SentFacts DEF TextOf
<1> QED
  BY <1>1, <1>2, InsertLines DEF KeepsLines, TextOf

LEMMA PutsLines ==
  ASSUME NEW c \in Outputs, NEW open, NEW e \in Entries, NEW d \in Puts(c, open, e)
  PROVE  /\ d \in Outputs
         /\ e.kind # "line" => KeepsLines(c, d)
         /\ e.kind = "line" => AddsLine(c, d, e)
<1> DEFINE h == Held(c, e)
<1>1. h \in Outputs /\ Flush(h, open) \in Outputs
  BY HeldFacts, FlushFacts
<1>2. /\ e.kind # "line" => KeepsLines(c, h)
      /\ e.kind = "line" => AddsLine(c, h, e)
  BY HeldLines
<1>3. KeepsLines(h, Flush(h, open))
  BY <1>1, FlushLines
<1>4. d = h \/ d = Flush(h, open)
  BY DEF Puts
<1> HIDE DEF h
<1> QED
  BY <1>1, <1>2, <1>3, <1>4 DEF KeepsLines, AddsLine

-----------------------------------------------------------------------------
(* The order of the entries of the interpreter and of the guest.           *)

UpToNow(c) == \A e \in ToSet(c.sent) \cup ToSet(c.held) : e.icnt <= icnt

Shown(c) ==
  \A e \in ToSet(c.sent), h \in ToSet(c.held) :
    e.kind = "guest" /\ ~e.wide => h.icnt >= e.icnt

LEMMA HeldShown ==
  ASSUME icnt \in Nat, NEW c \in Outputs, NEW e \in Entries, e.icnt = icnt, UpToNow(c)
  PROVE  UpToNow(Held(c, e)) /\ (Shown(c) => Shown(Held(c, e)))
<1>1. /\ ToSet(Held(c, e).sent) = ToSet(c.sent)
      /\ ToSet(Held(c, e).held) = ToSet(c.held) \cup {e}
  BY HeldFacts, AppendElements DEF Outputs
<1> QED
  BY <1>1 DEF UpToNow, Shown

LEMMA FlushShown ==
  ASSUME NEW c \in Outputs, NEW open, UpToNow(c)
  PROVE  UpToNow(Flush(c, open)) /\ Shown(Flush(c, open))
<1>1. ToSet(Flush(c, open).sent) \subseteq ToSet(c.sent) \cup ToSet(c.held)
  BY FlushFacts, ConcatElements DEF Outputs
<1>2. Flush(c, open).held = <<>> /\ ToSet(<<>>) = {}
  BY FlushFacts, NoElements
<1> QED
  BY <1>1, <1>2 DEF UpToNow, Shown

LEMMA SentShown ==
  ASSUME icnt \in Nat, NEW c \in Outputs, NEW open, NEW e \in Entries, e.icnt = icnt, UpToNow(c)
  PROVE  /\ UpToNow(Sent(c, open, <<e>>))
         /\ Shown(c) /\ (e.kind = "guest" => e.wide) => Shown(Sent(c, open, <<e>>))
<1>1. c.sent \in Seq(Entries) /\ <<e>> \in Seq(Entries) /\ ToSet(<<e>>) = {e}
  BY DEF Outputs, ToSet
<1>2. /\ Sent(c, open, <<e>>).sent \in {c.sent, c.sent \o <<e>>}
      /\ Sent(c, open, <<e>>).held = c.held
  BY <1>1, SentFacts
<1>3. ToSet(c.sent \o <<e>>) = ToSet(c.sent) \cup {e}
  BY <1>1, ConcatElements
<1>4. ToSet(Sent(c, open, <<e>>).sent) \subseteq ToSet(c.sent) \cup {e}
  BY <1>2, <1>3
<1> QED
  BY <1>2, <1>4 DEF UpToNow, Shown

LEMMA PutsShown ==
  ASSUME icnt \in Nat, NEW c \in Outputs, NEW open, NEW e \in Entries, e.icnt = icnt, UpToNow(c),
         Shown(c), NEW d \in Puts(c, open, e)
  PROVE  UpToNow(d) /\ Shown(d)
<1>1. Held(c, e) \in Outputs /\ UpToNow(Held(c, e)) /\ Shown(Held(c, e))
  BY HeldFacts, HeldShown
<1>2. UpToNow(Flush(Held(c, e), open)) /\ Shown(Flush(Held(c, e), open))
  BY <1>1, FlushShown
<1> QED
  BY <1>1, <1>2 DEF Puts

-----------------------------------------------------------------------------
(***************************************************************************)
(* The inductive invariant.  Every entry bears the count at which it was   *)
(* made, so what is held back now is not older than what the guest has     *)
(* printed, and a new line comes after the others; last_pc is pc from the  *)
(* look at tohost to the end of the instruction, which makes the report of *)
(* an unknown opcode name the culprit.                                     *)
(***************************************************************************)
LastPcNoted == at = "exec" => last_pc = pc

LogInv ==
  /\ IInv
  /\ stdout \in Outputs
  /\ UpToNow(stdout)
  /\ LastPcNoted
  /\ OneLineEach
  /\ ShownByPrint
  /\ LastWords

LEMMA InitLogInv == LogInit => LogInv
<1> SUFFICES ASSUME LogInit PROVE LogInv
  OBVIOUS
<1>1. /\ stdout = [held |-> <<>>, sent |-> <<>>, lost |-> FALSE]
      /\ Init /\ at = "loop" /\ icnt = 0
  BY DEF LogInit, Init
<1>2. IInv
  BY <1>1, InitIInv
<1>3. stdout \in Outputs
  BY <1>1, EmptySeq DEF Outputs
<1>4. ToSet(<<>>) = {} /\ <<>> \o <<>> = <<>>
  BY NoElements
<1>5. UpToNow(stdout) /\ ShownByPrint
  BY <1>1, <1>4 DEF UpToNow, ShownByPrint
<1>6. OneLineEach
  <2>1. Printed = <<>> /\ LinesOf(Printed) = {}
    BY <1>1, <1>4 DEF Printed, LinesOf
  <2>2. InOrder(Printed)
    BY <2>1 DEF InOrder
  <2>3. 0 \in Begun /\ {e.icnt : e \in LinesOf(Printed)} = 0 .. 0 - 1
    BY <1>1, <2>1 DEF Begun
  <2> QED
    BY <1>1, <2>2, <2>3 DEF OneLineEach
<1>7. LastPcNoted /\ LastWords
  BY <1>1 DEF LastPcNoted, LastWords
<1> QED
  BY <1>2, <1>3, <1>5, <1>6, <1>7 DEF LogInv

\* What an entry says is of the types the variables have.
LEMMA LineType ==
  ASSUME TypeOK, NEW kind \in {"line", "unknown"}
  PROVE  Line(kind) \in Entries /\ Line(kind).kind = kind /\ Line(kind).icnt = icnt
  BY DEF TypeOK, Line, Entries, GetAsmString

\* A run that dies, whatever it says of it, has begun no other instruction.
LEMMA DeathKeepsLines ==
  ASSUME OneLineEach, NEW how \in {"exited", "aborted", "faulted"}, Die(how),
         KeepsLines(stdout, stdout')
  PROVE  OneLineEach'
<1> SUFFICES ASSUME Logging, ~stdout'.lost
             PROVE  /\ InOrder(Printed')
                    /\ \E n \in Begun' : {e.icnt : e \in LinesOf(Printed')} = 0 .. n - 1
                    /\ at' # "exec"
  BY DEF OneLineEach
<1>1. ~stdout.lost /\ LinesOf(Printed') = LinesOf(Printed) /\ (InOrder(Printed) => InOrder(Printed'))
  BY DEF KeepsLines, Printed, TextOf
<1>2. Begun \subseteq Begun'
  <2>1. Begun \subseteq {icnt, icnt + 1}
    BY DEF Begun
  <2>2. Begun' = {icnt, icnt + 1}
    BY DEF Begun, Die
  <2> QED
    BY <2>1, <2>2
<1>3. at' # "exec"
  BY DEF Die
<1> QED
  BY <1>1, <1>2, <1>3 DEF OneLineEach

\* The look at tohost, with what a call may have printed, adds one line.
LEMMA PollAddsLine ==
  ASSUME TypeOK, OneLineEach, ToExec, NEW d \in Outputs, KeepsLines(stdout, d),
         stdout' \in Logged(d)
  PROVE  OneLineEach'
<1> DEFINE line == Line("line")
<1> SUFFICES ASSUME Logging, ~stdout'.lost
             PROVE  /\ InOrder(Printed')
                    /\ {e.icnt : e \in LinesOf(Printed')} = 0 .. icnt
                    /\ \A e \in LinesOf(Printed') :
                         e.icnt = icnt => e.pc = pc /\ e.asm = GetAsmString(inst)
  <2>1. Begun' = {icnt + 1} /\ icnt' = icnt /\ pc' = pc /\ inst' = inst
    BY DEF ToExec, Begun
  <2>2. icnt \in Nat /\ icnt + 1 - 1 = icnt
    BY DEF TypeOK
  <2>3. GetAsmString(inst') = GetAsmString(inst)
    BY <2>1
  <2> QED
    BY <2>1, <2>2, <2>3 DEF OneLineEach
<1>1. icnt \in Nat /\ line \in Entries /\ line.kind = "line" /\ line.icnt = icnt
  BY LineType DEF TypeOK
<1>2. line.pc = pc /\ line.asm = GetAsmString(inst)
  BY DEF Line
<1> HIDE DEF line
<1>3. AddsLine(d, stdout', line)
  BY <1>1, PutsLines DEF Logged, line
<1>4. ~d.lost /\ ~stdout.lost
  BY <1>3 DEF AddsLine, KeepsLines
<1>5. InOrder(Printed) /\ {e.icnt : e \in LinesOf(Printed)} = 0 .. icnt - 1
  <2>1. Begun = {icnt}
    BY DEF ToExec, Begun
  <2> QED
    BY <1>4, <2>1 DEF OneLineEach
<1>6. LinesOf(TextOf(d)) = LinesOf(Printed) /\ InOrder(TextOf(d))
  BY <1>4, <1>5 DEF KeepsLines, TextOf, Printed
<1>7. \A e \in LinesOf(Printed) : e.icnt < icnt /\ e.icnt # icnt
  <2>1. \A e \in LinesOf(Printed) : e.icnt \in 0 .. icnt - 1
    BY <1>5
  <2> QED
    BY <1>1, <2>1
<1>8. InOrder(Printed') /\ LinesOf(Printed') = LinesOf(Printed) \cup {line}
  BY <1>1, <1>3, <1>6, <1>7 DEF AddsLine, TextOf, Printed
<1>9. {e.icnt : e \in LinesOf(Printed')} = 0 .. icnt
  <2>1. {e.icnt : e \in LinesOf(Printed')} = {e.icnt : e \in LinesOf(Printed)} \cup {icnt}
    BY <1>1, <1>8
  <2>2. (0 .. icnt - 1) \cup {icnt} = 0 .. icnt
    BY <1>1
  <2> QED
    BY <1>5, <2>1, <2>2
<1> QED
  BY <1>2, <1>7, <1>8, <1>9

\* The parts of the invariant that a step from the poll to the instruction touches.
LEMMA PollLogInv ==
  ASSUME LogInv, IInv', ToExec, NEW d \in Outputs, KeepsLines(stdout, d),
         UpToNow(d), Shown(d), stdout' \in Logged(d)
  PROVE  LogInv'
<1>1. TypeOK /\ icnt \in Nat /\ icnt' = icnt
  BY DEF LogInv, IInv, TypeOK, ToExec
<1>2. stdout' \in Outputs /\ UpToNow(stdout') /\ Shown(stdout')
  <2>1. CASE Logging
    BY <1>1, <2>1, LineType, PutsLines, PutsShown DEF Logged
  <2>2. CASE ~Logging
    BY <2>2 DEF Logged
  <2> QED
    BY <2>1, <2>2
<1>3. UpToNow(stdout)' /\ ShownByPrint'
  BY <1>1, <1>2 DEF UpToNow, Shown, ShownByPrint
<1>4. OneLineEach'
  BY <1>1, PollAddsLine DEF LogInv
<1>5. LastPcNoted' /\ LastWords'
  BY DEF ToExec, LastPcNoted, LastWords
<1> QED
  BY <1>2, <1>3, <1>4, <1>5 DEF LogInv

\* A step that prints nothing, and does not end the run with exit(-1).
LEMMA QuietLogInv ==
  ASSUME LogInv, IInv', UNCHANGED stdout,
         \/ Fetch \/ Return \/ Retired
         \/ \E how \in {"aborted", "faulted"} : Die(how)
  PROVE  LogInv'
<1>1. icnt \in Nat /\ icnt' \in {icnt, icnt + 1} /\ at' \notin {"exec", "exited"}
  BY DEF LogInv, IInv, TypeOK, Fetch, Return, Retired, Retire, Die
<1>2. UpToNow(stdout)'
  <2>1. ToSet(stdout.sent) \cup ToSet(stdout.held) \subseteq Entries
    BY LenProperties DEF LogInv, Outputs, ToSet
  <2> QED
    BY <1>1, <2>1, EntryCount DEF LogInv, UpToNow
<1>3. LastPcNoted' /\ LastWords' /\ ShownByPrint'
  BY <1>1 DEF LastPcNoted, LastWords, LogInv, ShownByPrint
<1>4. Begun \subseteq Begun'
  <2>1. CASE Fetch \/ Return
    BY <2>1 DEF Fetch, Return, Begun
  <2>2. CASE Retired
    BY <2>2 DEF Retired, Retire, Begun
  <2>3. CASE \E how \in {"aborted", "faulted"} : Die(how)
    <3>1. Begun \subseteq {icnt, icnt + 1}
      BY DEF Begun
    <3>2. Begun' = {icnt, icnt + 1}
      BY <2>3 DEF Begun, Die
    <3> QED
      BY <3>1, <3>2
  <2> QED
    BY <2>1, <2>2, <2>3
<1>5. OneLineEach'
  <2>1. Printed' = Printed
    BY DEF Printed
  <2> QED
    BY <1>1, <1>4, <2>1 DEF LogInv, OneLineEach
<1> QED
  BY <1>2, <1>3, <1>5 DEF LogInv

\* A step that ends the run, with the text it still prints.
LEMMA DeathLogInv ==
  ASSUME LogInv, IInv', NEW how \in {"exited", "aborted", "faulted"}, Die(how),
         stdout' \in Outputs, KeepsLines(stdout, stdout'), UpToNow(stdout'),
         Shown(stdout'), LastWords'
  PROVE  LogInv'
<1>1. UpToNow(stdout)' /\ ShownByPrint'
  BY DEF Die, UpToNow, Shown, ShownByPrint
<1>2. LastPcNoted'
  BY DEF Die, LastPcNoted
<1>3. OneLineEach'
  BY DeathKeepsLines DEF LogInv
<1> QED
  BY <1>1, <1>2, <1>3 DEF LogInv

-----------------------------------------------------------------------------
(* The report of an unknown opcode.                                        *)

LEMMA NamesDiffer == \A r, q \in Reg : GetGPRName(r) = GetGPRName(q) => r = q
<1>1. \A j, k \in 1 .. 32 : regNames[j] = regNames[k] => j = k
  BY SMTT(60) DEF regNames
<1>2. \A r \in Reg : GetGPRName(r) = regNames[r + 1] /\ r + 1 \in 1 .. 32
  BY DEF GetGPRName, Reg
<1> QED
  BY <1>1, <1>2 DEF Reg

\* The report has an entry for each register.
LEMMA EveryRegister ==
  ASSUME TypeOK
  PROVE  /\ Dump \in Entries /\ Dump.kind = "state" /\ Dump.icnt = icnt
         /\ Dump.pc = last_pc /\ Cardinality(Dump.regs) = Cardinality(Reg)
<1> DEFINE regs == {<<GetGPRName(r), gpr[r]>> : r \in Reg}
           f == [r \in Reg |-> <<GetGPRName(r), gpr[r]>>]
<1>1. regs \in SUBSET (Names \X Word)
  BY DEF TypeOK, Names
<1>2. f \in Bijection(Reg, regs)
  <2>1. f \in [Reg -> regs] /\ \A t \in regs : \E r \in Reg : f[r] = t
    OBVIOUS
  <2>2. \A r, q \in Reg : f[r] = f[q] => r = q
    BY NamesDiffer
  <2> HIDE DEF f, regs
  <2> QED
    BY <2>1, <2>2 DEF Bijection, Injection, Surjection, IsInjective
<1>3. Cardinality(regs) = Cardinality(Reg)
  <2>1. IsFiniteSet(Reg)
    <3>1. \A m, n \in Int : IsFiniteSet(m .. n)
      BY FS_Interval
    <3>2. 0 \in Int /\ 31 \in Int
      OBVIOUS
    <3> QED
      BY <3>1, <3>2, Zenon DEF Reg
  <2> HIDE DEF f, regs
  <2>2. ExistsBijection(Reg, regs)
    BY <1>2 DEF ExistsBijection
  <2> QED
    BY <2>1, <2>2, FS_Bijection
<1>4. Dump = [kind |-> "state", pc |-> last_pc, icnt |-> icnt, regs |-> regs]
  BY DEF Dump
<1> HIDE DEF regs
<1> QED
  BY <1>1, <1>3, <1>4 DEF TypeOK, Entries

-----------------------------------------------------------------------------
(* Every step preserves the invariant.                                     *)

LEMMA SameLines == ASSUME NEW c PROVE KeepsLines(c, c)
  BY DEF KeepsLines

\* What write has put past the buffer, and the flush behind it.
LEMMA WriteLogInv ==
  ASSUME LogInv, IInv', LogWrite
  PROVE  LogInv'
<1>1. PICK v \in Asking(SYS_write) : \E r \in Transferred(Fd(v), Arg(v, 3)) :
        LET written == IF Fd(v) = 1 /\ r > 0 THEN Sent(stdout, fds, Text(v)) ELSE stdout
            flushed == IF FlushesStdout(v) THEN Flush(written, fds) ELSE written IN
        /\ Complete(Reply(mem, r), fds)
        /\ stdout' \in Logged(flushed)
  BY DEF LogWrite
<1>2. PICK r \in Transferred(Fd(v), Arg(v, 3)) :
        LET written == IF Fd(v) = 1 /\ r > 0 THEN Sent(stdout, fds, Text(v)) ELSE stdout
            flushed == IF FlushesStdout(v) THEN Flush(written, fds) ELSE written IN
        /\ Complete(Reply(mem, r), fds)
        /\ stdout' \in Logged(flushed)
  BY <1>1
<1> DEFINE written == IF Fd(v) = 1 /\ r > 0 THEN Sent(stdout, fds, Text(v)) ELSE stdout
           flushed == IF FlushesStdout(v) THEN Flush(written, fds) ELSE written
           e == [kind |-> "guest", wide |-> Arg(v, 1) >= WordSize, icnt |-> icnt]
<1>3. ToExec /\ stdout' \in Logged(flushed)
  BY <1>2 DEF Complete
<1>4. TypeOK /\ icnt \in Nat /\ stdout \in Outputs /\ UpToNow(stdout) /\ Shown(stdout)
  BY DEF LogInv, IInv, TypeOK, ShownByPrint, Shown
<1>5. v \in Buf /\ Requested /\ Arg(v, 1) \in Nat
  <2>1. v \in Buf
    BY DEF Asking
  <2>2. Requested
    BY <2>1 DEF Buf
  <2> QED
    BY <1>4, <2>1, <2>2, BufTypes
<1>6. /\ Text(v) = <<e>> /\ e \in Entries /\ e.kind = "guest" /\ e.icnt = icnt
      /\ e.wide = (Arg(v, 1) >= WordSize)
  BY <1>4, <1>5, Sizes DEF Text, Entries
<1>7. Fd(v) = 1 /\ Arg(v, 1) # 1 => e.wide
  <2>1. Fd(v) = Arg(v, 1) % WordSize
    BY DEF Fd, ToWord
  <2>2. Arg(v, 1) < WordSize => Arg(v, 1) % WordSize = Arg(v, 1)
    BY <1>5, Sizes
  <2>3. Fd(v) = 1 /\ Arg(v, 1) # 1 => Arg(v, 1) >= WordSize
    BY <1>5, <2>1, <2>2, Sizes
  <2> QED
    BY <1>6, <2>3, Zenon
<1> HIDE DEF e
<1>8. /\ written \in Outputs /\ KeepsLines(stdout, written) /\ UpToNow(written)
      /\ Arg(v, 1) # 1 => Shown(written)
  <2>1. CASE Fd(v) = 1 /\ r > 0
    <3>1. written = Sent(stdout, fds, <<e>>) /\ <<e>> \in Seq(Entries)
      BY <1>6, <2>1
    <3> QED
      BY <1>4, <1>6, <1>7, <2>1, <3>1, SentFacts, SentLines, SentShown
  <2>2. CASE ~(Fd(v) = 1 /\ r > 0)
    BY <1>4, <2>2, SameLines
  <2> QED
    BY <2>1, <2>2
<1> HIDE DEF written
<1>9. /\ flushed \in Outputs /\ KeepsLines(stdout, flushed) /\ UpToNow(flushed)
      /\ Shown(flushed)
  <2>1. CASE FlushesStdout(v)
    <3>1. KeepsLines(written, Flush(written, fds))
      BY <1>8, FlushLines
    <3>2. KeepsLines(stdout, Flush(written, fds))
      BY <1>8, <3>1 DEF KeepsLines
    <3> QED
      BY <1>8, <2>1, <3>2, FlushFacts, FlushShown
  <2>2. CASE ~FlushesStdout(v)
    BY <1>8, <2>2 DEF FlushesStdout
  <2> QED
    BY <2>1, <2>2
<1> HIDE DEF flushed
<1> QED
  BY <1>3, <1>9, PollLogInv

LEMMA UnknownLogInv ==
  ASSUME LogInv, IInv', LogUnknown
  PROVE  LogInv'
<1> DEFINE line == Line("unknown")
           h == Held(stdout, line)
           g == Held(h, Dump)
<1>1. TypeOK /\ icnt \in Nat /\ stdout \in Outputs /\ UpToNow(stdout)
  BY DEF LogInv, IInv, TypeOK
<1>2. Die("exited") /\ stdout' = Flush(g, fds) /\ at = "exec" /\ last_pc = pc
  BY DEF LogUnknown, ExecUnknown, Executing, LogInv, LastPcNoted
<1>3. line \in Entries /\ line.kind = "unknown" /\ line.icnt = icnt
  BY <1>1, LineType
<1> HIDE DEF line
<1>4. h \in Outputs /\ KeepsLines(stdout, h) /\ UpToNow(h)
  BY <1>1, <1>3, HeldFacts, HeldLines, HeldShown
<1> HIDE DEF h
<1>5. /\ Dump \in Entries /\ Dump.kind = "state" /\ Dump.icnt = icnt
      /\ Dump.pc = last_pc /\ Cardinality(Dump.regs) = Cardinality(Reg)
  BY <1>1, EveryRegister
<1>6. /\ g \in Outputs /\ KeepsLines(h, g) /\ UpToNow(g)
      /\ g.held = Append(h.held, Dump)
  BY <1>1, <1>4, <1>5, HeldFacts, HeldLines, HeldShown
<1> HIDE DEF g
<1>7. stdout' \in Outputs /\ KeepsLines(g, stdout') /\ UpToNow(stdout') /\ Shown(stdout')
  BY <1>2, <1>6, FlushFacts, FlushLines, FlushShown
<1>8. KeepsLines(stdout, stdout')
  BY <1>4, <1>6, <1>7 DEF KeepsLines
<1>9. LastWords'
  <2> SUFFICES ASSUME ~stdout'.lost
               PROVE  /\ stdout'.held = <<>>
                      /\ Last(stdout'.sent) = Dump
    BY <1>2, <1>5 DEF LastWords, Die
  <2>1. stdout'.held = <<>> /\ stdout'.sent = g.sent \o Append(h.held, Dump)
    BY <1>2, <1>6, FlushFacts
  <2> QED
    BY <1>4, <1>5, <1>6, <2>1, LastOfAppend DEF Outputs
<1> QED
  BY <1>2, <1>7, <1>8, <1>9, DeathLogInv

LEMMA UnsupportedLogInv ==
  ASSUME LogInv, IInv', LogUnsupported
  PROVE  LogInv'
<1> DEFINE e == [kind |-> "unsupported", icnt |-> icnt]
           h == Held(stdout, e)
<1>1. icnt \in Nat /\ stdout \in Outputs /\ UpToNow(stdout)
  BY DEF LogInv, IInv, TypeOK
<1>2. Die("exited") /\ stdout' = Flush(h, fds)
  BY DEF LogUnsupported, SysUnsupported
<1>3. e \in Entries /\ e.kind = "unsupported" /\ e.icnt = icnt
  BY <1>1 DEF Entries
<1> HIDE DEF e
<1>4. /\ h \in Outputs /\ KeepsLines(stdout, h) /\ UpToNow(h)
      /\ h.held = Append(stdout.held, e) /\ h.sent = stdout.sent
  BY <1>1, <1>3, HeldFacts, HeldLines, HeldShown
<1> HIDE DEF h
<1>5. stdout' \in Outputs /\ KeepsLines(h, stdout') /\ UpToNow(stdout') /\ Shown(stdout')
  BY <1>2, <1>4, FlushFacts, FlushLines, FlushShown
<1>6. KeepsLines(stdout, stdout')
  BY <1>4, <1>5 DEF KeepsLines
<1>7. LastWords'
  <2> SUFFICES ASSUME ~stdout'.lost
               PROVE  /\ stdout'.held = <<>>
                      /\ Last(stdout'.sent) = e
    BY <1>3 DEF LastWords
  <2>1. stdout'.held = <<>> /\ stdout'.sent = h.sent \o Append(stdout.held, e)
    BY <1>2, <1>4, FlushFacts
  <2> QED
    BY <1>1, <1>3, <1>4, <2>1, LastOfAppend DEF Outputs
<1> QED
  BY <1>2, <1>5, <1>6, <1>7, DeathLogInv

\* A write whose result cannot be stored, and an assertion that fails.
LEMMA KilledLogInv ==
  ASSUME LogInv, IInv', LogSysFault \/ LogAbort
  PROVE  LogInv'
<1>1. icnt \in Nat /\ stdout \in Outputs /\ UpToNow(stdout) /\ Shown(stdout)
  BY DEF LogInv, IInv, TypeOK, ShownByPrint, Shown
<1>2. PICK how \in {"aborted", "faulted"} : Die(how)
  BY DEF LogSysFault, SysFault, LogAbort, ExecAbort
<1>3. CASE UNCHANGED stdout
  BY <1>2, <1>3, QuietLogInv
<1>4. CASE stdout' = Sent(stdout, fds, <<[kind |-> "cut", icnt |-> icnt]>>)
  <2> DEFINE e == [kind |-> "cut", icnt |-> icnt]
  <2>1. e \in Entries /\ e.kind = "cut" /\ e.icnt = icnt /\ stdout' = Sent(stdout, fds, <<e>>)
    BY <1>1, <1>4 DEF Entries
  <2> HIDE DEF e
  <2>2. <<e>> \in Seq(Entries)
    BY <2>1
  <2>3. /\ stdout' \in Outputs /\ KeepsLines(stdout, stdout')
        /\ UpToNow(stdout') /\ Shown(stdout')
    BY <1>1, <2>1, <2>2, SentFacts, SentLines, SentShown
  <2>4. LastWords'
    BY <1>2 DEF Die, LastWords
  <2> QED
    BY <1>2, <2>3, <2>4, DeathLogInv
<1>5. CASE stdout' \in Puts(stdout, fds, [kind |-> "implement", icnt |-> icnt])
  <2> DEFINE e == [kind |-> "implement", icnt |-> icnt]
  <2>1. e \in Entries /\ e.kind = "implement" /\ e.icnt = icnt /\ stdout' \in Puts(stdout, fds, e)
    BY <1>1, <1>5 DEF Entries
  <2> HIDE DEF e
  <2>2. /\ stdout' \in Outputs /\ KeepsLines(stdout, stdout')
        /\ UpToNow(stdout') /\ Shown(stdout')
    BY <1>1, <2>1, PutsLines, PutsShown
  <2>3. LastWords'
    BY <1>2 DEF Die, LastWords
  <2> QED
    BY <1>2, <2>2, <2>3, DeathLogInv
<1> QED
  BY <1>3, <1>4, <1>5 DEF LogSysFault, LogAbort

LEMMA NextLogInv ==
  ASSUME LogInv, [LogNext]_logVars
  PROVE  LogInv'
<1>1. IInv /\ IInv'
  BY LogStep, NextIInv DEF LogInv
<1>2. TypeOK
  BY <1>1 DEF IInv
<1>3. CASE UNCHANGED logVars
  BY <1>1, <1>3 DEF logVars, vars, Options, LogInv, UpToNow, LastPcNoted, OneLineEach, Begun,
                    Printed, ShownByPrint, LastWords
<1>4. CASE Silently
  BY <1>1, <1>4, QuietLogInv DEF Silently, FetchFault
<1>5. CASE LogPoll
  <2>1. ToExec /\ stdout' \in Logged(stdout)
    BY <1>5 DEF LogPoll, PollIdle, PollExit, SysOpen, SysClose, SysRead, SysLseek, SysFstat,
                SysStat, SysGettimeofday, SysTimes, Complete
  <2>2. stdout \in Outputs /\ KeepsLines(stdout, stdout) /\ UpToNow(stdout) /\ Shown(stdout)
    BY SameLines DEF LogInv, ShownByPrint, Shown
  <2> QED
    BY <1>1, <2>1, <2>2, PollLogInv
<1>6. CASE LogExecute
  <2>1. Execute
    BY <1>6 DEF LogExecute, Execute
  <2>2. at' # "exited" /\ UNCHANGED stdout
    BY <1>6 DEF LogExecute, ExecLoad, ExecFence, ExecOpImm, ExecStore, ExecLui, ExecAuipc,
                ExecJalr, ExecJal, ExecOp, ExecBranch, ExecEcall, ExecCsr, ExecFault,
                Advance, Retire, Die
  <2>3. Retired \/ Died
    BY <1>2, <2>1, ExecuteOutcome
  <2>4. Retired \/ \E how \in {"aborted", "faulted"} : Die(how)
    BY <2>2, <2>3 DEF Died, Die
  <2> QED
    BY <1>1, <2>2, <2>4, QuietLogInv
<1> QED
  BY <1>1, <1>3, <1>4, <1>5, <1>6, WriteLogInv, UnknownLogInv, UnsupportedLogInv, KilledLogInv
     DEF LogNext

THEOREM LogInvariance == LogSpec => []LogInv
  BY InitLogInv, NextLogInv, PTL DEF LogSpec

\* The log has one line for each instruction begun, in order, and the last is that
\* of the instruction executing.
THEOREM LogComplete == LogSpec => []OneLineEach
  BY LogInvariance, PTL DEF LogInv

\* Nothing the interpreter printed before the guest did is still in the buffer.
THEOREM PrintShows == LogSpec => []ShownByPrint
  BY LogInvariance, PTL DEF LogInv

\* The last words of a run name what ended it.
THEOREM CulpritNamed == LogSpec => []LastWords
  BY LogInvariance, PTL DEF LogInv

-----------------------------------------------------------------------------
(* HtifStub: words in memory.                                              *)

\* A number and its rest make the number, and only they do.
LEMMA Split ==
  ASSUME NEW x \in Nat, NEW p \in Nat \ {0}
  PROVE  /\ x \div p \in Nat /\ x % p \in Nat /\ x % p \in 0 .. p - 1
         /\ x = (x % p) + p * (x \div p)
  BY SMT

LEMMA SplitOnce ==
  ASSUME NEW p \in Nat \ {0}, NEW v \in Nat, NEW w \in Nat,
         NEW t \in 0 .. p - 1, NEW z \in 0 .. p - 1, t + p * v = z + p * w
  PROVE  v = w
<1>1. p * (w - v) = t - z
  <2>1. p * (w - v) = p * w - p * v /\ p * w \in Int /\ p * v \in Int
    BY SMT
  <2> QED
    BY <2>1
<1>2. w - v >= 1 => p * (w - v) >= p
  BY SMT
<1>3. w - v <= -1 => p * (w - v) <= -p
  BY SMT
<1> QED
  BY <1>1, <1>2, <1>3

\* Dividing in two goes.
LEMMA SplitTwice ==
  ASSUME NEW x \in Nat, NEW p \in Nat \ {0}, NEW q \in Nat \ {0}
  PROVE  x \div (p * q) = (x \div p) \div q
<1> DEFINE u == x \div p
           v == u \div q
           r == x % p
           s == u % q
           m == p * q
           t == r + p * s
<1>1. u \in Nat /\ r \in 0 .. p - 1 /\ x = r + p * u
  BY Split
<1>2. v \in Nat /\ s \in 0 .. q - 1 /\ u = s + q * v
  <2> HIDE DEF u
  <2> QED
    BY <1>1, Split
<1> HIDE DEF u, v, r, s
<1>3. m \in Nat \ {0}
  BY SMT
<1>4. t \in 0 .. m - 1
  BY <1>1, <1>2, TwoDigits
<1>5. p * u = p * s + m * v
  <2>1. p * (s + q * v) = p * s + (p * q) * v
    BY <1>2, SMT
  <2> QED
    BY <1>2, <2>1
<1>6. x = t + m * v
  <2> HIDE DEF m
  <2>1. p * s \in Nat /\ m * v \in Nat
    BY <1>2, <1>3, SMT
  <2> QED
    BY <1>1, <1>5, <2>1
<1> HIDE DEF m, t
<1>7. x \div m \in Nat /\ x % m \in 0 .. m - 1 /\ x = (x % m) + m * (x \div m)
  BY <1>3, Split
<1>8. v = x \div m
  BY <1>2, <1>3, <1>4, <1>6, <1>7, SplitOnce
<1> QED
  BY <1>8 DEF u, v, m

\* A word just stored reads back.
LEMMA StoredWord ==
  ASSUME NEW m \in Memories, NEW a \in Word, a + 3 \in Word, NEW x \in Word
  PROVE  LoadWord(Store(m, a, 4, x), a) = x
<1> DEFINE n == Store(m, a, 4, x)
           y == x \div B
           z == y \div B
           w == z \div B
<1>1. B \in Nat \ {0} /\ HalfSize \in Nat \ {0} /\ HalfSize = B * B
      /\ x \in Nat /\ x < WordSize /\ a \in Int
  BY ByteBase, Sizes DEF Word, HalfSize
<1>2. \A k \in 0 .. 3 : n[a + k] = ByteOf(x, k)
  <2> SUFFICES ASSUME NEW k \in 0 .. 3 PROVE n[a + k] = ByteOf(x, k)
    OBVIOUS
  <2>1. a + k \in Word /\ (a + k) - a = k
    BY Sizes DEF Word
  <2> QED
    BY <2>1 DEF Store
<1> HIDE DEF n
<1>3. /\ n[a] = ByteOf(x, 0) /\ n[a + 1] = ByteOf(x, 1)
      /\ n[a + 2] = ByteOf(x, 2) /\ n[(a + 2) + 1] = ByteOf(x, 3)
  <2>1. a + 0 = a /\ (a + 2) + 1 = a + 3
    BY <1>1
  <2> QED
    BY <1>2, <2>1
<1>4. y \in Nat /\ x % B \in Nat /\ x = (x % B) + B * y
  BY <1>1, Split, Zenon
<1>5. z \in Nat /\ y % B \in Nat /\ y = (y % B) + B * z
  <2> HIDE DEF y
  <2> QED
    BY <1>1, <1>4, Split, Zenon
<1>6. w \in Nat /\ z % B \in Nat /\ z = (z % B) + B * w
  <2> HIDE DEF z
  <2> QED
    BY <1>1, <1>5, Split, Zenon
<1>7. z = x \div HalfSize
  BY <1>1, SplitTwice
<1>8. w = x \div (HalfSize * B)
  <2>1. x \div (HalfSize * B) = (x \div HalfSize) \div B
    BY <1>1, SplitTwice, Zenon
  <2> QED
    BY <1>7, <2>1
<1>9. /\ ByteOf(x, 0) = x % B /\ ByteOf(x, 1) = y % B
      /\ ByteOf(x, 2) = z % B /\ ByteOf(x, 3) = w % B
  <2>1. Weight(0) = 1 /\ Weight(1) = B /\ Weight(2) = HalfSize /\ Weight(3) = HalfSize * B
    BY DEF Weight
  <2>2. x \div 1 = x
    BY <1>1
  <2> HIDE DEF z, w
  <2> QED
    BY <1>7, <1>8, <2>1, <2>2 DEF ByteOf
<1> HIDE DEF y, z, w
<1>10. x = ((x % B) + B * (y % B)) + HalfSize * z
  <2> DEFINE c == y % B
  <2>1. B * (c + B * z) = B * c + HalfSize * z
    <3> HIDE DEF c
    <3>1. c \in Nat
      BY <1>5 DEF c
    <3>2. B * (c + B * z) = B * c + B * (B * z) /\ B * (B * z) = (B * B) * z
      BY <1>1, <1>5, <3>1, SMT
    <3> QED
      BY <1>1, <3>2
  <2>2. B * c \in Nat /\ HalfSize * z \in Nat
    <3>1. \A i, j \in Nat : i * j \in Nat
      BY SMT
    <3> QED
      BY <1>1, <1>5, <3>1
  <2> HIDE DEF c
  <2>3. y = c + B * z
    BY <1>5 DEF c
  <2>4. x = (x % B) + (B * c + HalfSize * z)
    BY <1>4, <2>1, <2>3
  <2> QED
    BY <1>4, <2>2, <2>4 DEF c
<1>11. w < B
  <2>1. w >= B => HalfSize * z >= WordSize
    <3> SUFFICES ASSUME w >= B PROVE HalfSize * z >= WordSize
      OBVIOUS
    <3>1. B * w >= B * B
      BY <1>1, <1>6, SMT
    <3>2. B * w \in Nat /\ z >= HalfSize
      BY <1>1, <1>6, <3>1, SMT
    <3>3. HalfSize * z >= HalfSize * HalfSize
      BY <1>1, <1>5, <3>2, SMT
    <3> QED
      BY <3>3 DEF WordSize
  <2>2. x >= HalfSize * z
    <3>1. B * (y % B) \in Nat /\ HalfSize * z \in Nat
      <4>1. \A i, j \in Nat : i * j \in Nat
        BY SMT
      <4> QED
        BY <1>1, <1>5, <4>1
    <3> QED
      BY <1>4, <1>10, <3>1
  <2> QED
    BY <1>1, <1>5, <1>6, <2>1, <2>2, Sizes
<1>12. w % B = w
  BY <1>1, <1>6, <1>11
<1>13. LoadWord(n, a) = ((x % B) + B * (y % B)) + HalfSize * ((z % B) + B * (w % B))
  BY <1>3, <1>9 DEF LoadWord, LoadHalf
<1>14. LoadWord(n, a) = x
  BY <1>6, <1>10, <1>12, <1>13
<1> QED
  BY <1>14 DEF n

-----------------------------------------------------------------------------
(* Cells of the memory.                                                    *)

\* Of equal bytes, equal words.
LEMMA SameWord ==
  ASSUME NEW m, NEW n, NEW a \in Int, \A k \in 0 .. 3 : m[a + k] = n[a + k]
  PROVE  LoadWord(m, a) = LoadWord(n, a)
<1>1. m[a] = n[a] /\ m[a + 1] = n[a + 1] /\ m[a + 2] = n[a + 2] /\ m[(a + 2) + 1] = n[(a + 2) + 1]
  <2>1. a + 0 = a /\ (a + 2) + 1 = a + 3
    OBVIOUS
  <2> QED
    BY <2>1
<1> QED
  BY <1>1 DEF LoadWord, LoadHalf

LEMMA SameDword ==
  ASSUME NEW m, NEW n, NEW a \in Int, \A i \in Cell(a) : m[i] = n[i]
  PROVE  LoadDword(m, a) = LoadDword(n, a) /\ LoadWord(m, a) = LoadWord(n, a)
         /\ LoadWord(m, a + 4) = LoadWord(n, a + 4)
<1>1. \A k \in 0 .. 3 : a + k \in Cell(a) /\ (a + 4) + k \in Cell(a)
  BY DEF Cell
<1>2. LoadWord(m, a) = LoadWord(n, a)
  BY <1>1, SameWord
<1>3. LoadWord(m, a + 4) = LoadWord(n, a + 4)
  BY <1>1, SameWord
<1> QED
  BY <1>2, <1>3 DEF LoadDword

\* A store of four bytes changes no other.
LEMMA WordElsewhere ==
  ASSUME NEW m \in Memories, NEW a \in Word, NEW x, NEW i \in Word, i \notin a .. a + 3
  PROVE  Store(m, a, 4, x)[i] = m[i]
<1>1. i - a \notin 0 .. 3
  BY DEF Word
<1> QED
  BY <1>1 DEF Store

\* The acknowledgement clears both words of tohost.
LEMMA AckUpper ==
  ASSUME NEW m \in Memories
  PROVE  LoadWord(Ack(m), TohostAddr + 4) = 0
<1> DEFINE z == Store(m, TohostAddr, 8, 0)
<1>1. TohostAddr \in Word /\ FromhostAddr \in Word /\ TohostAddr \in Int
  BY Mailbox DEF Word
<1>2. z \in Memories
  BY <1>1, StoreType
<1>3. \A k \in 0 .. 7 : z[TohostAddr + k] = 0
  <2>1. TohostAddr + 7 \in Word
    BY Mailbox, Cells8
  <2> QED
    BY <1>1, <2>1, StoredDword, ZeroBytes
<1> HIDE DEF z
<1>4. ASSUME NEW k \in 0 .. 7 PROVE Ack(m)[TohostAddr + k] = 0
  <2>1. TohostAddr + k \in Word /\ TohostAddr + k \notin FromhostAddr .. FromhostAddr + 7
    <3>1. TohostAddr + k \in Cell(TohostAddr)
      BY <1>1 DEF Cell
    <3> QED
      BY <3>1, Mailbox DEF Cell
  <2>2. Ack(m)[TohostAddr + k] = z[TohostAddr + k]
    BY <1>1, <1>2, <2>1, StoredElsewhere DEF Ack, z
  <2> QED
    BY <1>3, <2>2
<1>5. \A k \in 0 .. 3 : (TohostAddr + 4) + k = TohostAddr + (k + 4) /\ k + 4 \in 0 .. 7
  BY <1>1
<1>6. \A k \in 0 .. 3 : Ack(m)[(TohostAddr + 4) + k] = 0
  BY <1>4, <1>5
<1> QED
  BY <1>1, <1>6, LoadZeroWord

-----------------------------------------------------------------------------
(* The stub's places.                                                      *)

\* What the layout says of an address of the stub.
LEMMA PlaceTypes ==
  ASSUME NEW a \in Places
  PROVE  /\ a \in Word /\ a \in Int /\ InMap(a, 4)
         /\ \A k \in 0 .. 3 : a + k \in Code /\ a + k \in Word /\ a + k \notin Mailboxes
         /\ Role[a] \in {"first", "second", "load", "test", "clear", "last", "spin"}
<1>1. a \in Word /\ a \in Int
  BY Layout DEF Word
<1>2. \A k \in 0 .. 3 : a + k \in Code
  BY <1>1 DEF Code
<1>3. \A k \in 0 .. 3 : a + k \in Word /\ a + k \notin Mailboxes
  BY <1>2, Layout
<1>4. a + 3 \in Word
  BY <1>3
<1>5. InMap(a, 4)
  BY <1>1, <1>4, Sizes DEF InMap, Word
<1>6. Role[a] \in {"first", "second", "load", "test", "clear", "last", "spin"}
  BY Layout DEF Places, Entrances
<1> QED
  BY <1>1, <1>2, <1>3, <1>5, <1>6

\* The next place.
LEMMA NextPlace ==
  ASSUME NEW a \in Places
  PROVE  /\ Role[a] = "first" => Follows(a, {"second"})
         /\ Role[a] = "second" => Follows(a, {"load"})
         /\ Role[a] = "load" => Follows(a, {"test"})
         /\ Role[a] = "test" =>
              Follows(a, {"clear"}) /\ a - 4 \in Places /\ Role[a - 4] = "load"
         /\ Role[a] = "clear" => (ToWord(a + 4) \in Places => Follows(a, Entrances))
         /\ Role[a] = "last" => Follows(a, {"spin"})
  BY Layout

\* The words of the stub are the same in two memories that differ elsewhere.
LEMMA SameCode ==
  ASSUME \A i \in Code : mem'[i] = mem[i]
  PROVE  \A a \in Places : LoadWord(mem', a) = LoadWord(mem, a) /\ InsnAt(a)' = InsnAt(a)
<1> SUFFICES ASSUME NEW a \in Places
             PROVE  LoadWord(mem', a) = LoadWord(mem, a) /\ InsnAt(a)' = InsnAt(a)
  OBVIOUS
<1>1. \A k \in 0 .. 3 : mem'[a + k] = mem[a + k]
  BY PlaceTypes
<1>2. LoadWord(mem', a) = LoadWord(mem, a)
  BY <1>1, PlaceTypes, SameWord
<1> QED
  BY <1>2 DEF InsnAt

LEMMA SameLinked ==
  ASSUME Linked, \A i \in Code : mem'[i] = mem[i]
  PROVE  Linked'
<1>1. \A a \in Places : InsnAt(a)' = InsnAt(a)
  BY SameCode
<1>2. \A a \in Places : Role[a] = "first" => ToWord(a + 4) \in Places
  BY NextPlace DEF Follows
<1>3. ASSUME NEW a \in Places
      PROVE  CASE Role[a] = "first" -> BothWords(InsnAt(a)', InsnAt(ToWord(a + 4))')
               [] Role[a] = "load"  -> IsLoad(InsnAt(a)')
               [] Role[a] = "test"  -> IsTest(InsnAt(a)')
               [] Role[a] = "clear" -> IsClear(InsnAt(a)')
               [] Role[a] = "last"  -> IsLow(InsnAt(a)')
               [] Role[a] = "spin"  -> IsSpin(InsnAt(a)')
               [] OTHER             -> TRUE
  BY <1>1, <1>2 DEF Linked
<1> QED
  BY <1>3 DEF Linked

-----------------------------------------------------------------------------
(* What the instructions of the stub do.                                   *)

LEMMA MailboxPlaces ==
  /\ TohostAddr \in Int /\ FromhostAddr \in Int
  /\ \A a \in {TohostAddr, TohostAddr + 4, FromhostAddr} : a \in Word /\ a + 3 \in Word
  /\ \A a \in {TohostAddr, TohostAddr + 4, FromhostAddr} : a .. a + 3 \subseteq Mailboxes
  /\ \A k \in 0 .. 7 : /\ TohostAddr + k \in Word /\ FromhostAddr + k \in Word
                       /\ TohostAddr + k \notin Cell(FromhostAddr)
                       /\ FromhostAddr + k \notin Cell(TohostAddr)
<1>1. TohostAddr \in Int /\ FromhostAddr \in Int
  BY Mailbox DEF Word
<1>2. \A k \in 0 .. 7 : /\ TohostAddr + k \in Cell(TohostAddr)
                       /\ FromhostAddr + k \in Cell(FromhostAddr)
  BY <1>1 DEF Cell
<1>3. \A k \in 0 .. 7 : TohostAddr + k \in Word /\ FromhostAddr + k \in Word
  BY <1>2, Mailbox
<1>4. \A a \in {TohostAddr, TohostAddr + 4, FromhostAddr} : a \in Word /\ a + 3 \in Word
  <2>1. TohostAddr + 3 \in Word /\ TohostAddr + 4 \in Word /\ TohostAddr + 7 \in Word
        /\ FromhostAddr + 3 \in Word
    BY <1>3
  <2>2. (TohostAddr + 4) + 3 = TohostAddr + 7
    BY <1>1
  <2> QED
    BY <2>1, <2>2, Mailbox
<1>5. \A a \in {TohostAddr, TohostAddr + 4, FromhostAddr} : a .. a + 3 \subseteq Mailboxes
  BY <1>1 DEF Mailboxes, Cell
<1> QED
  BY <1>1, <1>2, <1>3, <1>4, <1>5, Mailbox

\* A word stored into the mailbox stays out of the stub and the buffer.
LEMMA MailKeeps ==
  ASSUME mem \in Memories, NEW a \in {TohostAddr, TohostAddr + 4, FromhostAddr}, NEW x,
         mem' = Store(mem, a, 4, x)
  PROVE  /\ \A i \in Code : mem'[i] = mem[i]
         /\ \A i \in Cell(BufAddr) : mem'[i] = mem[i]
<1>1. \A i \in Code \cup Cell(BufAddr) : i \in Word /\ i \notin Mailboxes
  BY Layout
<1>2. \A i \in Code \cup Cell(BufAddr) : i \notin a .. a + 3
  BY <1>1, MailboxPlaces
<1> QED
  BY <1>1, <1>2, WordElsewhere, MailboxPlaces

\* The cell that is not stored into.
LEMMA FromhostKept ==
  ASSUME \A i \in Cell(FromhostAddr) : mem'[i] = mem[i]
  PROVE  Fromhost' = Fromhost
  BY SameDword, MailboxPlaces DEF Fromhost

LEMMA TohostKept ==
  ASSUME \A i \in Cell(TohostAddr) : mem'[i] = mem[i]
  PROVE  Tohost' = Tohost /\ TohostUpper' = TohostUpper
  BY SameDword, MailboxPlaces DEF Tohost, TohostUpper

LEMMA LowStored ==
  ASSUME mem \in Memories, NEW x \in Word, mem' = Store(mem, TohostAddr, 4, x)
  PROVE  Tohost' = x /\ TohostUpper' = TohostUpper /\ Fromhost' = Fromhost
<1>1. Tohost' = x
  BY StoredWord, MailboxPlaces DEF Tohost
<1>2. TohostUpper' = TohostUpper
  <2>1. \A k \in 0 .. 3 : (TohostAddr + 4) + k = TohostAddr + (k + 4) /\ k + 4 \in 0 .. 7
    BY MailboxPlaces
  <2>2. \A k \in 0 .. 3 : (TohostAddr + 4) + k \in Word
    BY <2>1, MailboxPlaces
  <2>3. \A k \in 0 .. 3 : (TohostAddr + 4) + k \notin TohostAddr .. TohostAddr + 3
    BY MailboxPlaces
  <2>4. \A k \in 0 .. 3 : mem'[(TohostAddr + 4) + k] = mem[(TohostAddr + 4) + k]
    BY <2>2, <2>3, WordElsewhere, MailboxPlaces
  <2> QED
    BY <2>4, SameWord, MailboxPlaces DEF TohostUpper
<1>3. \A i \in Cell(FromhostAddr) : mem'[i] = mem[i]
  <2>1. TohostAddr .. TohostAddr + 3 \subseteq Cell(TohostAddr)
    BY MailboxPlaces DEF Cell
  <2>2. \A i \in Cell(FromhostAddr) : i \in Word /\ i \notin TohostAddr .. TohostAddr + 3
    BY <2>1, Mailbox
  <2> QED
    BY <2>2, WordElsewhere, MailboxPlaces
<1> QED
  BY <1>1, <1>2, <1>3, FromhostKept

LEMMA UpperStored ==
  ASSUME mem \in Memories, NEW x \in Word, mem' = Store(mem, TohostAddr + 4, 4, x)
  PROVE  Tohost' = Tohost /\ TohostUpper' = x /\ Fromhost' = Fromhost
<1>1. TohostUpper' = x
  BY StoredWord, MailboxPlaces DEF TohostUpper
<1>2. Tohost' = Tohost
  <2>1. \A k \in 0 .. 3 : TohostAddr + k \in Word
    BY MailboxPlaces
  <2>2. \A k \in 0 .. 3 : TohostAddr + k \notin TohostAddr + 4 .. (TohostAddr + 4) + 3
    BY MailboxPlaces
  <2>3. \A k \in 0 .. 3 : mem'[TohostAddr + k] = mem[TohostAddr + k]
    BY <2>1, <2>2, WordElsewhere, MailboxPlaces
  <2> QED
    BY <2>3, SameWord, MailboxPlaces DEF Tohost
<1>3. \A i \in Cell(FromhostAddr) : mem'[i] = mem[i]
  <2>1. TohostAddr + 4 .. (TohostAddr + 4) + 3 \subseteq Cell(TohostAddr)
    BY MailboxPlaces DEF Cell
  <2>2. \A i \in Cell(FromhostAddr) : i \in Word /\ i \notin TohostAddr + 4 .. (TohostAddr + 4) + 3
    BY <2>1, Mailbox
  <2> QED
    BY <2>2, WordElsewhere, MailboxPlaces
<1> QED
  BY <1>1, <1>2, <1>3, FromhostKept

\* The low word of an answer is the answer.
LEMMA AnswerWord ==
  ASSUME mem \in Memories, Fromhost \in {0, 1}
  PROVE  LoadWord(mem, FromhostAddr) = Fromhost /\ LoadWord(mem, FromhostAddr + 4) = 0
<1> DEFINE l == LoadWord(mem, FromhostAddr)
           h == LoadWord(mem, FromhostAddr + 4)
<1>1. \A k \in 0 .. 7 : mem[FromhostAddr + k] \in Byte
  BY MailboxPlaces DEF Memories
<1>2. \A k \in 0 .. 3 : (FromhostAddr + 4) + k = FromhostAddr + (k + 4) /\ k + 4 \in 0 .. 7
  BY MailboxPlaces
<1>3. l \in Word
  BY <1>1, LoadWordType, MailboxPlaces
<1>4. h \in Word
  BY <1>1, <1>2, LoadWordType, MailboxPlaces
<1>5. Fromhost = l + WordSize * h
  BY DEF Fromhost, LoadDword
<1> HIDE DEF l, h
<1>6. h = 0
  <2> SUFFICES ASSUME h >= 1 PROVE FALSE
    BY <1>4 DEF Word
  <2>1. WordSize * h >= WordSize
    BY <1>4, Sizes, SMT DEF Word
  <2> QED
    BY <1>3, <1>4, <1>5, <2>1, Sizes DEF Word
<1>7. l = Fromhost
  <2>1. WordSize * 0 = 0
    BY Sizes
  <2> QED
    BY <1>3, <1>5, <1>6, <2>1, Sizes DEF Word
<1> QED
  BY <1>6, <1>7 DEF l, h

\* The stub's last store takes the answer away.
LEMMA AnswerCleared ==
  ASSUME mem \in Memories, Fromhost \in {0, 1}, mem' = Store(mem, FromhostAddr, 4, 0)
  PROVE  Tohost' = Tohost /\ TohostUpper' = TohostUpper /\ Fromhost' = 0
<1>1. 0 \in Word
  BY Sizes DEF Word
<1>2. LoadWord(mem', FromhostAddr) = 0
  BY <1>1, StoredWord, MailboxPlaces
<1>3. LoadWord(mem', FromhostAddr + 4) = 0
  <2>1. \A k \in 0 .. 3 : (FromhostAddr + 4) + k = FromhostAddr + (k + 4) /\ k + 4 \in 0 .. 7
    BY MailboxPlaces
  <2>2. \A k \in 0 .. 3 : (FromhostAddr + 4) + k \in Word
    BY <2>1, MailboxPlaces
  <2>3. \A k \in 0 .. 3 : (FromhostAddr + 4) + k \notin FromhostAddr .. FromhostAddr + 3
    BY MailboxPlaces
  <2>4. \A k \in 0 .. 3 : mem'[(FromhostAddr + 4) + k] = mem[(FromhostAddr + 4) + k]
    BY <2>2, <2>3, WordElsewhere, MailboxPlaces
  <2> QED
    BY <2>4, SameWord, AnswerWord, MailboxPlaces
<1>4. Fromhost' = 0
  BY <1>2, <1>3, Sizes DEF Fromhost, LoadDword
<1>5. \A i \in Cell(TohostAddr) : mem'[i] = mem[i]
  <2>1. FromhostAddr .. FromhostAddr + 3 \subseteq Cell(FromhostAddr)
    BY MailboxPlaces DEF Cell
  <2>2. \A i \in Cell(TohostAddr) : i \in Word /\ i \notin FromhostAddr .. FromhostAddr + 3
    BY <2>1, Mailbox
  <2> QED
    BY <2>2, WordElsewhere, MailboxPlaces
<1> QED
  BY <1>4, <1>5, TohostKept

\* With rs1 zero, the address is the immediate.
LEMMA AbsoluteEa ==
  ASSUME TypeOK, gpr[0] = 0, I.rs1 = 0, I.imm \in Word
  PROVE  Ea = I.imm
  BY Sizes DEF Ea, ToWord, Word

LEMMA StubStore ==
  ASSUME TypeOK, gpr[0] = 0, Execute, NEW r \in Reg, NEW a \in Word, StoresWord(I, r, a)
  PROVE  \/ Died
         \/ mem' = Store(mem, a, 4, gpr[r]) /\ Advance /\ UNCHANGED <<gpr, brk>>
<1>1. I.op = "store" /\ I.sel = 2 /\ I.rs1 = 0 /\ I.rs2 = r /\ I.imm = a
  BY DEF StoresWord
<1>2. Ea = a
  BY <1>1, AbsoluteEa
<1>3. ExecStore \/ Died
  BY <1>1 DEF Execute, ExecLoad, ExecFence, ExecOpImm, ExecLui, ExecAuipc, ExecJalr, ExecJal,
     ExecOp, ExecBranch, ExecEcall, ExecCsr, ExecUnknown, ExecAbort, ExecFault, Executing, Died
<1>4. StoreWidth[2] = 4
  BY DEF StoreWidth
<1> QED
  BY <1>1, <1>2, <1>3, <1>4 DEF ExecStore

LEMMA StubLoad ==
  ASSUME TypeOK, gpr[0] = 0, Execute, IsLoad(I), Fromhost \in {0, 1}
  PROVE  \/ Died
         \/ gpr' = [gpr EXCEPT ![SeenReg] = Fromhost] /\ Advance /\ UNCHANGED <<mem, brk>>
<1>1. I.op = "load" /\ I.sel = 2 /\ I.rd = SeenReg /\ I.rs1 = 0 /\ I.imm = FromhostAddr
  BY DEF IsLoad
<1>2. SeenReg # 0
  BY Layout
<1>3. Ea = FromhostAddr
  BY <1>1, AbsoluteEa, Mailbox
<1>4. ExecLoad \/ Died
  BY <1>1, <1>2 DEF Execute, ExecFence, ExecOpImm, ExecStore, ExecLui, ExecAuipc, ExecJalr,
     ExecJal, ExecOp, ExecBranch, ExecEcall, ExecCsr, ExecUnknown, ExecAbort, ExecFault,
     Executing, Died
<1>5. LoadWidth[2] = 4
  BY DEF LoadWidth
<1>6. Views(mem, FromhostAddr, 4) = {mem}
  <2>1. FromhostAddr + 3 \in Word
    BY MailboxPlaces
  <2>2. InMap(FromhostAddr, 4)
    BY <2>1, MailboxPlaces, Sizes DEF InMap, Word
  <2> QED
    BY <2>2 DEF Views
<1>7. ToWord(Loaded(mem, FromhostAddr, 2)) = Fromhost
  <2>1. Loaded(mem, FromhostAddr, 2) = LoadWord(mem, FromhostAddr)
    BY DEF Loaded
  <2>2. LoadWord(mem, FromhostAddr) = Fromhost
    BY AnswerWord DEF TypeOK
  <2> QED
    BY <2>1, <2>2, Sizes DEF ToWord
<1> QED
  BY <1>1, <1>3, <1>4, <1>5, <1>6, <1>7 DEF ExecLoad, Write

LEMMA StubTest ==
  ASSUME TypeOK, gpr[0] = 0, Execute, IsTest(I)
  PROVE  \/ Died
         \/ /\ Retire(IF gpr[SeenReg] = 0 THEN pc + ToWord(-4) ELSE pc + 4)
            /\ UNCHANGED <<mem, gpr, brk>>
<1>1. I.op = "branch" /\ I.sel = 0 /\ I.rs1 = SeenReg /\ I.rs2 = 0 /\ I.imm = ToWord(-4)
  BY DEF IsTest
<1>2. ExecBranch \/ Died
  BY <1>1 DEF Execute, ExecLoad, ExecFence, ExecOpImm, ExecStore, ExecLui, ExecAuipc, ExecJalr,
     ExecJal, ExecOp, ExecEcall, ExecCsr, ExecUnknown, ExecAbort, ExecFault,
     Executing, Died
<1>3. Taken(I, gpr[I.rs1], gpr[I.rs2]) <=> gpr[SeenReg] = 0
  BY <1>1 DEF Taken
<1> QED
  BY <1>1, <1>2, <1>3 DEF ExecBranch

LEMMA StubSpin ==
  ASSUME TypeOK, Execute, IsSpin(I)
  PROVE  Died \/ (Retire(pc) /\ UNCHANGED <<mem, gpr, brk>>)
<1>1. I.op = "jal" /\ I.rd = 0 /\ I.imm = 0
  BY DEF IsSpin
<1>2. ExecJal \/ Died
  BY <1>1 DEF Execute, ExecLoad, ExecFence, ExecOpImm, ExecStore, ExecLui, ExecAuipc, ExecJalr,
     ExecOp, ExecBranch, ExecEcall, ExecCsr, ExecUnknown, ExecAbort, ExecFault,
     Executing, Died
<1>3. pc + I.imm = pc
  BY <1>1 DEF TypeOK, Word
<1> QED
  BY <1>1, <1>2, <1>3 DEF ExecJal, WriteUnlessZero

-----------------------------------------------------------------------------
(* What the host does.                                                     *)

\* A death comes in the middle of an iteration, or before it.
LEMMA DeathsRun ==
  ASSUME Next, Died
  PROVE  at \in {"loop", "poll", "exec"} /\ at' \in Ended /\ UNCHANGED <<pc, gpr, mem, brk, inst>>
<1>1. at' \in Ended /\ UNCHANGED <<pc, gpr, mem, brk, inst>>
  BY DEF Died, Die, Ended
<1>2. at \in {"loop", "poll", "exec"}
  BY DEF Next, Fetch, FetchFault, Return, PollIdle, PollExit, ToExec, Syscall, SysWrite,
     SysOpen, SysClose, SysRead, SysLseek, SysFstat, SysStat, SysGettimeofday, SysTimes,
     SysUnsupported, SysFault, Asking, Buf, Requested, Execute, ExecLoad, ExecFence, ExecOpImm,
     ExecStore, ExecLui, ExecAuipc, ExecJalr, ExecJal, ExecOp, ExecBranch, ExecEcall, ExecCsr,
     ExecUnknown, ExecAbort, ExecFault, Executing
<1> QED
  BY <1>1, <1>2

\* Only a number with a case is answered.
LEMMA ServedNumber ==
  ASSUME Syscall
  PROVE  Died \/ \E v \in Buf : Arg(v, 0) \in Served
<1>1. \A n \in Served : Asking(n) # {} => \E v \in Buf : Arg(v, 0) \in Served
  BY DEF Asking
<1>2. Died \/ \E n \in Served : Asking(n) # {}
  BY DEF Syscall, SysWrite, SysOpen, SysClose, SysRead, SysLseek, SysFstat, SysStat,
     SysGettimeofday, SysTimes, SysUnsupported, SysFault, Died, Served
<1> QED
  BY <1>1, <1>2

\* buf[0] of a request at BufAddr, whatever lies past the mapping.
LEMMA NumberRead ==
  ASSUME TypeOK, Tohost = BufAddr, NEW v \in Buf
  PROVE  Arg(v, 0) = LoadDword(mem, BufAddr)
<1>1. BufAddr \in Int /\ Cell(BufAddr) \subseteq Word
  BY Layout DEF Word
<1>2. \A i \in Cell(BufAddr) : v[i] = mem[i]
  <2>1. v \in Views(mem, BufAddr, 32)
    BY DEF Buf
  <2>2. v = mem \/ \E x \in Byte : v = Beyond(mem, x)
    BY <2>1 DEF Views
  <2>3. \A i \in Word : i \in 0 .. WordSize + Slack
    BY Sizes DEF Word, Slack
  <2> QED
    BY <1>1, <2>2, <2>3 DEF Beyond
<1>3. LoadDword(v, BufAddr) = LoadDword(mem, BufAddr)
  BY <1>1, <1>2, SameDword
<1>4. Tohost + 8 * 0 = BufAddr
  BY <1>1
<1> QED
  BY <1>3, <1>4 DEF Arg

\* An answer reaches the guest's memory, but not the stub.
LEMMA AnswerKeepsCode ==
  ASSUME TypeOK, Requested, Syscall, Harmless
  PROVE  \A i \in Code : mem'[i] = mem[i]
<1>1. PICK v \in Buf, r \in -1 .. MaxIO :
        \A a \in Word : mem'[a] # mem[a] => a \in Footprint(v, r)
  BY SyscallFootprint
<1>2. Footprint(v, r) \cap Code = {}
  BY DEF Harmless
<1>3. Code \subseteq Word
  BY Layout
<1> QED
  BY <1>1, <1>2, <1>3

-----------------------------------------------------------------------------
(***************************************************************************)
(* The inductive invariant: what the registers and the mailbox hold at     *)
(* each place of the stub.                                                 *)
(***************************************************************************)
Asked == LoadDword(mem, BufAddr) = gpr[NumberReg]

Quiet   == Tohost = 0 /\ Fromhost = 0
Waiting == Tohost = BufAddr /\ Fromhost = 0 /\ Asked
Told    == Tohost = 0 /\ Fromhost = 1

\* The word executed is the one that lies at pc: a call does not replace it.
Fetched == at \in {"poll", "exec"} /\ ~Outside => inst = LoadWord(mem, pc)

Standing ==
  /\ Point = "work" => Quiet
  /\ Point = "low" => Quiet /\ Asked /\ gpr[LowReg] = BufAddr
  /\ Point = "upper" => IsUpper(InsnAt(pc)) /\ (Waiting \/ Told) /\ gpr[UpperReg] = UpperValue
  /\ Point \in {"load", "test"} => Waiting \/ Told
  /\ Point = "test" /\ gpr[SeenReg] # 0 => Told
  /\ Point = "clear" => Told
  /\ Point = "exit" => Tohost = HaltValue /\ Fromhost = 0

Entered ==
  ~Outside =>
    /\ Role[pc] = "first" =>
         /\ gpr[LowReg] = BufAddr /\ gpr[UpperReg] = UpperValue
         /\ Asked
    /\ Role[pc] = "last" => gpr[LowReg] = HaltValue

StubInv ==
  /\ Linked /\ Harmless
  /\ Fetched
  /\ gpr[0] = 0
  /\ gpr[SeenReg] \in {0, 1}
  /\ TohostUpper \in {0, UpperValue}
  /\ Standing
  /\ Entered

\* The points, by where pc is.
LEMMA Points ==
  /\ Outside => Point = "work"
  /\ ~Outside =>
       /\ Role[pc] \in {"first", "last"} => Point = "work"
       /\ Role[pc] = "second" => Point = IF IsLow(InsnAt(pc)) THEN "low" ELSE "upper"
       /\ Role[pc] \in {"load", "test", "clear"} => Point = Role[pc]
       /\ Role[pc] = "spin" => Point = "exit"
  BY DEF Point, Entrances

LEMMA PointsThen ==
  /\ Outside' => Point' = "work"
  /\ ~Outside' =>
       /\ Role[pc'] \in {"first", "last"} => Point' = "work"
       /\ Role[pc'] = "second" => Point' = IF IsLow(InsnAt(pc)') THEN "low" ELSE "upper"
       /\ Role[pc'] \in {"load", "test", "clear"} => Point' = Role[pc']
       /\ Role[pc'] = "spin" => Point' = "exit"
  BY DEF Point, Entrances

-----------------------------------------------------------------------------
(* The steps of HtifGuest, in the terms of Interp: what is left to prove   *)
(* of a step is what it does to the mailbox, the registers and the point.  *)

\* An instruction of a guest that keeps to the stub, and the cells after it.
Steps ==
  /\ Linked /\ Linked'
  /\ at = "exec" /\ at' = "loop"
  /\ brk' = brk
  /\ Tohost' \in {0, BufAddr, HaltValue} /\ Fromhost' \in {0, 1}

LEMMA StepsMapped ==
  ASSUME Steps
  PROVE  Guest!Step(Point, Point')
  BY DEF Steps, Turn, OfGuest, Guest!Step, Guest!Port!Instruction

LEMMA MapWork ==
  ASSUME Steps, Point = "work", Point' = "work", gpr'[NumberReg] \in Word,
         UNCHANGED <<Tohost, Fromhost, TohostUpper, gpr[SeenReg]>>
  PROVE  Guest!Next
  BY StepsMapped DEF Steps, OfGuest, Guest!Next, Guest!Guest, Guest!Work

LEMMA MapLow ==
  ASSUME Steps, <<Point, Point'>> \in {<<"work", "upper">>, <<"low", "load">>},
         Tohost' = BufAddr,
         UNCHANGED <<Fromhost, TohostUpper, gpr>>
  PROVE  Guest!Next
  BY StepsMapped DEF Steps, OfGuest, Guest!Next, Guest!Guest, Guest!LowFirst, Guest!UpperFirst,
     Guest!PostLow

LEMMA MapUpper ==
  ASSUME Steps, <<Point, Point'>> \in {<<"work", "low">>, <<"upper", "load">>},
         TohostUpper' = UpperValue,
         UNCHANGED <<Tohost, Fromhost, gpr>>
  PROVE  Guest!Next
  BY StepsMapped DEF Steps, OfGuest, Guest!Next, Guest!Guest, Guest!LowFirst, Guest!UpperFirst,
     Guest!PostUpper

LEMMA MapLoad ==
  ASSUME Steps, Point = "load", Point' = "test", gpr'[SeenReg] = Fromhost,
         UNCHANGED <<Tohost, Fromhost, TohostUpper, gpr[NumberReg]>>
  PROVE  Guest!Next
  BY StepsMapped DEF Steps, OfGuest, Guest!Next, Guest!Guest, Guest!Load

LEMMA MapTest ==
  ASSUME Steps, Point = "test", Point' = IF gpr[SeenReg] = 0 THEN "load" ELSE "clear",
         UNCHANGED <<Tohost, Fromhost, TohostUpper, gpr>>
  PROVE  Guest!Next
  BY StepsMapped DEF Steps, OfGuest, Guest!Next, Guest!Guest, Guest!Test

LEMMA MapClear ==
  ASSUME Steps, Point = "clear", Point' = "work", Fromhost' = 0,
         UNCHANGED <<Tohost, TohostUpper, gpr>>
  PROVE  Guest!Next
  BY StepsMapped DEF Steps, OfGuest, Guest!Next, Guest!Guest, Guest!Clear

LEMMA MapExit ==
  ASSUME Steps, Point \in {"work", "exit"}, Point' = "exit", Tohost' = HaltValue,
         UNCHANGED <<Fromhost, TohostUpper, gpr>>
  PROVE  Guest!Next
  BY StepsMapped DEF Steps, OfGuest, Guest!Next, Guest!Guest, Guest!Exit

LEMMA MapLook ==
  ASSUME Linked, Linked', brk = 0, PollIdle \/ PollExit,
         UNCHANGED <<Tohost, Fromhost, TohostUpper, gpr, Point>>
  PROVE  Guest!Next
<1>1. Turn = "host" /\ Turn' = "guest"
  BY DEF PollIdle, PollExit, ToExec, Turn
<1>2. CASE PollIdle
  BY <1>1, <1>2 DEF PollIdle, OfGuest, Guest!Next, Guest!Look, Guest!Client,
     Guest!Port!Idle, Guest!Port!Host
<1>3. CASE PollExit
  BY <1>1, <1>3 DEF PollExit, OfGuest, Guest!Next, Guest!Look, Guest!Client,
     Guest!Port!Halt, Guest!Port!Host
<1> QED
  BY <1>2, <1>3

LEMMA MapServe ==
  ASSUME Linked, Linked', brk = 0, brk' = brk, Turn = "host", Turn' = "guest",
         Tohost = BufAddr, gpr[NumberReg] \in Served,
         Tohost' = 0, Fromhost' = 1, TohostUpper' = 0,
         UNCHANGED <<gpr, Point>>
  PROVE  Guest!Next
<1>1. BufAddr # 0 /\ BufAddr % 2 = 0
  BY Layout
<1> QED
  BY <1>1 DEF OfGuest, Guest!Next, Guest!Serve, Guest!Client, Guest!Port!Answer, Guest!Port!Host

LEMMA MapEnd ==
  ASSUME Linked, Linked', Turn # "off", Turn' = "off",
         UNCHANGED <<Tohost, Fromhost, TohostUpper, gpr, brk, Point>>
  PROVE  Guest!Next
  BY DEF OfGuest, Guest!Next, Guest!End, Guest!Client, Guest!Port!Off

LEMMA MapStutter ==
  ASSUME Linked, Linked', UNCHANGED <<Turn, Tohost, Fromhost, TohostUpper, gpr, brk, Point>>
  PROVE  UNCHANGED Guest!vars
  BY DEF OfGuest, Guest!vars

-----------------------------------------------------------------------------
(* The instructions of a guest that keeps to the stub.                     *)

\* An instruction that ends the iteration, of a guest that keeps to the stub.
Iterates ==
  /\ TypeOK /\ TypeOK'
  /\ StubInv
  /\ at = "exec" /\ at' = "loop"
  /\ Execute /\ ~Died
  /\ Works /\ Ready' /\ Harmless'

\* What holds after every one of them.
LEMMA AfterStep ==
  ASSUME Iterates, \A i \in Code : mem'[i] = mem[i],
         gpr'[0] = 0, gpr'[SeenReg] \in {0, 1}, TohostUpper' \in {0, UpperValue}, Standing'
  PROVE  StubInv'
<1>1. Fetched'
  BY DEF Iterates, Fetched
<1>2. Entered'
  BY DEF Iterates, Ready, Entered, Asked
<1>3. Linked' /\ Harmless'
  BY SameLinked DEF Iterates, StubInv
<1> QED
  BY <1>1, <1>2, <1>3 DEF StubInv

LEMMA StubInsn ==
  ASSUME Iterates, ~Outside
  PROVE  /\ I = InsnAt(pc) /\ pc \in Places
         /\ TypeOK /\ Execute /\ gpr[0] = 0 /\ mem \in Memories /\ gpr \in [Reg -> Word]
  BY DEF Iterates, StubInv, Fetched, Outside, I, InsnAt, TypeOK

\* The instructions the linker has put there.
LEMMA LinkedInsn ==
  ASSUME Linked, NEW a \in Places
  PROVE  /\ Role[a] = "first" => BothWords(InsnAt(a), InsnAt(ToWord(a + 4)))
         /\ Role[a] = "load" => IsLoad(InsnAt(a))
         /\ Role[a] = "test" => IsTest(InsnAt(a))
         /\ Role[a] = "clear" => IsClear(InsnAt(a))
         /\ Role[a] = "last" => IsLow(InsnAt(a))
         /\ Role[a] = "spin" => IsSpin(InsnAt(a))
  BY DEF Linked

LEMMA LowNotUpper == \A i : ~(IsLow(i) /\ IsUpper(i))
<1>1. TohostAddr # TohostAddr + 4
  BY MailboxPlaces
<1> QED
  BY <1>1 DEF IsLow, IsUpper, StoresWord

\* The stores of the stub.
LEMMA StoreLow ==
  ASSUME Iterates, ~Outside, IsLow(I)
  PROVE  /\ Tohost' = gpr[LowReg]
         /\ pc' = ToWord(pc + 4)
         /\ UNCHANGED <<TohostUpper, Fromhost, gpr, brk>>
         /\ \A i \in Code : mem'[i] = mem[i]
         /\ \A i \in Cell(BufAddr) : mem'[i] = mem[i]
<1>1. LowReg \in Reg /\ TohostAddr \in Word /\ gpr[LowReg] \in Word
  BY Layout, MailboxPlaces, StubInsn
<1>2. StoresWord(I, LowReg, TohostAddr)
  BY DEF IsLow
<1>3. mem' = Store(mem, TohostAddr, 4, gpr[LowReg]) /\ Advance /\ UNCHANGED <<gpr, brk>>
  BY <1>1, <1>2, StubInsn, StubStore DEF Iterates
<1> QED
  BY <1>1, <1>3, StubInsn, LowStored, MailKeeps DEF Advance, Retire

LEMMA StoreUpper ==
  ASSUME Iterates, ~Outside, IsUpper(I)
  PROVE  /\ TohostUpper' = gpr[UpperReg]
         /\ pc' = ToWord(pc + 4)
         /\ UNCHANGED <<Tohost, Fromhost, gpr, brk>>
         /\ \A i \in Code : mem'[i] = mem[i]
         /\ \A i \in Cell(BufAddr) : mem'[i] = mem[i]
<1>1. UpperReg \in Reg /\ TohostAddr + 4 \in Word /\ gpr[UpperReg] \in Word
  BY Layout, MailboxPlaces, StubInsn
<1>2. StoresWord(I, UpperReg, TohostAddr + 4)
  BY DEF IsUpper
<1>3. mem' = Store(mem, TohostAddr + 4, 4, gpr[UpperReg]) /\ Advance /\ UNCHANGED <<gpr, brk>>
  BY <1>1, <1>2, StubInsn, StubStore DEF Iterates
<1> QED
  BY <1>1, <1>3, StubInsn, UpperStored, MailKeeps DEF Advance, Retire

\* The request is the same as long as its cell is.
LEMMA AskedKept ==
  ASSUME \A i \in Cell(BufAddr) : mem'[i] = mem[i], gpr'[NumberReg] = gpr[NumberReg], Asked
  PROVE  Asked'
<1>1. BufAddr \in Int
  BY Layout DEF Word
<1> QED
  BY <1>1, SameDword DEF Asked

\* What the lemmas need of the values.
LEMMA Values ==
  /\ BufAddr # 0 /\ BufAddr \in Word
  /\ UpperValue \in Word /\ HaltValue \in Word
  /\ {0, LowReg, UpperReg, NumberReg, SeenReg} \subseteq Reg
  /\ SeenReg # 0 /\ SeenReg # LowReg /\ SeenReg # UpperReg /\ SeenReg # NumberReg
  BY Layout DEF Reg

\* Outside the stub.
LEMMA StepOutside ==
  ASSUME Iterates, Outside
  PROVE  StubInv' /\ Guest!Next
<1>1. /\ \A a \in Code \cup Mailboxes : mem'[a] = mem[a]
      /\ gpr'[0] = gpr[0] /\ gpr'[SeenReg] = gpr[SeenReg]
      /\ brk' = brk
      /\ pc' \in Places => Role[pc'] \in Entrances
  BY DEF Iterates, Works
<1>2. UNCHANGED <<Tohost, Fromhost, TohostUpper>>
  BY <1>1, TohostKept, FromhostKept DEF Mailboxes
<1>3. Point = "work" /\ Point' = "work"
  BY <1>1, Points, PointsThen DEF Outside, Entrances
<1>4. Quiet
  BY <1>3 DEF Iterates, StubInv, Standing
<1>5. Standing'
  BY <1>2, <1>3, <1>4 DEF Standing, Quiet
<1>6. StubInv'
  BY <1>1, <1>2, <1>5, AfterStep DEF Iterates, StubInv
<1>7. Steps
  BY <1>1, <1>2, <1>4, <1>6 DEF Iterates, Steps, StubInv, Quiet
<1>8. gpr'[NumberReg] \in Word
  BY Values DEF Iterates, TypeOK
<1>9. Guest!Next
  BY <1>1, <1>2, <1>3, <1>7, <1>8, MapWork
<1> QED
  BY <1>6, <1>9

\* The first store of a request, of the low word or the upper one.
LEMMA StepFirst ==
  ASSUME Iterates, ~Outside, Role[pc] = "first"
  PROVE  StubInv' /\ Guest!Next
<1>1. pc \in Places /\ ToWord(pc + 4) \in Places /\ Role[ToWord(pc + 4)] = "second"
  BY StubInsn, NextPlace DEF Follows
<1>2. BothWords(I, InsnAt(ToWord(pc + 4)))
  BY <1>1, StubInsn, LinkedInsn DEF Iterates, StubInv
<1>3. gpr[LowReg] = BufAddr /\ gpr[UpperReg] = UpperValue /\ Asked
  BY DEF Iterates, StubInv, Entered
<1>4. Point = "work" /\ Quiet
  BY Points DEF Iterates, StubInv, Standing
<1>5. gpr[0] = 0 /\ gpr[SeenReg] \in {0, 1} /\ TohostUpper \in {0, UpperValue}
  BY DEF Iterates, StubInv
<1>6. CASE IsLow(I) /\ IsUpper(InsnAt(ToWord(pc + 4)))
  <2>1. /\ Tohost' = BufAddr /\ pc' = ToWord(pc + 4)
        /\ UNCHANGED <<TohostUpper, Fromhost, gpr, brk>>
        /\ \A i \in Code : mem'[i] = mem[i]
        /\ \A i \in Cell(BufAddr) : mem'[i] = mem[i]
    BY <1>3, <1>6, StoreLow
  <2>2. InsnAt(pc)' = InsnAt(ToWord(pc + 4))
    BY <1>1, <2>1, SameCode DEF InsnAt
  <2>3. Point' = "upper" /\ IsUpper(InsnAt(pc)')
    BY <1>1, <1>6, <2>1, <2>2, PointsThen, LowNotUpper DEF Outside
  <2>4. Waiting'
    BY <1>3, <1>4, <2>1, AskedKept DEF Waiting, Quiet
  <2>5. Standing'
    BY <1>3, <2>1, <2>3, <2>4 DEF Standing
  <2>6. StubInv'
    BY <1>5, <2>1, <2>5, AfterStep
  <2>7. Steps
    BY <1>4, <2>1, <2>6 DEF Iterates, Steps, StubInv, Quiet
  <2>8. Guest!Next
    BY <1>4, <2>1, <2>3, <2>7, MapLow
  <2> QED
    BY <2>6, <2>8
<1>7. CASE IsUpper(I) /\ IsLow(InsnAt(ToWord(pc + 4)))
  <2>1. /\ TohostUpper' = UpperValue /\ pc' = ToWord(pc + 4)
        /\ UNCHANGED <<Tohost, Fromhost, gpr, brk>>
        /\ \A i \in Code : mem'[i] = mem[i]
        /\ \A i \in Cell(BufAddr) : mem'[i] = mem[i]
    BY <1>3, <1>7, StoreUpper
  <2>2. InsnAt(pc)' = InsnAt(ToWord(pc + 4))
    BY <1>1, <2>1, SameCode DEF InsnAt
  <2>3. Point' = "low"
    BY <1>1, <1>7, <2>1, <2>2, PointsThen DEF Outside
  <2>4. Quiet' /\ Asked'
    BY <1>3, <1>4, <2>1, AskedKept DEF Quiet
  <2>5. Standing'
    BY <1>3, <2>1, <2>3, <2>4 DEF Standing
  <2>6. StubInv'
    BY <1>5, <2>1, <2>5, AfterStep
  <2>7. Steps
    BY <1>4, <2>1, <2>6 DEF Iterates, Steps, StubInv, Quiet
  <2>8. Guest!Next
    BY <1>4, <2>1, <2>3, <2>7, MapUpper
  <2> QED
    BY <2>6, <2>8
<1> QED
  BY <1>2, <1>6, <1>7 DEF BothWords

\* The second store.
LEMMA StepSecond ==
  ASSUME Iterates, ~Outside, Role[pc] = "second"
  PROVE  StubInv' /\ Guest!Next
<1>1. pc \in Places /\ ToWord(pc + 4) \in Places /\ Role[ToWord(pc + 4)] = "load"
  BY StubInsn, NextPlace DEF Follows
<1>2. gpr[0] = 0 /\ gpr[SeenReg] \in {0, 1} /\ TohostUpper \in {0, UpperValue} /\ Standing
  BY DEF Iterates, StubInv
<1>3. pc' = ToWord(pc + 4) => Point' = "load"
  BY <1>1, PointsThen DEF Outside
<1>4. CASE IsLow(I)
  <2>1. Point = "low"
    BY <1>4, Points, StubInsn
  <2>2. Quiet /\ Asked /\ gpr[LowReg] = BufAddr
    BY <1>2, <2>1 DEF Standing
  <2>3. /\ Tohost' = BufAddr /\ Point' = "load"
        /\ UNCHANGED <<TohostUpper, Fromhost, gpr, brk>>
        /\ \A i \in Code : mem'[i] = mem[i]
        /\ \A i \in Cell(BufAddr) : mem'[i] = mem[i]
    BY <1>3, <1>4, <2>2, StoreLow
  <2>4. Waiting'
    BY <2>2, <2>3, AskedKept DEF Waiting, Quiet
  <2>5. Standing'
    BY <2>3, <2>4 DEF Standing
  <2>6. StubInv'
    BY <1>2, <2>3, <2>5, AfterStep
  <2>7. Steps
    BY <2>2, <2>3, <2>6 DEF Iterates, Steps, StubInv, Quiet
  <2>8. Guest!Next
    BY <2>1, <2>3, <2>7, MapLow
  <2> QED
    BY <2>6, <2>8
<1>5. CASE ~IsLow(I)
  <2>1. Point = "upper"
    BY <1>5, Points, StubInsn
  <2>2. IsUpper(I) /\ (Waiting \/ Told) /\ gpr[UpperReg] = UpperValue
    BY <1>2, <2>1, StubInsn DEF Standing
  <2>3. /\ TohostUpper' = UpperValue /\ Point' = "load"
        /\ UNCHANGED <<Tohost, Fromhost, gpr, brk>>
        /\ \A i \in Code : mem'[i] = mem[i]
        /\ \A i \in Cell(BufAddr) : mem'[i] = mem[i]
    BY <1>3, <2>2, StoreUpper
  <2>4. Waiting' \/ Told'
    BY <2>2, <2>3, AskedKept DEF Waiting, Told
  <2>5. Standing'
    BY <2>3, <2>4 DEF Standing
  <2>6. StubInv'
    BY <1>2, <2>3, <2>5, AfterStep
  <2>7. Steps
    BY <2>2, <2>3, <2>6 DEF Iterates, Steps, StubInv, Waiting, Told
  <2>8. Guest!Next
    BY <2>1, <2>3, <2>7, MapUpper
  <2> QED
    BY <2>6, <2>8
<1> QED
  BY <1>4, <1>5

\* The look for the answer.
LEMMA StepLoad ==
  ASSUME Iterates, ~Outside, Role[pc] = "load"
  PROVE  StubInv' /\ Guest!Next
<1>1. pc \in Places /\ ToWord(pc + 4) \in Places /\ Role[ToWord(pc + 4)] = "test"
  BY StubInsn, NextPlace DEF Follows
<1>2. Point = "load" /\ (Waiting \/ Told)
  BY Points DEF Iterates, StubInv, Standing
<1>3. Fromhost \in {0, 1} /\ Tohost \in {0, BufAddr}
  BY <1>2 DEF Waiting, Told
<1>4. IsLoad(I)
  BY StubInsn, LinkedInsn DEF Iterates, StubInv
<1>5. gpr' = [gpr EXCEPT ![SeenReg] = Fromhost] /\ Advance /\ UNCHANGED <<mem, brk>>
  BY <1>3, <1>4, StubInsn, StubLoad DEF Iterates
<1>6. /\ gpr'[SeenReg] = Fromhost /\ gpr'[0] = gpr[0]
      /\ gpr'[NumberReg] = gpr[NumberReg]
  BY <1>5, StubInsn, Values
<1>7. UNCHANGED <<Tohost, Fromhost, TohostUpper>>
  BY <1>5 DEF Tohost, Fromhost, TohostUpper
<1>8. pc' = ToWord(pc + 4)
  BY <1>5 DEF Advance, Retire
<1>9. Point' = "test"
  BY <1>1, <1>8, PointsThen DEF Outside
<1>10. Waiting => Waiting'
  BY <1>5, <1>6, <1>7, AskedKept DEF Waiting
<1>11. Told => Told'
  BY <1>7 DEF Told
<1>12. gpr'[SeenReg] # 0 => Told
  BY <1>2, <1>6 DEF Waiting
<1>13. Standing'
  BY <1>2, <1>9, <1>10, <1>11, <1>12 DEF Standing
<1>14. StubInv'
  BY <1>3, <1>5, <1>6, <1>7, <1>13, AfterStep DEF Iterates, StubInv
<1>15. Steps
  BY <1>3, <1>5, <1>7, <1>14 DEF Iterates, Steps, StubInv
<1> QED
  BY <1>2, <1>6, <1>7, <1>9, <1>14, <1>15, MapLoad

\* The branch back to the look, or on.
LEMMA StepTest ==
  ASSUME Iterates, ~Outside, Role[pc] = "test"
  PROVE  StubInv' /\ Guest!Next
<1>1. /\ pc \in Places /\ pc \in Word
      /\ ToWord(pc + 4) \in Places /\ Role[ToWord(pc + 4)] = "clear"
      /\ pc - 4 \in Places /\ pc - 4 \in Word /\ Role[pc - 4] = "load"
  BY StubInsn, NextPlace, PlaceTypes DEF Follows
<1>2. Point = "test" /\ (Waiting \/ Told) /\ (gpr[SeenReg] # 0 => Told)
  BY Points DEF Iterates, StubInv, Standing
<1>3. IsTest(I)
  BY StubInsn, LinkedInsn DEF Iterates, StubInv
<1>4. /\ Retire(IF gpr[SeenReg] = 0 THEN pc + ToWord(-4) ELSE pc + 4)
      /\ UNCHANGED <<mem, gpr, brk>>
  BY <1>3, StubInsn, StubTest DEF Iterates
<1>5. ToWord(pc + ToWord(-4)) = pc - 4
  <2>1. ToWord(-4) = WordSize - 4
    BY Sizes DEF ToWord
  <2>2. pc + (WordSize - 4) = (pc - 4) + WordSize /\ pc - 4 \in 0 .. WordSize - 1
    BY <1>1, Sizes DEF Word
  <2>3. \A x \in 0 .. WordSize - 1 : (x + WordSize) % WordSize = x
    BY Sizes
  <2> QED
    BY <2>1, <2>2, <2>3 DEF ToWord
<1>6. pc' = IF gpr[SeenReg] = 0 THEN pc - 4 ELSE ToWord(pc + 4)
  BY <1>4, <1>5 DEF Retire
<1>7. Point' = IF gpr[SeenReg] = 0 THEN "load" ELSE "clear"
  BY <1>1, <1>6, PointsThen DEF Outside
<1>8. UNCHANGED <<Tohost, Fromhost, TohostUpper>>
  BY <1>4 DEF Tohost, Fromhost, TohostUpper
<1>9. (Waiting => Waiting') /\ (Told => Told')
  BY <1>4, <1>8 DEF Waiting, Told, Asked
<1>10. Standing'
  BY <1>2, <1>7, <1>9 DEF Standing
<1>11. StubInv'
  BY <1>4, <1>8, <1>10, AfterStep DEF Iterates, StubInv
<1>12. Steps
  BY <1>2, <1>4, <1>8, <1>11 DEF Iterates, Steps, StubInv, Waiting, Told
<1> QED
  BY <1>2, <1>4, <1>7, <1>8, <1>11, <1>12, MapTest

\* The end of a call.
LEMMA StepClear ==
  ASSUME Iterates, ~Outside, Role[pc] = "clear"
  PROVE  StubInv' /\ Guest!Next
<1>1. pc \in Places /\ (ToWord(pc + 4) \in Places => Role[ToWord(pc + 4)] \in Entrances)
  BY StubInsn, NextPlace DEF Follows
<1>2. Point = "clear" /\ Told
  BY Points DEF Iterates, StubInv, Standing
<1>3. StoresWord(I, 0, FromhostAddr)
  BY StubInsn, LinkedInsn DEF Iterates, StubInv, IsClear
<1>4. mem' = Store(mem, FromhostAddr, 4, gpr[0]) /\ Advance /\ UNCHANGED <<gpr, brk>>
  BY <1>3, StubInsn, StubStore, Values, MailboxPlaces DEF Iterates
<1>5. mem' = Store(mem, FromhostAddr, 4, 0) /\ pc' = ToWord(pc + 4)
  BY <1>4, StubInsn DEF Advance, Retire
<1>6. Tohost' = Tohost /\ TohostUpper' = TohostUpper /\ Fromhost' = 0
  BY <1>2, <1>5, StubInsn, AnswerCleared DEF Told
<1>7. \A i \in Code : mem'[i] = mem[i]
  BY <1>5, StubInsn, MailKeeps
<1>8. Point' = "work"
  BY <1>1, <1>5, PointsThen DEF Outside, Entrances
<1>9. Standing'
  BY <1>2, <1>6, <1>8 DEF Standing, Told, Quiet
<1>10. StubInv'
  BY <1>4, <1>6, <1>7, <1>9, AfterStep DEF Iterates, StubInv
<1>11. Steps
  BY <1>2, <1>4, <1>6, <1>10 DEF Iterates, Steps, StubInv, Told
<1> QED
  BY <1>2, <1>4, <1>6, <1>8, <1>10, <1>11, MapClear

\* The store of _exit.
LEMMA StepLast ==
  ASSUME Iterates, ~Outside, Role[pc] = "last"
  PROVE  StubInv' /\ Guest!Next
<1>1. pc \in Places /\ ToWord(pc + 4) \in Places /\ Role[ToWord(pc + 4)] = "spin"
  BY StubInsn, NextPlace DEF Follows
<1>2. Point = "work" /\ Quiet
  BY Points DEF Iterates, StubInv, Standing
<1>3. IsLow(I) /\ gpr[LowReg] = HaltValue
  BY StubInsn, LinkedInsn DEF Iterates, StubInv, Entered
<1>4. /\ Tohost' = HaltValue /\ pc' = ToWord(pc + 4)
      /\ UNCHANGED <<TohostUpper, Fromhost, gpr, brk>>
      /\ \A i \in Code : mem'[i] = mem[i]
  BY <1>3, StoreLow
<1>5. Point' = "exit"
  BY <1>1, <1>4, PointsThen DEF Outside
<1>6. Standing'
  BY <1>2, <1>4, <1>5 DEF Standing, Quiet
<1>7. StubInv'
  BY <1>4, <1>6, AfterStep DEF Iterates, StubInv
<1>8. Steps
  BY <1>2, <1>4, <1>7 DEF Iterates, Steps, StubInv, Quiet
<1> QED
  BY <1>2, <1>4, <1>5, <1>7, <1>8, MapExit

\* The loop behind it.
LEMMA StepSpin ==
  ASSUME Iterates, ~Outside, Role[pc] = "spin"
  PROVE  StubInv' /\ Guest!Next
<1>1. Point = "exit" /\ Tohost = HaltValue /\ Fromhost = 0
  BY Points DEF Iterates, StubInv, Standing
<1>2. IsSpin(I)
  BY StubInsn, LinkedInsn DEF Iterates, StubInv
<1>3. Retire(pc) /\ UNCHANGED <<mem, gpr, brk>>
  BY <1>2, StubInsn, StubSpin DEF Iterates
<1>4. pc' = pc
  BY <1>3, StubInsn, PlaceTypes, Sizes DEF Retire, ToWord, Word
<1>5. Point' = "exit"
  BY <1>4, PointsThen DEF Outside
<1>6. UNCHANGED <<Tohost, Fromhost, TohostUpper>>
  BY <1>3 DEF Tohost, Fromhost, TohostUpper
<1>7. Standing'
  BY <1>1, <1>5, <1>6 DEF Standing
<1>8. StubInv'
  BY <1>3, <1>6, <1>7, AfterStep DEF Iterates, StubInv
<1>9. Steps
  BY <1>1, <1>3, <1>6, <1>8 DEF Iterates, Steps, StubInv
<1> QED
  BY <1>1, <1>3, <1>5, <1>6, <1>8, <1>9, MapExit

LEMMA StepInstruction ==
  ASSUME Iterates
  PROVE  StubInv' /\ Guest!Next
<1>1. ~Outside => Role[pc] \in {"first", "second", "load", "test", "clear", "last", "spin"}
  BY PlaceTypes DEF Outside
<1> QED
  BY <1>1, StepOutside, StepFirst, StepSecond, StepLoad, StepTest, StepClear, StepLast, StepSpin

-----------------------------------------------------------------------------
(* The other steps.                                                        *)

\* Steps that leave the guest where it stands.
LEMMA Stays ==
  ASSUME StubInv, UNCHANGED <<pc, gpr, mem>>, Fetched', Harmless'
  PROVE  StubInv' /\ UNCHANGED <<Tohost, Fromhost, TohostUpper, Point>>
<1>1. UNCHANGED <<Tohost, Fromhost, TohostUpper, Point>>
  BY DEF Tohost, Fromhost, TohostUpper, Point, Outside, InsnAt
<1>2. Linked'
  BY DEF StubInv, Linked, InsnAt
<1>3. Entered'
  BY DEF StubInv, Entered, Outside, Asked
<1>4. Standing'
  BY <1>1 DEF StubInv, Standing, Quiet, Waiting, Told, Asked, InsnAt
<1> QED
  BY <1>1, <1>2, <1>3, <1>4 DEF StubInv

LEMMA StepFetch ==
  ASSUME TypeOK, StubInv, Fetch, Harmless'
  PROVE  StubInv' /\ UNCHANGED Guest!vars
<1>1. UNCHANGED <<pc, gpr, mem, brk>> /\ Turn' = Turn
  BY DEF Fetch, Turn
<1>2. Fetched'
  <2> SUFFICES ASSUME ~Outside PROVE inst' = LoadWord(mem, pc)
    BY <1>1 DEF Fetched, Outside
  <2>1. InMap(pc, 4)
    BY PlaceTypes DEF Outside
  <2> QED
    BY <2>1 DEF Fetch, Views
<1>3. StubInv' /\ UNCHANGED <<Tohost, Fromhost, TohostUpper, Point>>
  BY <1>1, <1>2, Stays
<1> QED
  BY <1>1, <1>3, MapStutter DEF StubInv

LEMMA StepPoll ==
  ASSUME brk = 0, StubInv, PollIdle \/ PollExit, Harmless'
  PROVE  StubInv' /\ Guest!Next
<1>1. UNCHANGED <<pc, gpr, mem, inst>> /\ at = "poll"
  BY DEF PollIdle, PollExit, ToExec
<1>2. Fetched'
  BY <1>1 DEF StubInv, Fetched, Outside
<1>3. StubInv' /\ UNCHANGED <<Tohost, Fromhost, TohostUpper, Point>>
  BY <1>1, <1>2, Stays
<1> QED
  BY <1>1, <1>3, MapLook DEF StubInv

LEMMA StepEnd ==
  ASSUME StubInv, Next, Return \/ Died, Harmless'
  PROVE  StubInv' /\ Guest!Next
<1>1. /\ UNCHANGED <<pc, gpr, mem, brk>>
      /\ at \in {"loop", "poll", "exec"} /\ at' \in Ended
  BY DeathsRun DEF Return, Ended
<1>2. Fetched' /\ Turn # "off" /\ Turn' = "off"
  BY <1>1 DEF Fetched, Ended, Turn
<1>3. StubInv' /\ UNCHANGED <<Tohost, Fromhost, TohostUpper, Point>>
  BY <1>1, <1>2, Stays
<1> QED
  BY <1>1, <1>2, <1>3, MapEnd DEF StubInv

\* The call, while the stub waits for it.
LEMMA StepServe ==
  ASSUME IInv, TypeOK', StubInv, Syscall, Answered, ~Died, Harmless'
  PROVE  StubInv' /\ Guest!Next
<1>1. TypeOK /\ at = "poll" /\ brk = 0 /\ Requested
  BY DEF IInv, InIteration, Answered, ToExec, Requested
<1>2. /\ Tohost # 0 /\ Tohost % 2 = 0
      /\ UNCHANGED <<pc, gpr, inst, brk>> /\ at' = "exec"
  BY DEF Answered, ToExec
<1>3. \A i \in Code : mem'[i] = mem[i]
  BY <1>1, AnswerKeepsCode DEF StubInv
<1>4. HaltValue % 2 = 1
  BY Layout
<1>5. Point \in {"upper", "load", "test"} /\ Waiting
  <2>1. Point \in {"work", "low", "upper", "load", "test", "clear", "exit"}
    BY Points, PlaceTypes DEF Outside
  <2> QED
    BY <1>2, <1>4, <2>1 DEF StubInv, Standing, Quiet, Waiting, Told
<1>6. Tohost' = 0 /\ Fromhost' = 1 /\ TohostUpper' = 0
  BY AckCells, AckUpper DEF Answered, Tohost, Fromhost, TohostUpper
<1>7. gpr[NumberReg] \in Served
  <2>1. PICK v \in Buf : Arg(v, 0) \in Served
    BY ServedNumber
  <2> QED
    BY <1>1, <1>5, <2>1, NumberRead DEF Waiting, Asked
<1>8. ~Outside /\ pc \in Places
  BY <1>5, Points DEF Outside
<1>9. InsnAt(pc)' = InsnAt(pc) /\ LoadWord(mem', pc) = LoadWord(mem, pc)
  BY <1>2, <1>3, <1>8, SameCode DEF InsnAt
<1>10. Point' = Point
  <2>1. Outside' <=> Outside
    BY <1>2 DEF Outside
  <2> QED
    BY <1>2, <1>8, <1>9, <2>1 DEF Point
<1>11. Told'
  BY <1>6 DEF Told
<1>12. Standing'
  BY <1>2, <1>5, <1>9, <1>10, <1>11 DEF StubInv, Standing
<1>13. Fetched'
  BY <1>1, <1>2, <1>8, <1>9 DEF StubInv, Fetched
<1>14. Entered'
  BY <1>2, <1>5, <1>8, Points DEF Entered
<1>15. Linked'
  BY <1>3, SameLinked DEF StubInv
<1>16. StubInv'
  BY <1>2, <1>6, <1>12, <1>13, <1>14, <1>15 DEF StubInv
<1>17. Turn = "host" /\ Turn' = "guest"
  BY <1>1, <1>2 DEF Turn
<1> QED
  BY <1>1, <1>2, <1>5, <1>6, <1>7, <1>10, <1>15, <1>16, <1>17, MapServe
     DEF StubInv, Waiting

-----------------------------------------------------------------------------
(* The theorem.                                                            *)

LEMMA StubIsRun ==
  /\ StubInit => Init
  /\ [StubNext]_vars => [Next]_vars
  BY DEF StubInit, StubNext

LEMMA InitStub == StubInit => StubInv /\ Guest!Init
<1> SUFFICES ASSUME StubInit PROVE StubInv /\ Guest!Init
  OBVIOUS
<1>1. Init /\ Starts
  BY DEF StubInit
<1>2. TypeOK
  BY <1>1, InitIInv DEF IInv
<1>3. Quiet /\ TohostUpper = 0
  <2>1. \A a \in Mailboxes : mem[a] = 0
    BY <1>1 DEF Starts
  <2>2. \A k \in 0 .. 7 : mem[TohostAddr + k] = 0 /\ mem[FromhostAddr + k] = 0
    BY <2>1, MailboxPlaces DEF Mailboxes, Cell
  <2>3. \A k \in 0 .. 3 : /\ (TohostAddr + 4) + k = TohostAddr + (k + 4)
                        /\ (FromhostAddr + 4) + k = FromhostAddr + (k + 4)
                        /\ k \in 0 .. 7 /\ k + 4 \in 0 .. 7
    BY MailboxPlaces
  <2>4. Tohost = 0 /\ TohostUpper = 0
    BY <2>2, <2>3, LoadZeroWord, MailboxPlaces DEF Tohost, TohostUpper
  <2>5. LoadWord(mem, FromhostAddr) = 0 /\ LoadWord(mem, FromhostAddr + 4) = 0
    BY <2>2, <2>3, LoadZeroWord, MailboxPlaces
  <2>6. Fromhost = 0
    BY <2>5, Sizes DEF Fromhost, LoadDword
  <2> QED
    BY <2>4, <2>6 DEF Quiet
<1>4. Point = "work" /\ Outside
  BY <1>1, Points DEF Starts
<1>5. StubInv
  <2>1. Linked
    BY <1>1 DEF Starts
  <2>2. Harmless
    BY <1>1 DEF Harmless, Buf, Requested, Init
  <2>3. gpr[0] = 0 /\ gpr[SeenReg] = 0
    BY <1>1, Values DEF Init
  <2> QED
    BY <1>1, <1>3, <1>4, <2>1, <2>2, <2>3
       DEF StubInv, Fetched, Init, Standing, Entered
<1>6. Guest!Init
  <2>1. gpr[NumberReg] \in Word /\ gpr[SeenReg] = 0 /\ brk = 0 /\ Turn = "host"
    BY <1>1, <1>2, Values DEF Init, TypeOK, Turn
  <2>2. Linked
    BY <1>1 DEF Starts
  <2> QED
    BY <1>3, <1>4, <2>1, <2>2 DEF OfGuest, Quiet, Guest!Init, Guest!Port!Init
<1> QED
  BY <1>5, <1>6

LEMMA NextStub ==
  ASSUME IInv, StubInv, [StubNext]_vars
  PROVE  StubInv' /\ [Guest!Next]_(Guest!vars)
<1>1. IInv' /\ TypeOK /\ TypeOK'
  <2>1. IInv'
    BY StubIsRun, NextIInv
  <2> QED
    BY <2>1 DEF IInv
<1>2. CASE UNCHANGED vars
  <2>1. Fetched' /\ Turn' = Turn
    BY <1>2 DEF StubInv, Fetched, Outside, Turn, vars
  <2>2. Harmless'
    <3>1. mem' = mem /\ at' = at /\ Tohost' = Tohost /\ Harmless
      BY <1>2 DEF StubInv, vars, Tohost
    <3>2. Buf' = Buf
      BY <3>1 DEF Buf, Requested
    <3>3. \A v, r : Footprint(v, r)' = Footprint(v, r)
      BY <3>1 DEF Footprint, Structures, ReadBytes, Arg
    <3> QED
      BY <3>1, <3>2, <3>3 DEF Harmless
  <2>3. StubInv' /\ UNCHANGED <<Tohost, Fromhost, TohostUpper, Point>>
    BY <1>2, <2>1, <2>2, Stays DEF vars
  <2> QED
    BY <1>2, <2>1, <2>3, MapStutter DEF StubInv, vars
<1>3. CASE StubNext
  <2>1. StubInv /\ Next /\ Works /\ Ready' /\ Harmless'
    BY <1>3 DEF StubNext
  <2>2. CASE Fetch
    BY <1>1, <2>1, <2>2, StepFetch
  <2>3. CASE Return \/ Died
    BY <2>1, <2>3, StepEnd
  <2>4. CASE PollIdle \/ PollExit
    <3>1. brk = 0
      BY <2>4 DEF IInv, InIteration, PollIdle, PollExit, ToExec
    <3> QED
      BY <2>1, <2>4, <3>1, StepPoll
  <2>5. CASE Syscall /\ ~Died
    BY <1>1, <2>1, <2>5, SyscallOutcome, StepServe
  <2>6. CASE Execute /\ ~Died
    <3>1. Retired
      BY <1>1, <2>6, ExecuteOutcome
    <3>2. Iterates
      BY <1>1, <2>1, <2>6, <3>1 DEF Iterates, Retired, Retire
    <3> QED
      BY <2>1, <3>2, StepInstruction
  <2>7. FetchFault => Died
    BY DEF FetchFault, Died
  <2> QED
    BY <2>1, <2>2, <2>3, <2>4, <2>5, <2>6, <2>7 DEF Next
<1> QED
  BY <1>2, <1>3

\* The interpreter serves the stub as HtifGuest has it, wherever the linker has
\* put it and whatever the rest of the program does besides.
THEOREM StubServed == StubSpec => ServesStub
<1>1. StubSpec => Spec
  BY StubIsRun, PTL DEF StubSpec, Spec
<1> QED
  BY <1>1, InitStub, NextStub, Invariance, PTL DEF StubSpec, ServesStub, Guest!Spec

-----------------------------------------------------------------------------
(* The program: load_elf, then the interpreter on what it has left.        *)

LEMMA WholeSteps ==
  ASSUME [WholeNext]_wholeVars
  PROVE  /\ [Loader!Next]_(Loader!vars)
         /\ \/ at = "off" /\ UNCHANGED vars
            \/ Enter
            \/ at # "off" /\ [Next]_vars /\ UNCHANGED loaderVars
<1> USE DEF loaderVars, Loader!vars
<1>1. CASE Load
  BY <1>1 DEF Load
<1>2. CASE Enter
  BY <1>2 DEF Enter
<1>3. CASE Interpret
  BY <1>3 DEF Interpret
<1>4. CASE UNCHANGED wholeVars
  BY <1>4 DEF wholeVars
<1> QED
  BY <1>1, <1>2, <1>3, <1>4 DEF WholeNext

\* The loader's part of a run of the program is a run of LoadElf.
LEMMA LoaderRuns == WholeSpec => Loader!Spec
<1>1. WholeInit => Loader!Init
  BY DEF WholeInit
<1>2. [WholeNext]_wholeVars => [Loader!Next]_(Loader!vars)
  BY WholeSteps
<1> QED
  BY <1>1, <1>2, PTL DEF WholeSpec, Loader!Spec

\* The state as initState and main leave it.
Cleared ==
  /\ last_pc = 0 /\ inst = 0
  /\ gpr = [r \in Reg |-> 0]
  /\ brk = 0 /\ icnt = 0
  /\ maxicnt \in MaxIcnts /\ dumpIcnt \in DumpIcnts
  /\ fds = StdFds

\* The interpreter's own invariant, and what was loaded is still there.
OnWhatWasLoaded ==
  /\ IInv
  /\ stage = "loaded" /\ shield = ReadOnly
  /\ \A a \in ReadOnly : mem[a] = image[a]

WholeInv ==
  /\ at = "off" => Cleared
  /\ at # "off" => OnWhatWasLoaded
  /\ stage = "loaded" => Loader!Rom \cap shield = {}

LEMMA EnteredIInv == Init' => IInv'
  BY InitIInv, PTL

LEMMA EnterStarts == ASSUME Cleared, Enter PROVE OnWhatWasLoaded'
<1>1. Init'
  BY DEF Cleared, Enter, Described, Options, Init
<1>2. stage' = "loaded" /\ shield' = ReadOnly /\ mem' = image' /\ ReadOnly' = ReadOnly
  BY DEF Enter, Described, loaderVars
<1> QED
  BY <1>1, <1>2, EnteredIInv DEF OnWhatWasLoaded

LEMMA LoaderShield ==
  ASSUME stage = "loaded" => Loader!Rom \cap shield = {}, [Loader!Next]_(Loader!vars)
  PROVE  (stage = "loaded" => Loader!Rom \cap shield = {})'
<1> USE DEF Loader!Goto
<1>1. CASE Loader!WriteRom
  BY <1>1 DEF Loader!WriteRom, Loader!Rom
<1>2. CASE UNCHANGED Loader!vars
  BY <1>2 DEF Loader!vars, Loader!Rom
<1>3. Loader!Next => Loader!WriteRom \/ stage' # "loaded"
  BY DEF Loader!Next, Loader!Open, Loader!Map, Loader!CheckElf, Loader!CheckOrder,
     Loader!CheckTarget, Loader!Accept, Loader!Segment, Loader!SegmentFault,
     Loader!SegmentsDone, Loader!ReadSection, Loader!SectionFault, Loader!HostFault,
     Loader!SectionsDone, Loader!Mailbox, Loader!NoMailbox, Loader!RomFault
<1> QED
  BY <1>1, <1>2, <1>3

LEMMA WholeInvNext ==
  ASSUME WholeInv, [WholeNext]_wholeVars
  PROVE  WholeInv'
<1>1. (stage = "loaded" => Loader!Rom \cap shield = {})'
  BY WholeSteps, LoaderShield DEF WholeInv
<1>2. CASE at = "off" /\ UNCHANGED vars
  BY <1>1, <1>2 DEF WholeInv, Cleared, vars, Options
<1>3. CASE Enter
  BY <1>1, <1>3, EnterStarts DEF WholeInv, Enter
<1>4. CASE at # "off" /\ [Next]_vars /\ UNCHANGED loaderVars
  <2>1. OnWhatWasLoaded /\ TypeOK
    BY <1>4 DEF WholeInv, OnWhatWasLoaded, IInv
  <2>2. IInv' /\ Untouched
    BY <1>4, <2>1, NextIInv, NextUntouched DEF OnWhatWasLoaded
  <2>3. at' # "off"
    BY <2>2 DEF IInv, TypeOK, Ended
  <2>4. OnWhatWasLoaded'
    BY <1>4, <2>1, <2>2 DEF OnWhatWasLoaded, Untouched, loaderVars
  <2> QED
    BY <1>1, <2>3, <2>4 DEF WholeInv
<1> QED
  BY <1>2, <1>3, <1>4, WholeSteps

LEMMA WholeInvariance == WholeSpec => []WholeInv
<1>1. WholeInit => WholeInv
  BY DEF WholeInit, WholeInv, Cleared, Loader!Init
<1> QED
  BY <1>1, WholeInvNext, PTL DEF WholeSpec

LEMMA TextFollows ==
  ASSUME WholeInv, Loader!StartsAsLinked, Loader!ProtectsText
  PROVE  TextAsLinked
<1> SUFFICES
      ASSUME at # "off", HostPage = Page, NEW n \in 0 .. Len(elf.shs) - 1,
             Loader!Executable(Loader!Section(n)), Loader!Section(n).addr % Page = 0,
             NEW a \in Loader!Extent(n) \cap Word, Loader!Whole(a) \subseteq Loader!Extent(n)
      PROVE  mem[a] = Loader!ImageByte(Len(elf.phs), a)
  BY DEF TextAsLinked
<1>1. stage = "loaded" /\ shield = ReadOnly /\ \A x \in ReadOnly : mem[x] = image[x]
  BY DEF WholeInv, OnWhatWasLoaded
<1>2. Loader!Addr = Word
  BY DEF Loader!Addr, Word
<1>3. a \in shield
  BY <1>1, <1>2 DEF Loader!ProtectsText
<1>4. a \notin Loader!Rom
  BY <1>1, <1>3 DEF WholeInv
<1>5. image[a] = Loader!ImageByte(Len(elf.phs), a)
  BY <1>1, <1>2, <1>4 DEF Loader!StartsAsLinked
<1> QED
  BY <1>1, <1>3, <1>5

\* From the file to the last instruction: no run of a guest, whatever it stores and
\* whichever calls it makes with whatever arguments, changes an instruction of a whole
\* page of text; each is the byte the file's segments say.
THEOREM TextStaysAsLinked ==
  ASSUME Loader!Sizes, Loader!FileTypes
  PROVE  WholeSpec => []TextAsLinked
<1>1. Loader!Spec => []Loader!StartsAsLinked
  BY Loader!LinkedStart
<1>2. Loader!Spec => []Loader!ProtectsText
  BY Loader!TextProtection
<1> QED
  BY <1>1, <1>2, LoaderRuns, WholeInvariance, TextFollows, PTL

-----------------------------------------------------------------------------
(* What main sees.                                                         *)

\* load_elf ends as one of main's steps, and is no step before that.
LEMMA MainSeesLoad ==
  ASSUME Loader!TypeOK, Loader!TypeOK', [Loader!Next]_(Loader!vars),
         at = "off", UNCHANGED vars
  PROVE  [Main!Next]_(Main!vars)
<1> USE DEF vars, Options, Ended
<1>1. CASE stage' = stage
  BY <1>1 DEF Main!vars, MainPoint, CommandLine, Stopped, Output, Sequel
<1>2. ASSUME stage' # stage PROVE stage \notin {"loaded", "exited", "aborted", "faulted"}
  <2> USE DEF Loader!Goto
  <2> QED
    BY <1>2 DEF Loader!Next, Loader!Open, Loader!Map, Loader!CheckElf, Loader!CheckOrder,
       Loader!CheckTarget, Loader!Accept, Loader!Segment, Loader!SegmentFault,
       Loader!SegmentsDone, Loader!ReadSection, Loader!SectionFault, Loader!HostFault,
       Loader!SectionsDone, Loader!Mailbox, Loader!NoMailbox, Loader!WriteRom,
       Loader!RomFault, Loader!vars
<1>3. CASE stage' # stage
  <2>1. UNCHANGED <<CommandLine, Stopped, Output, icnt>>
    BY DEF CommandLine, Stopped, Output
  <2>2. MainPoint = "load"
    BY <1>2, <1>3 DEF MainPoint, Sequel, Loader!TypeOK, Loader!Ended
  <2>3. MainPoint' \in {"load", "capstone", "failed", "aborted", "faulted"}
    BY DEF MainPoint, Sequel, Loader!TypeOK, Loader!Ended
  <2>4. at' = "off"
    OBVIOUS
  <2>5. Main!LoadFile \/ Main!LoadFails \/ UNCHANGED Main!vars
    BY <2>1, <2>2, <2>3, <2>4 DEF Main!LoadFile, Main!LoadFails, Main!EndsAt, Main!Goto, Main!Run,
       Main!vars
  <2> QED
    BY <2>5 DEF Main!Next
<1> QED
  BY <1>1, <1>3

LEMMA MainSeesEnter ==
  ASSUME Cleared, Enter
  PROVE  [Main!Next]_(Main!vars)
<1>1. MainPoint = "capstone" /\ MainPoint' = "run"
  BY DEF Enter, MainPoint, Sequel
<1>2. UNCHANGED <<CommandLine, Stopped, Output, icnt>>
  BY DEF Enter, Cleared, CommandLine, Stopped, Output, Options
<1>3. at = "off" /\ at' # "off"
  BY DEF Enter
<1>4. Main!InitCapstone
  BY <1>1, <1>2, <1>3 DEF Main!InitCapstone, Main!Acquire, Main!Goto, Main!Run
<1> QED
  BY <1>4 DEF Main!Next

\* The end of the process in the middle of an iteration.
LEMMA MainSeesDeath ==
  ASSUME at \in {"loop", "poll", "exec"}, Main!Running, Died
  PROVE  Main!GuestFails
<1> USE DEF Died, Die, Options
<1>1. PICK how \in {"exited", "aborted", "faulted"} : Die(how)
  BY DEF Died
<1>2. MainPoint = "run" /\ MainPoint' = Sequel[how]
  BY <1>1 DEF MainPoint, Sequel
<1>3. Sequel[how] \in {"failed", "aborted", "faulted"}
  BY DEF Sequel
<1>4. UNCHANGED <<CommandLine, icnt, Stopped>>
  <2>1. brk = 0 \/ at # "loop"
    BY DEF Main!Running, Stopped
  <2> QED
    BY <1>1, <2>1 DEF CommandLine, Stopped
<1>5. Output' = Output \cup {"instructions"}
  BY <1>1 DEF Output
<1>6. at # "off" /\ at' # "off"
  BY <1>1
<1> QED
  BY <1>2, <1>3, <1>4, <1>5, <1>6
  DEF Main!GuestFails, Main!Goto, Main!Say, Main!Run

\* Whatever an interpreter step is, main sees an instruction, a death, the return or nothing.
LEMMA MainSeesStep ==
  ASSUME IInv, [Next]_vars, at # "off"
  PROVE  [Main!Next]_(Main!vars)
<1> USE DEF Options
<1>1. TypeOK /\ InIteration
  BY DEF IInv
<1>2. CASE UNCHANGED vars
  BY <1>2 DEF vars, Main!vars, MainPoint, CommandLine, Stopped, Output
<1>3. CASE Next
  <2>1. at \in {"loop", "poll", "exec"}
    BY <1>3, NextPoint
  <2>2. MainPoint = "run"
    BY <2>1 DEF MainPoint, Sequel
  <2>3. at \in {"poll", "exec"} => Main!Running
    BY <1>1, <2>1 DEF Main!Running, InIteration, Stopped, CommandLine
  <2>4. at = "loop" => (Main!Running <=> Running)
    BY DEF Main!Running, Running, Stopped, CommandLine
  <2>5. CASE Fetch
    BY <2>5 DEF Fetch, Running, Main!vars, MainPoint, Sequel, CommandLine, Stopped, Output
  <2>6. CASE FetchFault
    BY <2>1, <2>4, <2>6, MainSeesDeath DEF FetchFault, Died, Main!Next
  <2>7. CASE Return
    <3>1. MainPoint' = "dump"
      BY <2>7 DEF Return, MainPoint, Sequel
    <3>2. UNCHANGED <<CommandLine, icnt, Stopped, Output>> /\ at # "off" /\ at' # "off"
      BY <2>7 DEF Return, CommandLine, Stopped, Output
    <3>3. Main!RunEnds
      BY <2>2, <2>4, <2>7, <3>1, <3>2
      DEF Return, Main!RunEnds, Main!EndsAt, Main!Goto, Main!Run
    <3> QED
      BY <3>3 DEF Main!Next
  <2>8. CASE PollIdle \/ PollExit \/ Answered
    BY <2>8 DEF PollIdle, PollExit, Answered, ToExec, Main!vars, MainPoint, Sequel,
       CommandLine, Stopped, Output
  <2>9. CASE Retired
    <3>1. at = "exec" /\ at' = "loop" /\ icnt' = icnt + 1 /\ UNCHANGED <<maxicnt, dumpIcnt>>
      BY <2>9 DEF Retired, Retire
    <3>2. MainPoint' = "run" /\ UNCHANGED CommandLine
      BY <3>1 DEF MainPoint, Sequel, CommandLine
    <3>3. Stopped' \in {0, 1}
      BY <1>1, <2>9 DEF Retired, TypeOK, Stopped
    <3>4. Output' = IF Switches.log THEN Output \cup {"instructions"} ELSE Output
      BY <1>1, <3>1 DEF Output, TypeOK
    <3>5. Main!Instruction
      BY <2>2, <2>3, <3>1, <3>2, <3>3, <3>4
      DEF Main!Instruction, Main!Say, CommandLine
    <3> QED
      BY <3>5 DEF Main!Next
  <2>10. CASE at \in {"poll", "exec"} /\ Died
    BY <2>1, <2>3, <2>10, MainSeesDeath DEF Main!Next
  <2>11. Syscall => (Answered \/ Died) /\ at = "poll"
    BY <1>1, SyscallOutcome DEF Syscall, SysWrite, SysOpen, SysClose, SysRead, SysLseek,
       SysFstat, SysStat, SysGettimeofday, SysTimes, SysUnsupported, SysFault, Asking, Buf,
       Requested
  <2>12. Execute => (Retired \/ Died) /\ at = "exec"
    BY <1>1, ExecuteOutcome DEF Execute, ExecLoad, ExecFence, ExecOpImm, ExecStore, ExecLui,
       ExecAuipc, ExecJalr, ExecJal, ExecOp, ExecBranch, ExecEcall, ExecCsr, ExecUnknown,
       ExecAbort, ExecFault, Executing
  <2> QED
    BY <1>3, <2>5, <2>6, <2>7, <2>8, <2>9, <2>10, <2>11, <2>12 DEF Next
<1> QED
  BY <1>2, <1>3

\* MainProgram is right about what it only sees the end of: for every file whose text
\* leaves the host's memory alone, every guest and command line that parses, load_elf
\* and runRiscv together are its steps from "load" on.
THEOREM MainSeesTheRun ==
  ASSUME Loader!Sizes, Loader!FileTypes
  PROVE  WholeSpec => MainSeesIt
<1>1. WholeInit => MainPoint = "load" /\ icnt = 0 /\ Stopped = 0
  BY DEF WholeInit, Loader!Init, MainPoint, Sequel, Stopped
<1>2. ASSUME WholeInv, Loader!TypeOK, Loader!TypeOK', [WholeNext]_wholeVars
      PROVE  [Main!Next]_(Main!vars)
  <2>1. [Loader!Next]_(Loader!vars)
    BY <1>2, WholeSteps
  <2>2. CASE at = "off" /\ UNCHANGED vars
    BY <1>2, <2>1, <2>2, MainSeesLoad
  <2>3. CASE Enter
    BY <1>2, <2>3, MainSeesEnter DEF WholeInv, Enter
  <2>4. CASE at # "off" /\ [Next]_vars
    BY <1>2, <2>4, MainSeesStep DEF WholeInv, OnWhatWasLoaded
  <2> QED
    BY <1>2, <2>2, <2>3, <2>4, WholeSteps
<1>3. Loader!Spec => []Loader!TypeOK
  BY Loader!LoadTypes
<1> QED
  BY <1>1, <1>2, <1>3, LoaderRuns, WholeInvariance, PTL DEF WholeSpec, MainSeesIt
=============================================================================
