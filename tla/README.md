# interp_rv32 in TLA+

interp_rv32 interprets RV32IM programs. It maps 4 GiB for the guest, loads an
ELF file into it, and executes instructions until the guest asks to stop, a
limit is reached or something gives up. The guest talks to the host through two
memory cells, `tohost` and `fromhost`, which the interpreter polls before every
instruction. There is one thread; what makes the program hard is that three
parties act on the same memory in turn (the guest's instructions, the
interpreter's system calls, the host kernel), that the guest is free to point
any of them at any address, and that every early end of the loop leaves a state
somebody else goes on with (`main`'s dump, a later `loadState`).

## The system

| component | source | state | operations |
|---|---|---|---|
| execution core | `interpret.cc` `execRiscv`, `runRiscv`; `interpret.hh` | `state_t`: pc, last_pc, gpr, mem, brk, icnt, maxicnt | fetch, poll, one case per opcode, the loop |
| host-target interface | `interpret.cc` `handle_syscall` | tohost, fromhost, the request buffer in guest memory, the process's descriptors | nine system calls, exit, acknowledgement |
| decoding | the bit-field unions of `interpret.hh` | none | fields and immediates of six formats |
| ELF loader | `loadelf.cc` | memory image, page protection, `globals::symtab`, mailbox addresses, pc | header checks, segments, protection, symbols, boot ROM |
| snapshots | `saveState.cc` | a file: header and the non-zero pages | `dumpState`, `loadState` |
| life cycle | `main.cc`, `globals.hh` | options, the mapping | parse, map, load, run, dump, hash, clean up |
| helpers | `helper.cc`, `helper.hh` | none | crc32 in two versions, open flags, bits, clock |
| disassembler | `disassemble.cc` | a capstone handle | text of an instruction for the log |
| build, vendored | `Makefile`, `osx_elf.h` | | |

How they interact: `main` fills `state_t`, `load_elf` leaves the image, the
mailbox addresses and pc, `runRiscv` calls `execRiscv` while brk is clear and
icnt is below both limits; `execRiscv` fetches a word, polls tohost, calls
`handle_syscall` if it is not zero, and then executes the word it fetched
before. When `runRiscv` returns, `main` decides from icnt whether to call
`dumpState`. A snapshot is the only thing that outlives the process.

What makes each component correct:

- core: one destination register per instruction, pc always even, every
  instruction counted, the loop exact at its limits;
- interface: a request is served once and before the next guest instruction,
  always answered, and a call writes nowhere but in its result, its structure and
  the mailbox;
- decoding: the immediates are those of the RISC-V formats;
- loader: the image of a segment, zero-filled, and nothing else changed by the
  boot ROM or the protection;
- snapshots: a load after a dump gives back the machine, or fails;
- life cycle: a dump is made exactly when the dump point is reached;
- helpers: both crc32 paths agree; a flag maps to the host's flag.

The hazards, each at the line where it bites and with the properties aimed at
it, are in `PROJECT.json`.

## The modules

| module | models | composed with |
|---|---|---|
| `Memory` | bytes, 32-bit words, two's complement, little-endian accesses to the flat mapping | |
| `Alu` | the immediate group, the register group, the branch conditions; which encodings assert, which operands trap | `Memory` |
| `HtifPort` | what the interpreter promises a guest about the mailbox (abstract) | |
| `Interp` | `runRiscv`, `execRiscv`, `handle_syscall` | `Alu`; implements `HtifPort` |
| `HtifGuest` | a guest's system call stub at the mailbox | host of `HtifPort` |
| `Log` | what a run prints, and what of it is lost | every step of `Interp` |
| `SnapshotStore` | what a dump and a load promise together (abstract) | |
| `SaveState` | `dumpState`, `loadState`, and processes that die and start again | implements `SnapshotStore` |
| `DumpRace` | several interpreters that dump under one name at once | the dumps of `SaveState` |
| `LoadElf` | `load_elf`: checks, segments, protection, symbols, boot ROM | what `Interp` starts from |
| `Decode` | the bit-field structures and the immediates | the constant `Decode` of `Interp` |
| `MainProgram` | `main`, from the command line to the exit status | the ends of all of the above |
| `Program` | `load_elf`, the call of `runRiscv`, and `runRiscv`, one after the other as in `main` | `LoadElf` and `Interp`; implements what `MainProgram` sees of them |
| `Crc` | both versions of `crc32` | |
| `OpenFlags` | `remapIOFlags` | |
| `Bits` | `extractBit`, `setBit`, `isPow2`, `checksum_gprs` | |
| `MCInterp` | small machines for the runs of `Interp` | |
| `HtifStub` | the stub of `HtifGuest` as instructions in a guest's memory, what such a guest keeps to, and the mapping | `Interp` implements `HtifGuest` |
| `MCHtif` | guests that keep to no protocol, and programs with the stub | `HtifStub` |
| `AluLaws` | two registers under `Alu`, and the laws of RV32IM on them | `Alu` |
| `Algorithms` | the pure functions together, and what is known of their constants | `Crc`, `OpenFlags`, `Decode`, `Bits`, `AluLaws` |
| `MCAlgorithms` | the inputs of the pure functions | `Algorithms` |
| `MCWords` | the operators on words that TLC computes on numbers | |
| `MCLoadElf`, `MCMainProgram`, `MCDumpRace`, `MCHtifGuest`, `MCLog` | the inputs of the runs | |
| `...Proofs` | lemmas and theorems about the module they are named after (`RunProofs`: about `Log`, `HtifStub` and `Program`) | |

In most modules a definition stands beside a variant of itself that a plausible
slip would make of it (`SegmentByteCleared`, `BuildArgcArgvInclusive`,
`OpenKeeping`): no action uses the variants. Put in place of the definition, each
breaks a property under the configuration of its run, which is how `PROJECT.json`
records that the property says something about the code.

### Interp

The variables are the fields of `state_t` (`bad_addr` and `epc` are never used
by the program), the argument `dumpIcnt`, the local `inst`, the set `fds` of open
descriptors and the control point `at`. One iteration of `execRiscv` is three
steps, because that is where the order matters:

| `at` | action | code |
|---|---|---|
| `loop` | `Fetch`, `FetchFault`, `Return` | loop test, line 44 |
| `poll` | `PollIdle`, `PollExit`, `Sys...` | lines 56-60, `handle_syscall` |
| `exec` | `Exec...` | the switch, line 484 |
| `returned`, `exited`, `aborted`, `faulted` | none | `runRiscv` returned, `exit(-1)`, `assert(0)`, a signal |

The instruction word is kept from `Fetch` to `Exec...`, as in the code, so a call
that overwrites it changes nothing for this iteration. A system call is one
step: nothing else can run between its stores, and the result, the data and the
acknowledgement are composed in the order of the code (`times` stores its result
first, the others last). What the host kernel answers is chosen by `\E`: `open`
takes the lowest free descriptor or fails, `read` and `write` transfer any
count up to the length asked for, or fail; a failed `fstat` copies whatever was
on the stack, here an arbitrary byte.

Undefined behaviour is a choice between what builds do: a division that C++
leaves undefined traps (amd64) or gives 0 (a machine whose instruction does not
trap); an access past the mapping faults or meets whatever lies there. Signed
overflow wraps, as the compiled code does for operands loaded from memory. A
store to a page that `load_elf` has protected faults; the kernel refuses to
`read` into one.

`Decode` is a constant: an instruction word stands for a record of the fields
the switch looks at. What the proofs use of the decoder is stated (`Machine`:
the fields are in range; `EvenOffsets`: branch and jal offsets are even), and the
module `Decode` shows it of the code's own structures.

### HtifPort

Two cells and whose turn it is. The host looks at tohost once, answers it (0 in
tohost, 1 in fromhost) or halts, and then the guest executes one instruction,
which may store anything in either cell. `Interp!ImplementsPort` maps the
interpreter onto it: `loop` and `poll` are the host's turn, `exec` the guest's,
every end of the run is `off`.

### HtifGuest and HtifStub

What the interpreter is for: the stub of libgloss, whose numbers `interpret.hh`
lists. The stub is not in the repository; its request and its cells are the ones
`handle_syscall` reads and writes. A 32-bit guest stores the 64-bit tohost as two
words, in either order, and the host looks between them: if the low word goes
first, the request is served before its upper word is stored, which then stays in
tohost behind an answer already given. The code masks it off (line 57), so nobody
notices; `OneAnswer` says so. A step of the guest is one instruction of the stub
(`LowFirst`, `UpperFirst`, `Load`, `Test`, `Clear`, `Work`, `Exit`), and the host's steps
are those of `HtifPort`, of which only calls with a case in the switch are answered.

`HtifStub` closes the circle: the stub as instruction words in the memory of
`Interp`. `Role` says at which addresses the linker has put it, `Layout` what a layout
is (the code in a row, apart from the mailbox; a buffer with an even address), `Linked`
that the words there are the stub's. A
guest that keeps to the stub (`StubSpec`) starts outside it with an empty mailbox (`Starts`), its
other instructions leave the mailbox, the code, x0 and the stub's register alone and enter
the stub at its first store or at the exit (`Works`), with the request built (`Ready`), and it
asks for no call whose results would lie over the stub (`Harmless`, in terms of the
`Footprint` of a call). These are conditions on the guest: none of them
mentions the answer, what tohost holds or when the host looks. `ServesStub` is the behaviour
of `HtifGuest`, whose variables are read off the memory, the registers and pc (`Point`):
with such a guest the interpreter takes only steps that the stub at the
abstract port takes. A guest with no stub in it is shown as a stub at rest.

`MCHtif` has both: the guests of `HtifImages`, and programs with two calls and an
exit. The run takes the whole `Next` of `Interp` for both, not `StubNext`: the
programs keep to the stub by what their instructions do. Their runs end with the exit, after
some twenty instructions, or, with the smaller limit, at the twelfth, between the two calls.

### Log

`Log` adds one variable to `Interp`: the buffer of stdio, what has left through
descriptor 1, and whether any of it was lost. The interpreter prints through the
buffer, the guest's `write` goes past it, and line 517 flushes the buffer after a
guest has printed. Every action of `Interp` appears with what it prints: `LogPoll` (the
line of `--log` comes between the look at tohost and the instruction), `LogWrite`,
`LogSysFault`, `LogUnsupported`, `LogUnknown` (the report, which prints last_pc) and
`LogAbort` (all but loads and stores print what they lack; nothing is flushed). When stdio
writes by itself is a choice. The guest can close descriptor 1 with an argument wider than
an int; text is then lost, the line of that very iteration with it, and `lost` excuses
what follows. The text of an instruction is its word, or none
where capstone knows none.

### SaveState and SnapshotStore

A dump is one step for each call of the kernel, as a death can come after any of
them: `DumpOpen` (with `O_TRUNC`), `DumpHeader`, one `DumpPage` per bit of
`nz_pages`, `DumpClose`; a load likewise. The file is a sequence of records, and a
write puts its record at the offset of the descriptor, over whatever is there. A
write cut short, by a full disk or by a death inside it, leaves a `Torn` record
and ends the process (the assertion after it); a read that does not get a whole
record does the same. A call that fails outright is `Die`. Registers, pc and icnt
are one value, a page is one value: nothing in `saveState.cc` looks inside. `Run`
stands for the interpreter between a load and a dump. Nothing in the repository
calls `loadState`; the model lets a process call it whenever no dump or load is
under way, on a fresh mapping as well as on a used one.

`SnapshotStore` is a place with a machine in it, or nothing. In the mapping a dump
takes effect with its last write and a load with its open: while loading, the
machine shown is the one the load will leave (`Loaded`), and a load of a file that
is not complete is shown as the end of the process from the start. Loading onto a
used machine keeps its other pages (`Onto`), as the code does.

### DumpRace

The name of a snapshot is the program's name and the count, with nothing in
between, so two runs of one program with one `--dumpicnt` write to one file, and so do
`prog` at 12 and `prog1` at 2. Each process has its own offset, and each truncates the
file when it opens it. A dump is its sequence of records; all pages have one size, so
the k-th records of two dumps lie at one place, and a write behind the end leaves a
`Hole`. The history variables `last` (who opened last) and `alone` (nobody wrote then,
nobody has opened since) are for the properties. Different machines dumped at once may mix in
the file: the properties claim nothing there.

### LoadElf

One step per check of the header, per segment and per section, then the symbol
table, the mailbox and the boot ROM, in the order of the code. A file is a record of what
its headers say, read with the code's types: sizes are signed (`int32_t`), addresses are
not. Every end of the function is a control point: `loaded`, `exited` (`exit(-1)`), `aborted`
(the assertion on the byte order, or the exception of `symtab.at`), `faulted`. What is
undefined is a choice: a copy that leaves the file or the mapping faults or finds
other bytes (`Stray`), a section header behind the end of a cut file faults or reads
as zeroes (a header that is cut is lost as a whole; the names of the sections and the program
headers are taken to be in the file). `Protected` is what `mprotect` is asked for: nothing for
an address that is not at a page of the host, and otherwise whole pages with no bound. It gets
as far as the host has something mapped (`Ends`, a choice), behind the mapping too; from then on
the process may meet memory of its own that it cannot write to, and die (`HostFault`). `SHT_NOBITS` is tested as a bit
(line 151), `p_type` is compared with a section type (line 120); both are modelled as they stand.
The tables `PT`, `SHT`, `SHF` and `STB` are the enumerations of `osx_elf.h`.

### MainProgram

`main` as a sequence of points, each with the ways in which it can end. `held` is what
has been acquired and not given back; `Needs` says what the code at a point touches.
What `main` calls appears by its outcome: `load_elf` returns or ends the process, one
iteration of `runRiscv` counts, stops, fails or asks for the arguments, a dump is written
or ends in its assertion.

### Program

`load_elf` works on `image`, step by step as in `LoadElf`, while the interpreter is off.
`Enter` is the call of `initCapstone` and then `runRiscv`: what was loaded becomes
the memory and pc of `Interp`. The mailbox, the protected bytes and the reset pc are constants of
`Interp`, and a file decides about them; so `Enter` is open to the files that agree with the
constants (`Described`), and the theorems hold for every value of the constants, hence for
every file whose mailbox is one that `Interp` takes (`Mailbox`) and whose text does not go on
behind the mapping: what becomes of a process that may not write to its own memory is not
followed past `load_elf`. `MainPoint`, `Stopped` and
`Output` are `main`'s view of the two. There is no run of `Program`: the bytes of the file and of
the boot ROM are bytes of the interpreter here, so a byte has all its 256 values and the mapping
2^32 bytes. Both of its properties are theorems.

### Decode, Crc, OpenFlags, Bits, AluLaws, Algorithms

Pure functions, each with a behaviour of its own so that TLC walks through its inputs.
`Algorithms` has an instance of each and the assumptions on the constants they share;
`MCAlgorithms` checks them in one run: a behaviour has one of them as its `subject`.
`Decode` takes a word as its signed value: fields are `\div` and `%`, and the masks that
extend a sign subtract a weight. A step flips a bit. `Crc` runs the bit loop and, beside
it, the instruction by its definition (a polynomial, bits reversed), over a memory and
over one a byte apart. `OpenFlags` runs the loop over the two tables, with a set of bits
for each flag. `Bits` writes registers bit by bit and keeps the set of bits
expected beside them. `AluLaws` is any program of `add`, `sub` and `sll` on two registers,
which in the run, with eight bits, reaches every pair; its laws speak of all register-register
instructions on that pair.

## The runs

The words are small: a byte has B = 4 values, so a word has 8 bits and the
mapping 256 bytes, and shift amounts are taken modulo W = 8. The interpreter never
looks at a byte's width except through the operators of `Memory` and `Alu`, which
are written for any even B. Cells stay four and eight bytes wide, alignment and
overlap behave as in the program, and addresses past the mapping exist.

| run | question | programs and bounds |
|---|---|---|
| `interp_isa` | Do registers, pc and the count stay right through every instruction? | two loads of operands from {0, 3, 127, 128, 255}, any of 65 cases of the switch (undefined ones included), a third instruction; 7 instructions at most, dump limit below or above |
| `interp_htif` | Is the mailbox protocol kept, whatever the call and its buffers, is every request answered, does every run end, and is the stub served as the port promises? | post a request by `sw` or `sb`, at two addresses, then any of several follow-ups (a second post, a spin, ecall, clearing fromhost); 37 requests with ordinary and hostile arguments; 5 instructions. The stub: two calls, the first of six numbers, the second `write` or `stat`, and an exit, both orders; cut at 12 instructions, or to its end (21 at most, the limits are 60 and 70); with weak fairness |
| `interp_zero` | Is x0 zero? (violated) | as `interp_isa` |
| `interp_rv32im` | Does every M instruction have a result? (violated) | as `interp_isa` |
| `save_store` | Does a load after a dump give back the machine, or fail, through deaths and short writes? | three pages of three contents, two register values, any number of processes, dumps and loads |
| `dump_race` | What is left when several interpreters dump under one name? | three processes; one machine for all, or dumps of one, two and four records |
| `load_elf` | What does `load_elf` leave to the interpreter, or how does it end? | four pages of 32 bytes; all pairs of 11 segments, all pairs of 11 executable sections with 9 kinds of tables, every type of segment, every type of section with every flag, files cut at each of their last 14 bytes; behind the mapping the host has nothing, one page or two |
| `main_program` | Are resources and the dump right on every path? | every combination of hash, silent, log, three counts of arguments, limits 0, 2 and 3; guests that stop or fail anywhere |
| `main_args` | Do arguments reach a guest that asks? (violated) | as `main_program` |
| `htif_guest` | Is each request of a stub answered once, and does the stub return? | all 25 numbers of `interpret.hh`, both orders of the stores, any number of calls |
| `algorithms` | Are the immediates and fields those of the formats? | each opcode with the other bits clear or set, and all words up to two flips away |
| | Do both builds compute one hash, and does a byte change it? | up to three of five sample bytes, each memory with all that differ in one byte |
| | Is a file opened as the guest asked? | every subset of newlib's flags, with and without bits no name has; Linux's numbers |
| | Do the bit helpers do what they are called? | registers 0, 5 and 31, three bits wide, every order of writes |
| | Is the arithmetic that of RV32IM? | every pair of bytes: all 65536 are reached |
| `log` | What is shown, and what is lost, when the run ends? | a request (15 of them, or none), two instructions from those that run, print or kill; one request in a protected page |

The bounds and what they leave in: `MaxIO` = 2 gives failure, nothing, a short
and a full transfer; `MaxFds` = 5 lets two opens succeed and the next fail;
`HostValues` = {0, 5} lets lseek and times return zero and something else; bytes a
call or the host supplies are one arbitrary value per call, which is enough to
make a mailbox cell zero, odd or even. Requests are placed so that their buffers
overlap the mailbox, the request itself, the program, a protected page and the
end of the mapping. Three pages leave room for a first, an inner and
a last bit of the scan, for gaps, and for a dump shorter than the one before it.
Three dumping processes are the least for one that dies, one that overlaps and one that
is left. The segments of `load_elf` overlap, lie over the boot ROM, end behind the mapping
or the file, and have sizes below zero; its sections share pages, or are not aligned. A
field or an immediate is put together from single bits, so two flips show each bit alone
and each pair. Of the hash, what a step of a byte does depends on the register, and three bytes bring
it far from its first value; longer memories are the theorem's. Runs of what
ends (all but `save_store`) say so with CHECK_DEADLOCK FALSE.

Properties, beyond the types:

- `ServedBeforeExec`, `RequestIsFresh`: at a guest instruction nothing is pending;
  between iterations a pending request is the last instruction's own. Together:
  served once, and in order.
- `ImplementsPort`: the whole protocol, halts included (an odd tohost stays).
- `CallFootprint`: what a call may write, for `read` exactly the bytes it reports.
- `StdStreamsStay`: closing 0, 1 or 2 takes an argument that is wider than an int.
- `OneDestination`, `PcEven`, `StopsExactly`: the core.
- `FileIsPrefix`, `ImplementsStore`: whatever happens to the processes, the file is
  the beginning of a dump, and what a load accepts is the whole machine dumped last.
- `Finishes`: every dump and load ends, also a load of a file with pages missing;
  under weak fairness of their steps, for the same reason as below.
- `LastDumpWins`, `Settles`: the last to open the file leaves its whole dump, if nobody
  dumped at the same time, or if all dump one machine, whatever the others go on
  to do.
- `StartsAsLinked`: the guest's memory is the segments, the later one on top, zeroes, and
  the boot ROM with the entry point. `ProtectsText`: only whole pages of executable
  sections are read-only, behind the mapping too, and in it all of them where pages have 4096
  bytes; the run's pages are of that kind, larger ones are the theorem's.
- `FaultsForCause`: `load_elf` is lost to a signal only where the file asks for it: it is
  empty, a segment is copied from outside of it or out of the mapping, a section header is cut
  off, text goes on behind the mapping or has the whole page of the boot ROM. What is protected
  for any other file is not in the way of what is written after it.
- `MailboxNamed`, `MailboxIsGlobal`, `MailboxNotMissed`: no machine starts without the two
  cells its file names, a static variable of the same name is not taken for one of
  them, and a file that names them is not refused for want of them.
- `Owned`: on no path is something used before it is there or after it was given
  back. `DumpsAtThePoint`: a snapshot is made exactly when the guest has executed
  dumpicnt instructions, and at that count.
- `DecodedAsDrawn`: immediates and fields, bit for bit what the formats of RISC-V draw.
- `PathsAgree`, `OneByteTells`: what `--hash` may be used for, comparing runs on two hosts
  and telling memories apart.
- `OpensAsAsked`: every name of newlib's is the host's, and no other bit is.
- `OneAnswer`, `StubReturns`, `ServesStub`: a stub at the mailbox, at the
  abstract port and at the interpreter.
- `OneLineEach`, `ShownByPrint`, `LastWords`: the log has one line for each instruction,
  what a guest printed does not come before older text that is lost, and a report of
  an unknown opcode names the right pc.
- `BitsAsSet`: the bit helpers and the checksum against sets of bits.
- `HalvesOfProduct`, `OneDivision`, `SignsAgree`: laws that relate several
  instructions, wherever the code gives a result.

### Fairness

Liveness is checked under weak fairness of the whole next-state relation in `Interp`,
`SaveState` (of its own steps) and `HtifGuest`: each is one thread
that never waits for itself, so the host's scheduler justifies it. It also says that
the host's calls return: a `read` from a terminal at which nobody types is
excluded. In `DumpRace` each process is fair for itself, since the host schedules
them all, and its deaths are not. `StubReturns` holds although only the whole is
fair, because guest and host take turns: a spinning guest cannot keep the host
from looking. That an exit ends the run does not ask for a halt to be taken rather than
a look: after a halt nothing else is left to do.

### Claims that do not hold

Three claims of the repository, each the property of a run that finds it violated, do
not hold:

- `ZeroRegister`: the disassembler calls register 0 `zero`, but `rdcycle x0`
  stores the count in it (`interpret.cc:458`), and it stays there.
- `RunsRv32im`: the README configures an rv32im toolchain, but of the M extension
  `mulhsu` ends in an assertion (`interpret.cc:309`), and a division without a quotient,
  which the extension defines, is divided without a test: an amd64 build dies of SIGFPE
  (`interpret.cc:336`).
- `ArgumentsReachGuest`: `--args` are "arguments to rv32 binary", but the call with which
  a binary asks for them has no case and ends the interpreter (`main.cc:79`,
  `interpret.cc:591`).

Seen in `Parse`, and not worth a run: `--help` is accepted (`main.cc:78`), and nothing looks
at it (`main.cc:89`).

## The proofs

TLC evaluates every assumption on the instances of the runs.

The interpreter (`InterpProofs`), for every program, every mailbox with two disjoint
cells inside the mapping, every limit and every even B. Assumed: `ByteBase`, `Bits`
(what the bit operators and powers of two return), `Machine` (the types of the
constants) and `Mailbox`.

- First lemmas: accesses return words, stores keep a memory of bytes, a dword reads
  back as it was stored, each result of the ALU is an integer.
- `SyscallOutcome`, `ExecuteOutcome`: each of the calls and instructions is
  answered or retired, or the process dies. The rest is proved from these.
- `Invariance`: the inductive invariant `IInv` is `TypeOK`, `ServedBeforeExec`,
  `RequestIsFresh`, `StopsExactly`, `PcEven` and `InIteration`. `RequestIsFresh` needs
  `ServedBeforeExec` (an instruction that is no store starts with nothing pending
  and leaves it so); `StopsExactly` needs `InIteration` (an iteration is entered
  below both limits, so the count it adds cannot pass them), the refinement needs
  it too (brk is clear at the look at tohost).
- `TypeCorrect`, `ServedFirst`, `Fresh`, `ExactStop`, `EvenPc`: its parts as theorems.
- `OneRegister`: the action property, from the types and the guards of each case.
- `Footprints`, `StdStreams`: the action properties about calls, from what `Store`,
  `Fill` and the acknowledgement leave alone, one case per call. `ReplyAgain` is the
  fact that the result read back from memory is the one the call returned, even
  when the request overlaps the mailbox.
- `Refinement`: `Spec => ImplementsPort`, each outcome mapped to an action of the
  port or to a stutter.
- `ProtectedStays`: no step changes a protected byte. A call stores its structure, its result
  and the acknowledgement one after the other, so the lemma about footprints also
  says that the memory is as it was or the whole footprint was writable.
- `RunsAreBounded`: `StepsLeft`, three for each instruction below the limit and one, goes down
  with every step. `AnsweredAtOnce`: the step that finds a request acknowledges it
  or is the last. These are what `Terminates` and `EveryRequestAnswered` need besides
  fairness.

Snapshots (`SaveStateProofs`, `DumpRaceProofs`). Assumed: `Mapping` (at least one page, zeroes
are a content), `NoneApart` (`None` is no machine), `Dumps` (a hole and a torn record are
no records of a dump).

- `SnapshotInvariance`: for every number of pages and whatever a page holds. The
  invariant adds to the types and `FileIsPrefix` what a dump has written
  (`DumpShape`: exactly the non-zero pages before the one it is at, as many as the
  length of the file says) and what a load has read (`LoadShape`). `SnapshotTypes` and
  `PrefixAlways` are its parts.
- `SnapshotRefinement`: `Spec => ImplementsStore`. `WholeDump` is the heart: the file
  is complete exactly when no page is left, since a set of written pages as large as
  the set of non-zero pages is that set. `CopiedPage` says that a page of a complete file
  has one record, so the order of copying does not matter.
- `LastDumpWhole`: for any number of processes and any dumps. The invariant says that what
  the last opener has written is in the file and nothing is behind its dump
  (`WrittenStays`), for which nobody else may be writing (`Undisturbed`) or everybody writes
  the same.
- `DumpsAreBounded`, `RacesAreBounded`: what a dump, a load or a process has left to do
  (`WorkLeft`, `TurnsLeft`) goes down with its every step, and no process adds to what another has
  left. These are what `Finishes` and `Settles` need besides fairness.

The loader (`LoadElfProofs`), for every file, page size and mapping. Assumed: `Sizes` (a
host page is a multiple of 4096 bytes, the ROM fits in a page, what is mapped behind the mapping ends with a page) and `FileTypes`.

- `LoadInvariance`: the memory is the image of the segments read so far (`Placed`), what is
  protected is what the sections read so far ask for, up to where the host has something mapped
  (`Guarded`, `Shielded`), tables are sections of the file and symbols come from them (`Listed`).
  `LinkedStart`, `TextProtection` follow; the last needs that what a section protects is made of whole
  pages that belong to it (`ProtectedWhole`), and that it protects each of those in the
  mapping (`WholeProtected`).
- `FaultsExplained` (`FaultsForCause`): from `Shielded`, as a protected byte is in a whole page of
  text; a file that is `Deadly` stays so (`DeadlyStays`). The types (`LoadTypes`) are a part of
  the invariant, for the proofs that follow.
- `MailboxFound`, `MailboxGlobal`: from `MailboxTable`, which says that a cell is at the last
  symbol of its name; where local symbols come first, that is not a local one.
- `MailboxFoundWherever` (`MailboxNotMissed`): the indices of the tables are found when their
  turn comes and no other section is taken for them (`Found`), as the types of both
  have bit 3 clear.

The program (`MainProofs`), for all command lines and every MARGS: what is held is
a function of the point reached (`HoldsInOrder`), and the count never passes the dump point
(`CountsToTheDump`). `MainTypes`, `Ownership`, `DumpPointExact`.

What a run prints (`RunProofs`), for every program and every set of words capstone knows,
whenever stdio empties its buffer. Assumed: what `InterpProofs` assumes.

- `LoggingOnlyPrints`: a run of `Log` is a run of `Interp`, so every theorem about the
  interpreter holds of it, and its invariant may be used.
- `LogInvariance`: `LogComplete`, `PrintShows` and `CulpritNamed` are parts of one invariant
  with the types of the buffer, that nothing printed bears a count to come (`UpToNow`,
  without which a new line need not be the last in order), and that last_pc is the pc of
  the instruction executing (`LastPcNoted`, without which the report could name another).
  An entry that is no line, the guest's text for one, goes to the front of the buffer's
  text; `InsertLines` says that the lines stay in order there.

The pure functions (`AlgorithmProofs`). Assumed: `Powers` (`Pow2(s)` is 2^s, by its equations),
`MachineWords` (the byte base is even, and there are 2^W words), `BitByBit` (the operators `&`,
`|` and `^` of C work on each bit for itself), `HostNames` (the host numbers its access modes as newlib does, and each of its
other names has a bit to itself: Linux and the BSDs do; `simIOFlags` and `hostIOFlags` are of no
use where it fails, as a name without a bit cannot be asked for) and `Contents`.

- The ALU, for every even byte base and every pair of words: `ProductsHold`, `DivisionsHold`,
  `SignsHold`. The invariant is that registers hold words; the laws follow from it alone.
  `Halves` and `Signs` turn the casts into one case distinction; `DivisionIsOne` (there is
  one quotient and remainder) gives each law from an equation. The one signed quotient that
  is no word, the least word by -1, is not `Executable`, so the laws do not speak of it.
- The flags of open: `OpenFlagsHold`. While the loop is at row i, what it has collected is
  what the rows above i ask for, in the guest's numbers and the host's.
- Decoding, for every word of 32 bits: `DrawnAsRead`. `Number` gives a word from its bits by
  Horner's rule; `\div` and `%` by a power of two take the word apart at a bit, and
  every format is a sum of such parts. `DecoderFits` gives what `Interp` assumes of its
  constant (`Machine`, `EvenOffsets`), and `RoundTripI`, `S`, `B`, `U` and `J` that every immediate
  comes back from its encoding.
- The hash, for memories of every length: `HashTells`. A step of the division loses
  nothing, since the bit it shifts out comes back in bit 31 of the polynomial; so
  registers once apart stay apart, and a byte that differs sets them apart.
- Both builds: `BuildsAgree`. Inside a byte the build with the instruction is ahead; the invariant
  says that its register is what the turns left make of the other's (`Ahead`). `DivideIsStep` is
  the step between them: a turn of the loop on a register is a step of the polynomial
  division on the register with its bits reversed, as POLY is Generator reversed.
- The bit helpers, for a type of any width: `BitsHold`. The invariant (`BitInv`) speaks of all
  32 registers. `PowerHas`, `ComplementHas` and `SetHas` follow the operators bit by bit;
  `PowerOrZero` is that p - 1 takes the lowest bit out of p and keeps those above it, which needs a
  lowest bit; `ChecksumHas` goes through the loop register by register.
- Induction over numbers is `UpTo`: a set that has 0, and with a number the next, has all
  of them. It comes from the well-founded order of the naturals (`LeastNumber`), and
  takes a set where the library's theorems take an operator. `PowerTypes`, `PowerSum` and
  `NoBitBelow` are inductions on a width, `Loop` and `ChecksumHas` on the registers.

The stub (`HtifGuestProofs`), for every buffer, upper word and set of numbers:
`StubTypes`, `AnsweredOnce`. `OneAnswer` is inductive with the types.

The stub in the interpreter (`RunProofs`): `StubServed`, for every program that keeps to the stub,
every layout, every buffer and any even byte base. Assumed: what `InterpProofs` assumes, and `Layout`.

- The invariant `StubInv` says what stands in the registers and the mailbox at each place
  (`Standing`, `Entered`), that the stub is still there (`Linked`), and that
  the word about to be executed is the one at pc (`Fetched`: a call that writes into the
  guest's memory comes between the fetch and the execution). It is not `OneAnswer`
  in other words: buf[0] must be the number asked for as long as the request waits
  (`Asked`), or a call with a case might be answered for one without.
- Each instruction of the stub has a lemma (`StepFirst` to `StepSpin`) that it keeps the
  invariant and is a step of `HtifGuest`; so have the looks (`StepPoll`) and the call
  (`StepServe`), which uses `SyscallFootprint` (the stub is not written over), `AckUpper` (both
  words of tohost are cleared) and `ServedNumber` (no answer for a number without a case).
- `StoredWord`: a word just stored reads back, for every byte base; `AnswerWord`: the stub
  looks at four bytes of an answer of eight, and misses nothing.

The parts together (`RunProofs`): `TextStaysAsLinked`, `MainSeesTheRun`, for every file, host page,
guest and limit, as far as `Program` follows them. Assumed: what `InterpProofs` assumes, and `Sizes`
and `FileTypes` for a mapping with one byte for each word, as `main` makes it.

- The invariant `WholeInv` says that the interpreter starts from an initial state of `Interp`
  (`Cleared`, `EnterStarts`), so `IInv` holds from then on, that protected bytes are as loaded
  (`Untouched`), and that no run gets past a boot ROM that is protected.
- `TextStaysAsLinked`: `LinkedStart` gives the byte, `TextProtection` that it is protected; the two
  are used as theorems about the instance `Loader`. The boot ROM is not over it, since
  writing a protected one ends the process.
- `MainSeesTheRun`: a step of the loader is `LoadFile`, `LoadFails` or nothing to `main`; a
  step of the interpreter is `Instruction`, `GuestFails`, `RunEnds` or nothing. That an iteration dies only
  below the limits is `InIteration`.

Only model-checked is liveness (`Terminates`, `EveryRequestAnswered`, `Finishes`, `Settles`,
`StubReturns`): fairness and ENABLED are beyond the prover. The variants that make the
first four true are proved; that a step is always possible, and taken, is TLC's.

## What is not modelled

- Contents and offsets of the guest's files, the arithmetic of the statistics, and the
  wording of what is printed.
- A host that loses a write it has acknowledged: nothing is flushed before a
  snapshot is closed, and the models end at the kernel's interface.
- A resumed run against an uninterrupted one: `loadState` has no caller, so nothing in the
  repository says what is to be set (brk, the limits, the mailbox addresses, the
  guest's descriptors are not in a snapshot) before a run goes on.
- Overlapping dumps of different machines beyond what `DumpRace` states.
- The wrap of the 64-bit icnt, maxicnt and dumpIcnt.
- Dead code: `bad_addr`, `epc`, `getCondName`, `disassemble`, `bswap`, `toString` and the
  conversions to strings, the code under `#if 0` or `OLD_GPR`; `timestamp` only feeds
  a message. (`Bits` does model the bit helpers and the checksum, which are not called
  either, because their names promise something.)
- What the type-punned accesses of C++ leave undefined (builds reload memory); signals
  from outside; a file that changes while it is mapped; an `e_phoff` or `e_shstrndx`
  that points out of the file.
- Most of `osx_elf.h` (other machines, dynamic linking), the Makefile and the inside of
  capstone.

## What could come next

- File offsets, so that `lseek` and `read` can be related.
