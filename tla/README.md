# A TLA+ verification project for the cloning applications

The repository holds small applications for measuring how processes (Linux) and
unikernel guests (Mini-OS, Unikraft) are cloned: servers that fork or clone
themselves, report how long it took to a collector over UDP, and then serve TCP
or UDP clients. This directory has TLA+ modules of the parts in which something
can go wrong that a test would hardly reach, TLC configurations that check them
on small instances, and theorems that TLAPS proves for every instance.

## 1. The system

| component | files (under `src/`) | state | operations | hard behaviour |
|---|---|---|---|---|
| prologue | `server-common.c`, `common/time.c`, UDP half of `common/net.c`, `os/*/net*.c`, `os/minios/clone.c` | `su`, `myport`, the loop variable, `do_*` options, domain ids; the datagrams in flight | `server_prologue`, `fork_prologue`, `clone_prologue`, `send_time`, `mysocket_init/fini`, `udp_client_send/recv`, `os_clone`, `app_resume` | parent and child share a socket; answers are late, lost, repeated; ports counted down; fork, clone and every call may fail |
| TCP applications | TCP half of `common/net.c`, `counter.c`, `server-tcp.c`, `measure-fork.c`, `memory-overhead.c`, `children.c`, `run_server` of `files.c` | listening socket, one connection, `netbuf` | `tcp_server_start/stop/accept/recv_msg/send_msg`, `net_msg_cleanup`, the accept loops | members race for a port; a child forked in the middle of a connection; clients that reset, stay silent, send pieces |
| UDP server, collector | `server-udp.c`, `app_resume` of `server-common.c`, `posix-server.c` | the guest's sockets; one buffer, the last client | the receive loop; the report after a suspension | two threads of a guest share the sockets' numbers, which are reused; uninitialised variables |
| file writers | `files.c` | a file, its offset, a buffer | `simple_test`, `run_server`, `create_file_write_data`, `write_chars/words/buffer` | several servers truncate and rewrite one file; writes that are short, empty or fail; an offset shared after `fork()` |
| fuzz harness | `fuzz.c` | a trigger in the store, a watch | `wait_harness_trigger`, `my_init_module` | a trigger written before the watch exists |
| memory | `common/mem.c`, `os/*/mem*.c` | pages | `mem_touch_pages`, `memsize_str2*`, page allocators | overflow; allocation and free that disagree |
| command line, main | `main.c`, `os/*/cmdline.c`, `os/minios/main.c` | the text, `argv`, the options | `app_main`, `cmdline_tokenize`, two `os_parse_args`, `string_to_app`, `main` | none concurrent; options in any order, arguments missing or wrong, a full `argv` |
| threads | `common/thread.h`, `os/*/thread.c` | `finished`, the result | `os_thread_create/wait/destroy` | a wait that nobody ends |
| `os_clone` of Linux and Unikraft | `os/posix/clone_*.c` | - | a stub (Linux), the hypercall (Unikraft) | the result in the child |
| sleeper, boot, profiling | `sleeper.c`, `os/*/boot.c`, `common/profile.c`, `os/*/time.c` | - | sleeping, printing | none |

How they interact: `main` parses the options and calls one application, on
Mini-OS and Unikraft in a thread. Every networked application but
memory-overhead calls `server_prologue(&is_child)` first and goes on only when
it returns 0. The prologue calls the socket helpers and `send_time`, which talks
to a collector at the gateway (on Linux 127.0.0.1, port 32764); then the
application opens the port of its own service. Parent and children have nothing
in common but what `fork()` or the hypervisor copied: the socket and its queue,
the listening socket, the connection.

What makes each part correct:

- prologue: everyone leaves it; the members end up on ports of their own; an
  answer reaches the member it is for and no 0 of `send_time` is false; the
  children, and only they, are told that they are children; a parent that goes
  on has its whole family.
- TCP applications: one connection at a time, in order, each once, although a
  family races for the port and children hold it; no descriptor left behind;
  every connection ends.
- UDP server: neither thread closes or uses what the other has open under a
  number; the buffer of one datagram is given back before the next; a new client
  is announced, and no other.
- File writers: a request that succeeded left the whole file, although siblings
  rewrite it; a server between two requests holds nothing; requests end; the
  lines of a family that shares an offset do not overwrite one another.
- Command line: the words of the text are found, each once; a line of options that the
  platform's parser takes starts what it says; no line starts an application with options
  that its prologue does not expect.
- Harness: a trigger is not lost, and the harness does not start without one.
  Memory: what is freed is what was allocated; the pages are the fewest that hold
  the size, as long as the arithmetic does not wrap. Threads: a wait ends.

The hazards, each at its line of the source, are in `PROJECT.json`; those that
no property covers yet say why.

## 2. The modules

| module | what it is |
|---|---|
| `CloneFamily` | abstract: what the prologue promises its caller |
| `Prologue` | the prologue in detail; refines `CloneFamily` |
| `PrologueProofs` | its inductive invariant and three properties, proved |
| `PrologueAckProofs` | what is in flight and what is acknowledged, what children are told, the refinement, and what becomes of a family, proved |
| `SerialService` | abstract: what a TCP application promises its clients |
| `TcpServers` | the six TCP applications on Linux; refines `SerialService` |
| `TcpServersProofs` | its inductive invariant, two properties and the refinement, proved |
| `UdpServer` | server-udp on a Mini-OS guest that is suspended and resumed |
| `UdpServerProofs` | its inductive invariant and three properties, proved |
| `FileWriters` | both tests of `files.c`, with all the members of a family |
| `FileWritersProofs` | its inductive invariant and four properties, proved |
| `Boot` | from the command line to the application |
| `Harness` | the fuzzing guest, the store and its operator |
| `Guest` | `Boot` and `Harness` composed: a guest told to fuzz |
| `HarnessProofs`, `GuestProofs` | their inductive invariants and seven properties, proved |
| `PageAlloc` | sizes, and the pages of measure-fork and memory-overhead |
| `PageAllocProofs` | its rounding, and whose the pages are on both platforms, proved |
| `MCPrologue`, `MCTcpServers`, `MCUdpServer`, `MCFileWriters`, `MCGuest`, `MCPageAlloc` | definitions of the small instances |

`Guest` composes two components: main() of `Boot` starts the harness, and its
state is part of the guest's. The others meet at one point only, and there a
constant stands for what one leaves to the other: the prologue is over when a
TCP application opens its port, and what it leaves behind (`Kin`, the processes
that go on) is a constant of `TcpServers` and `FileWriters`; what `Prologue`
assumes of its options is what `PrologueAssumptionsHold` of `Boot` says of every
line that starts an application; the requests that `TcpServers` serves for
`files` are those `FileWriters` carries out; the pages are the guest's or the
process's own.

### Prologue

One action is one stretch of code between two points where another member, the
collector or the network can interfere: a system call that talks to them.

| action | code |
|---|---|
| `Start`, `Branch`, `FinishAlone` | `server_prologue` up to the first report; the choice between fork, clone and neither; the close of `su` |
| `SendReport`, `SendFails` | `send_time` up to and with `udp_client_send` |
| `ReceiveAnswer`, `Timeout` | `udp_client_recv` and what follows, back into the caller (`SendTimeReturns`) |
| `Fork`, `ForkFails`, `Forked` | `fork_prologue`: from the head of the loop through `fork()`; what parent and child do then |
| `Clone`, `CloneFails`, `Cloned` | `clone_prologue` and `os_clone` of Mini-OS |
| `Rebind` | the child's own `mysocket_init`, in both prologues |
| `ClockFails` | `gettimeofday` around fork and clone |
| `Collect`, `AnswerArrives`, `Lose` | the collector and the network |

A socket is a *description*, named by the member that opened it; `su[p]` says
which one `p` has. On Linux `fork()` makes child and parent share it; a cloned
guest gets a copy with the same port and the same queue (`Inherit`). An answer
carries the report it answers, which the program never sees: that is what the
properties are stated with. `acked`, `gaveUp`, `consumed` and `received` are
histories. Datagrams are sets: repetition is the fault `"dup"`, which leaves a
delivered answer in flight.

`myport` is an `unsigned short` (`Below` is subtraction modulo 2^16), and so
wraps when a clone gets a domain id below its parent's.

`su` is not initialised without `-t`; what `mysocket_fini` closes then is not
defined, and `FinishAlone` leaves it open (`strayFd`).

### TcpServers

`pc` is where a process is in its accept loop, `fds` which connections it has a
descriptor of, `holders` who has one of the listening socket. `Handle` is the
body of each application's loop, by the kind of the first bytes received; the
paths out of it are three: `NextClient` (`net_msg_cleanup` and on), `Exit`, and
`Fork`. `Found` is what `strncmp` may see in a buffer nobody filled: any
request. Processes that ended are never waited for, so their slots stay taken
and `fork()` may fail because of it. `Bind` and `Listen` are two steps, for that
is where a family races. Clients connect, send, close and reset at any time. The
file and memory work between two messages is a step that succeeds or fails.

### UdpServer

On Mini-OS `os/minios/net.h` makes `socket`, `close` and `recvfrom` those of lwip,
which numbers its sockets by itself: from 0 on, the lowest free number first, and
nothing but sockets. `table` says whose socket is open under each number; the
threads know numbers only, so that a close of a stale 0 would take the server's
own socket. `PrologueInit`, `PrologueReport`
and `PrologueFini` are `server_prologue` without `-f` and `-x`, `StartServer` is
`udp_server_start`, `NewMessage` .. `Cleanup` are one turn of the loop of
`thread_func_server_udp`, the reset of `msg` included, and `ResumeInit`,
`ResumeReport`, `ResumeFini` are `app_resume`, which the kernel calls in a
thread of its own when the guest comes back (`Resumed`). `Closed` is `lwip_close()`
of a number, whoever has it open. Without `-t` `su` holds what the stack held,
and `PrologueFini` closes that. `Incoming` is what `recvfrom` gets from whatever
is open under the number. `before` and `announced` are histories.

### FileWriters

A file is a sequence of cells, each with its writer, and an open file a
*description* named by who opened it; `fork()` shares one (`SharedOffset`), a
clone copies it. `OpenTest`, `WriteLine`, `LinesWritten` and `OutClose` are
`simple_test`; `StartServer`, `Request`, `CreateFile`, `WriteChars`,
`WriteWords`, `WriteBuffer` and `CloseFile` are `run_server` and what it calls.
One action is one call of `write()`, which may take all, a part, nothing, or
fail, and each of the three functions does with that what its code does:
`write_chars` returns 0 when nothing was taken, which is also its success;
`write_words` asserts; `write_buffer` goes on, and keeps its buffer on an error.
`last` is a history: who truncated the file last and what its request came to.

### Boot and Guest

A word is an option in one of its forms or an argument: what `strcmp` and
`getopt_long` tell apart. The text of a Mini-OS line is a sequence of characters
of two kinds; `TokenEnds`, `TokenChar` and `Tokenized` are `cmdline_tokenize`,
and `argv` holds positions in the text. `Help` .. `Invalid` are the iterations
of the Mini-OS parser, one option each; `Following` is `argv[i + 1]`, which is
NULL behind the last word and anything behind the array. The `Getopt...` actions
are the other parser: an error is remembered in `rc` and the line read on.
`Parsed`, `AppInit` and `StartApp` are `main`. `cmd.items` is what the operator
meant: `Meaning` is read from it: the last item with an option decides it, and an option
the line has not keeps the initial value of `main.c`. The parsers' results are
compared with that, not with the defaults that the usage text states, of which
the one for `--sleep` is another (see findings). `UsageHolds` says what the usage
text says of the forms of the options, and is not true of the code.

`Guest` lets the harness run once main() has started `fuzz`, which only the
Unikraft build has.

### Harness

`pc` follows `wait_harness_trigger` from one call of the store to the next, then
`my_init_module`; `path`, `watch` and `rc` are the function's local variables.
`Out` is the common way out: on the error paths before `asprintf` it frees a
`path` nobody set, on that of the watch it follows an error pointer, so the
guest may be `"crashed"` after it. The result is positive after a success (it is
the length that `asprintf` returned), and the caller ignores it.
`OperatorWrites` is the other side: it changes the trigger at any moment and, if
there is a watch, leaves an event in it. `asked` is a history: the operator
wrote "done" after the guest cleared the trigger.

### PageAlloc

`Size`, `Alloc` (Mini-OS) or `Map` (Linux), `Touch`, `Stop`, `Free` or `Unmap`
are the life of the pages in `thread_func_measure_fork` and
`thread_func_memory_overhead`. `owner` says of each frame whose it is; the rest
of the program takes and frees frames at any time (`OtherTakes`, `OtherFrees`).
The allocator of Mini-OS is external and modelled by what it promises: an
aligned, free block of 2^order frames, or nothing. `Map` does what `mem_posix.c`
does with `MAP_FAILED`, and `Touch` then ends the process. A size is a number
and its unit, as `memsize_str2bytes` sees them; the arithmetic is modulo
`ULONG`.

## 3. The runs

| run | instance | shows |
|---|---|---|
| `fork` | Linux; every command line; two forks; loss, duplication, delay and failing calls together, loss with empty answers, empty answers alone | `TypeOK`, `ReportersHaveDistinctPorts`, `AckGoesHome`, `FirstAckIsTrue`, `IndexNamesPort`, `ChildKnowsItself`, `NobodyFails`, `TimelyAcksAreTrue` |
| `clone` | Mini-OS; every command line; loss, delay, failing calls; ids on both sides of the parent's; fair | `ReportersHaveDistinctPorts`, `AckGoesHome`, `FirstAckIsTrue`, `ChildKnowsItself`, `ImplementsFamily` (refinement), `EveryoneSettles` (liveness) |
| `tcp` | Linux; six applications with and without `-f`; three process slots, two clients; any call may fail; fair | `NoDescriptorLeaks`, `ImplementsSerialService` (refinement), `EveryConnectionEnds` (liveness) |
| `udp` | with and without `-t`; three datagrams from three clients, two suspensions, failing calls; fair | `DescriptorsKeepTheirOwners`, `NoBufferLeaks`, `ChangesAnnounced`, `DatagramsRead` (liveness) |
| `files` | both tests, Linux and guests that share the file, with and without two children; fair | `TypeOK`, `LastWriterLeavesAll`, `IdleHoldsNothing`, `NothingOverwritten`, `RequestsEnd` (liveness) |
| `guest` | three platforms; every line of up to two options, every spacing of one line; a trigger of an earlier run or none, three writes, any call may fail; fair | `GuestTypeOK`, `TokensAreWords`, `PrologueAssumptionsHold`, `ProperLinesStart`, `TriggeredByOperator`, `BootEnds`, `TriggerIsHeard` (both liveness) |
| `memory` | Mini-OS and Linux; every size of a word of five bits | `AppHasItsPages`, `PagesHoldRequest` |
| `late_answer` | a late answer | `AckedMeansReceived` violated: see findings |
| `collector_port` | `--send-time --fork --children 3`, no fault | `NobodyFails` violated |
| `fork_fails` | a failing `fork()` | `SuccessMeansFullFamily` violated |
| `free_pages` | Mini-OS | `FreesItsOwn` violated |
| `usage` | Linux; the lines of `guest` | `UsageHolds` violated |

`NobodyFails` holds of a family that loses nothing and whose calls succeed, with
two children; `TimelyAcksAreTrue` says of one whose answers are in time and come
once, and whose calls succeed, that every 0 of `send_time` is true, which
`late_answer` shows false otherwise.

Bounds. `Procs` has a slot for every child asked for and, in `fork`, one more,
so that a fork too many would show. Two forks are the smallest family in which
two children exist besides the parent and in which an answer to the first
iteration can be late in the second; three are needed once, to reach the
collector's port. Clones use sets of ids with gaps and with ids below the
parent's. In `tcp` one process serves, one races with it and one slot is left
for a forked child; two connections are the least that wait for one another.
`udp` has three sockets: enough for both threads and one more, so that one left
open would take a number; three datagrams of two
hosts and two ports make every change of client and none; the second suspension
may come while the server serves when the first came while it booted. In `files`
a file has four cells and a word two, so that a word may be cut in the middle,
and each of three servers gets two requests: one that another server cuts off,
and one more. `guest` has an `argv` of four: one option with its argument and
another fit, two do not, and the line of four words overflows it; seven to nine
characters put up to two blanks before, after or between its words. `MaxWrites`
is 3: one write before the guest clears the trigger, one between a read and the
wait, and one that changes it again. `memory` has words of five bits, pages of
two bytes and a factor of 4 from unit to unit instead of 1024, so that sizes on
both sides of every page boundary and sizes that wrap occur; six frames hold a
block of four with a neighbour on one side, and make larger requests fail.
Nothing else is bounded: the counters of `Prologue` and `TcpServers` are bounded
by the code (`iter` by `ChildrenNum`, `myport` by its width), and the sets in
flight by the reports there are. The theorems hold for all values of these
constants.

Fairness. Each process is scheduled again and again (`WF_vars(Step(p))`): the
members of a family depend on no lock or priority. `send_time` waits with a
timeout, so a waiting member can always move, whatever the network does; no
fairness is assumed of the network, the collector or a failing call. The empty
answer is left out of `clone`: a collector that sends only empty datagrams keeps
`send_time` in its loop for ever, and this is listed as a hazard. In `tcp`
clients are assumed to close or reset some day (`WF_vars(Hangup(c))`): no
application has a timeout of its own, so without this a silent client keeps the
service for ever. In `udp` both threads run; suspensions and clients are free to
come or not. In `files` every member runs (`WF_vars(Works(p))`); a write need
not fail, and none has to succeed at once, but since a write that takes nothing
changes nothing the fairness also says that writes do not take nothing for ever:
`write_buffer` would repeat them for ever. In `guest` the program runs
(`WF_vars(BootSteps)`, `WF_vars(FuzzSteps)`) and the operator need do nothing;
`TriggerIsHeard` promises something only if the trigger is "done" from some time
on, which a write that the guest cleared is not.

Deadlock is not checked: a prologue ends, a program that refuses its command
line ends, and a server may stop for good.

### Findings

- `late_answer`: the comment of `send_time` says the loop makes sure that the
  message is received. It repeats only after an empty answer; a lost report
  makes it give up, and the next call takes the late answer to the previous
  report for its own and returns 0.
- `collector_port`: the third child of a Linux family (`--send-time --fork
  --children 3`) is given the collector's port and fails.
- `fork_fails`: a failing `fork()` makes the prologue return 0.
- `free_pages`: `os_free_pages` of Mini-OS frees a block of twice the size that
  `os_alloc_pages` took.
- `usage`: on Linux and Unikraft the short options of the usage text do not work
  as it has them: `-t` and `-f` take the next word for an argument, `-c` and `-s`
  are unknown. Lines of Linux in this text use the long forms.

Two more that no run is about. The usage text gives the default of `--sleep` as 1
(`main.c:118`) and `main.c:58` has 1000; nothing reads the value, since the sleep
between two forks is commented out (`server-common.c:102-103`). And `children` on
Linux ends at its first request, because `os_clone` is a stub there that fails.

## 4. The proofs

`PrologueProofs` assumes what `Prologue` does of its constants: the platform,
that only Mini-OS has `-x`, `ChildrenNum` in 1 .. 32766
(`ChildrenNumAssumption`), and domain ids in the range Xen gives to guests.
Nothing is assumed of the number of processes or of the faults. That no command
line breaks the assumptions on the options is `PrologueMayStart` below, but for
the upper bound of `ChildrenNum`.

- `TypeCorrect`: `Spec => []TypeOK`.
- `DistinctPorts`: `Spec => []ReportersHaveDistinctPorts`.
- `AcksGoHome`: `Spec => []AckGoesHome`.

Neither property is inductive. That no member takes another's answer depends on
the port of every datagram in flight; that ports differ depends on how each came
about. `IInv` has four parts:

- `Places`: which member can be where. Only Root boots, forks and clones; a
  child has what `fork()` or `os_clone()` returned to it.
- `Numbers`: on Linux `myport` of Root is 32767 minus the forks so far, and the
  children's `iter` differ; among guests the domain ids differ.
- `OwnSockets`: a member that reports uses the description it opened, bound to
  its `ReportPort`, which never changes once the member exists.
- `InFlight`: a datagram's port is the `ReportPort` of the member it is about, and
  so is that of the socket an answer waits in.

`AckGoesHome` then follows: a member reads from its own socket, whose port is
the `ReportPort` of the answer's addressee, and these are one to one. With
guests `ReportPort` is taken in the integers and not modulo 2^16, which is where
the range of the ids is needed: the two agree because the ids are below 32752.

`PrologueAckProofs` goes on from `IInv`. `RInv` says what the datagrams say:
whatever is in flight was sent by the member it names, in the words that member
uses (`RightLabels`), and every answer is to a report the collector has
(`RightReports`). From it:

- `FirstAcksAreTrue`, `IndicesNamePorts`: `Spec => []FirstAckIsTrue`,
  `Spec => []IndexNamesPort`. A member's first report leaves a socket that nobody
  wrote to, so the answer in it is to that report.
- `TimelyAcks`: `Spec => []TimelyAcksAreTrue`, by `OneAtATime`: with answers in time
  and once, all that is in flight for a member belongs to its current report.
- `ChildrenKnow`: `Spec => []ChildKnowsItself`, by `Told`.

The second half of the module is about what becomes of a family.

- `RootCounts`: `Spec => []InNumbers`. Root has all of its clones or none, which is
  one step of `os_clone`; or as many forked children as it has begun iterations,
  which is a count that `Fork`, `NextIteration` and nobody else changes (`Counted`).
  A `fork()` that succeeds adds exactly one, because children do not fork.
- `FamiliesAreCloneFamilies`: every step is one of `CloneFamily` or a stutter. For
  clones this is so under every fault. For `fork()` the promise is broken when a
  call fails (the finding of `fork_fails`), and so the theorem supposes, of the
  scenarios that fork, that no call fails and that `Procs` has room for the family
  (`RoomForAll`); datagrams may be lost, late, repeated and empty. Of the abstract
  specification's parts only its fairness is left to TLC (`ImplementsFamily`).
- `SuccessIsWhole`: under the same hypothesis `Spec => []SuccessMeansFullFamily`. It
  comes from an invariant of the abstract specification (`Whole`), carried over by
  the refinement, and from `Unborn`: whoever is absent is nobody's child.
- `CalmFamilies`: `Spec => []NobodyFails` on Linux, when Root's children end before
  they count down to the collector's port (`ClearOfCollector`: two children, with
  the ports of the code). What the calm family has is `Calm`: whoever waits has
  its report or the answer to it under way, so `select()` never runs out, and every
  `bind()` finds its port free. `Quiet` is the hypothesis of `NobodyFails`, that the
  scenario has no fault but empty answers.
- `ThirdChildIsBarred`: the other side of it. On Linux the reporting child whose turn it
  is to take the collector's port never reports and never serves (`Barred`), in
  families of any size and under any fault: what the run `collector_port` finds
  with three children is so with every larger number.
- `PrologueIsShort`: `Spec => [][Advances]_vars`. `Distance` counts the iterations
  that are left and ranks the places in one. Every step of a member lowers its own
  and leaves the others' alone, but for `Repeats`, where `send_time` takes an empty
  answer and sends its report again. It is the variant behind `EveryoneSettles`.

`TcpServersProofs` has `IInv == TypeOK /\ NoDescriptorLeaks /\ Places`:
`NoDescriptorLeaks` is inductive with `Places` (at most one process serves; who
has a connection is in a place that goes with one; a connection at the server
has a client). From it:

- `ServersTypeCorrect`, `NoLeaks`: `Spec => []TypeOK`, `Spec => []NoDescriptorLeaks`.
- `ConnectionsKeepTheirPlace`: `Spec => []EachInOnePlace`. A connection waits at most
  once and not while it is served, and one that waits does so at a port somebody
  holds: when the last holder exits, the kernel drops what still waits (`Exit`).
- `ServersImplementSerialService`: `Spec => ImplementsSerialService`. The
  refinement maps `serving` to the connection of the one process that serves.
  `Listen` is `Open`, `Accept` is `Take`, leaving a connection or forking is
  `Finish`, the end of the server is `Shut`, the end of the last child that held
  the port is `Drop`, a client's connect is `Arrive`, the rest stutters.

`UdpServerProofs`: `DescriptorsKeepTheirOwners` is inductive with `HaveNumbers`
(a thread that uses a socket has the number of one; the other thread's is another,
although each is given what the other gave back) and `PrevIsBefore` is what
the first datagram needs: `prev` is nobody until a client was seen.

- `OwnersKept`, `NoLeaks`, `NewClientsAnnounced`: `Spec => []P` for
  `DescriptorsKeepTheirOwners`, `NoBufferLeaks`, `ChangesAnnounced`.

`FileWritersProofs`: `LastWriterLeavesAll` looks at the file when a request has
succeeded, and must survive whatever the servers do then that were cut off in
the middle. `Contents` says of the last to truncate that all cells up to its
offset are written, and of the others that their writes end within the size
asked for (`Progress`: a server's offset is its count, at most `Size`).
`SizeAssumption`, that the size is a whole number of words, is needed:
`write_words` would write past it otherwise. `Appended` is the same for the
simple test: the offset that a family shares is the length of its log.

- `FilesTypeCorrect`, `WholeFiles`, `NothingKept`, `LinesFollow`: `Spec => []P` for
  `TypeOK`, `LastWriterLeavesAll`, `IdleHoldsNothing`, `NothingOverwritten`.

`HarnessProofs` proves `StartsTriggered`: after a success of the wait the
harness starts only if the operator asked. The property is not inductive because
it looks only at the guest after the wait; `Triggers` adds that a trigger which
is "done" after the clearing was asked for, and that `rc` is not positive before
`asprintf` returns. `WakeUpsAreKept` is the opposite direction, as far as it is
safety: `Spec => []NotSleptOver`, a guest that waits while the trigger is "done"
has an event waiting, because the watch is set before the first read.

`GuestProofs` shows that every step of `Guest` is a step of
`Harness` or leaves its variables alone, and so takes this over, with `Waits`:
the harness does nothing before main() starts it. `Tokens` says what the
tokenizer has done when it is at `pos`: the words that begin before it are in
`argv` or there was no room, and each is ended unless it is the current one.

- `GuestTypeCorrect`, `WordsFound`, `PrologueMayStart`, `FuzzesOnRequest`:
  `Spec => []P` for `GuestTypeOK`, `TokensAreWords`, `PrologueAssumptionsHold`,
  `TriggeredByOperator`.
- `LinesStart`: `Spec => []ProperLinesStart`, for lines of any length that the
  platform's parser takes (`ParserTakes`). On Linux and Unikraft these are lines
  without `-x` and without the short `-t`, `-f`, `-c` and `-s`, which that parser
  refuses or reads differently from the usage text (the finding of `usage`). `Followed` says
  where a parser of a proper line is: at the beginning of an item of the line, all
  items before it applied to the settings and none after. Both parsers
  consume exactly one item a step, short or long, with its argument or without. `argv` holds the items' words because the text spells them out, which
  is what `BootAssumption` says of the lines (`SpellsOut`: the words of the text, in
  order, are those of the items), and because `argv` had room, which is part of
  what makes a line proper.

`PageAllocProofs` has `PagesSuffice`: `Spec => []PagesHoldRequest`, by
`FewestPages`: where the arithmetic does not wrap, the rounding gives the fewest
pages that hold the size.

- `PagesAreOwn`: `Spec => []AppHasItsPages`, on both platforms. A Mini-OS guest is
  given 2^`ctz(pages_num)` frames and uses `pages_num`; that these are the same for
  a power of two is `CtzOfPower`, with `PowersDivide`. They need an induction over
  the exponent, and the library's induction theorems are out of reach, so
  `Induction` derives one for sets of naturals from the well-foundedness of `<`. That
  2^(n + 1) is twice 2^n is not built into the provers either: `Doubling` has it
  from `FS_SUBSET`, by counting the subsets of a set of n + 1.
- `LinuxFreesItsOwn`: on Linux nothing of anybody else's is freed.
- `GuestFreesTwice`: on Mini-OS `os_free_pages` frees exactly the `2 * pages_num`
  frames from the application's first on: the finding of `free_pages`, for every
  number of pages.

Only model-checked: liveness (`EveryoneSettles`, `EveryConnectionEnds`,
`DatagramsRead`, `RequestsEnd`, `BootEnds`, `TriggerIsHeard` and the fairness in
`ImplementsFamily`), which needs `ENABLED` and is out of the prover's reach.
`NobodyFails` has no theorem for guests and for Linux with three children or
more: with three it does not hold, and among guests a clone and its parent have
one port until the clone rebinds.

## 5. Not modelled

- Threads (`os_thread_*`): compiled, and called by no application. Whether
  `os_thread_wait` would end on Mini-OS, where nobody sets `finished`, is no
  behaviour of any program here.
- `posix-server.c`: one `recvfrom` loop that shares nothing with anything, on port
  5000, where `send_time` reports to 32764. `Prologue` has the collector that
  `send_time` needs instead.
- The guests' TCP applications: a clone in the middle of a connection copies the
  TCP stack, and what two copies of one stack do to their peer is decided in lwip
  and in the backend of the network device, which are not in this repository. With them
  `os_clone` of Unikraft, which returns 0 to the child, where `clone_prologue`
  would take it for the parent; no command line of Unikraft leads there.
- `os_alloc_max_contiguous_memory` is called by nobody, `mem_unikraft.c` is in no
  build, `create_file_write_string` is not compiled.
- `__builtin_ctz` and `__builtin_ffs` take an `unsigned int`: a number of pages from
  2^32 on, 16 TB, would lose its high bits in them, and `PageAlloc` does not go
  there.
- Sleeping, the printing at boot, profiling and clocks (a duration is only
  printed), the wording of messages.

What is left that could be added: the guests' TCP applications over an assumed
behaviour of the copied stack, and `NobodyFails` for guests.
