# LibHakkun, modelled in TLA+

LibHakkun is a library for mods of Nintendo Switch programs: a module of its
own is loaded beside the game's, links itself, patches the game's code with
hooks, looks up the game's symbols, and brings its own heap, locks and IPC.
This directory holds TLA+ models of its parts, the configurations with which
TLC checks them, and proofs that TLAPS checks. Every definition that stands
for code says so in its comment, and `PROJECT.json` gives its lines.

## The system's parts

### Hooks (`hk/hook/Hook.h`, `Replace.h`, `Trampoline.h`, `Trampoline.cpp`, `a64/Assembler.h`)

*State.* Each hook object keeps the module and offset of its site and the N
words it found there (`mOrigInstrs`, `cHookMaxOverwriteSize`); a trampoline also
a backup of the instructions its branch displaces, relocated, with a branch
back. The code of the game's modules is shared by all hooks.
*Operations.* Install at an offset, a pointer or a symbol; uninstall; calling
`orig` through the backup. `AsmBlock` writes a block of instructions and can
take it back.
*Interaction.* All writes go through `RoModule::writeRo`, which picks one of two
read-write mappings; pointers go through `ro::getModuleContaining`.
*Hard.* Hooks whose windows overlap; refused and faulting writes; a branch
shorter than the window that is saved; installing twice; stacking trampolines
on one site; that "installed" is deduced from saved data; moving instructions
that refer to their own place, with reaches that differ by instruction, into a
buffer whose literals grow from the other end.
*Correct if* a hook is installed exactly from a successful install to its
uninstall, the code is original again where no hook is left, an installed hook
is in effect, and `orig` runs what the hook displaced.

### Ro modules and mappings (`hk/ro/*`, `hk/hook/MapUtil.cpp`)

*State.* The list of loaded modules with the ranges of their sections and
their read-write mappings. *Operations.* Building the list at start-up, finding
the module of an address, mapping, writing, symbol lookup by hash in a
module's dynamic symbols. *Hard.* Mapping in two halves, a free address range
that is taken before it is mapped, range ends. *Correct if* an address is
attributed to the module it lies in and a write lands where it was asked for
or nowhere.

### Heap (`addons/ExpHeap`, `HeapSourceBss`, `HeapSourceDynamic`)

*State.* A heap head, a list of free blocks sorted by address, a list of used
blocks, the headers of the blocks inside the arena. *Operations.* Initialize,
destroy, adjust, allocate from the front (positive alignment) or the back
(negative), free, reallocate, sizes, first or best fit. The wrappers make
`malloc` and its like of it. *Hard.* Headers, paddings and remainders too small
for a block; merging; resizing in place; sizes near 2^64 that wrap around when rounded or
aligned; no locking.
*Correct if* it implements an allocator of disjoint aligned ranges, loses
nothing on freeing and fails no assertion.

### Locks and threads (`hk/os`, `addons/Rust/src/mutex.rs`)

*State.* `Mutex`: a word with owner and waiter bit, the exclusive monitors,
the kernel's queue. Guards: a flag and a `Mutex`. `SwitchFutex`: an atomic word.
`Event`: an atomic word. `SystemEvent`: two handles. `Thread`: a handle and a
stack. *Operations.* lock, tryLock, unlock, scoped locks that are moved and assigned; guard acquire, release; with_lock,
try_with_lock; signal, clear, wait; create, start, destroy. *Hard.* Failing
exclusive stores, sleeping in the kernel, hand-over by a call that comes after
the word is cleared, timeouts that race, flags
read before a lock. *Correct if* exclusive, no waiter is forgotten, initializers
run once.

### Linking (`rtld`, `hk/sail`, `hk/init`, the compiler in `src/sail`)

*State.* RTLD: a circular list of modules with their dynamic sections. Sail: tables of
symbols that a compiler made from text files, the index of each module's
version, a cache word per symbol, the mod's table of imports, a static address
per name looked up. *Operations.* RTLD relocates and
resolves all modules, then runs initializers; Sail resolves a symbol when it
is first used or at start-up, by dynamic lookup, by search for a data block or
an instruction sequence, by version. *Hard.* Two passes over the same entries,
hash tables with chains that end by a bit, order of initializers, fall-through in
version comparison, caches of failed lookups, entries that refer to others,
uninitialized variables between them. *Correct if* each
symbol has the address that its definition for the running version gives, or
the program stops.

### IPC (`hk/sf`, `hk/services`, `hk/diag/ipclogger`)

*State.* `Service`: session handle, object id, ownership, pointer buffer size;
the message buffer in thread-local storage; the logger's session.
*Operations.* Build a request, send it, parse the response, obtain a
subservice, convert to a domain, move, destroy. *Hard.*
Ownership when moved, the one message buffer that nested requests share, 16-bit
size arithmetic, servers that close a session, handle numbers used again.
*Correct if* a Service's handle stays its own, each response is read by the
request it answers, and each object of a domain is released once.

### The rest

Containers and utilities in `hakkun/core`, supervisor call stubs, diagnostics,
graphics addons (mostly bindings), Python and CMake tools. Sequential code that
unit tests reach; `PROJECT.json` lists them with reasons for leaving them out.

## Modules

| module | models | composed of |
|---|---|---|
| `Hook` | hooks, AsmBlock, writeRo, getModuleContaining over one module's words | |
| `HookProofs` | theorems about `Hook` | `Hook` |
| `A64` | taking apart and assembling pc-relative instructions, and what the processor does with them | |
| `Backup` | the branch to a trampoline's hook and the relocated backup, word by word | extends `A64` |
| `BackupProofs` | theorems about `Backup` | `Backup` |
| `Allocator` | abstract: disjoint aligned ranges in an arena | |
| `ExpHeap` | the heap, to the byte | implements `Allocator` |
| `ExpHeapProofs` | theorems about `ExpHeap` | `ExpHeap` |
| `Mutex` | os::Mutex per exclusive access, and the kernel's arbitration | |
| `MutexProofs` | theorems about `Mutex` | `Mutex` |
| `StaticGuard` | hk_guard_acquire/release | extends `Mutex` |
| `SwitchFutex` | the Rust addon's lock | |
| `SwitchFutexProofs` | theorems about `SwitchFutex` | `SwitchFutex` |
| `SymbolLanguage` | what the entries of a symbol database mean in a program, from the compiler | |
| `Sail` | Sail's run time: versions, imports, search, resolution, caches | extends `SymbolLanguage` |
| `SailProofs` | theorems about `Sail` | `Sail` |
| `ElfSymbols` | lookup in GNU and ELF hash tables, and what a linker promises of them | |
| `Rtld` | the standalone dynamic linker from its entry to main | extends `ElfSymbols` |
| `RtldProofs` | theorems about `ElfSymbols` and `Rtld` | `Rtld` |
| `Service` | hk::sf: Services, requests, replies, domains; the IPC logger | |
| `ServiceProofs` | theorems about `Service` | `Service` |
| `MC*` | constants for TLC | |

Operators named "... A defect" in comments are variants of a definition with a
plausible mistake; no specification uses them. Putting one in place of the
original must break the property named for it in `PROJECT.json`.

### Correspondence with the code

**Hook.** `mem` is the code of one module by word offset, `site`/`saved` are
`mOffset`/`mOrigInstrs` (for AsmBlock its own pair), `backup` is
`TrampolineStaticBackup`. `InstallAtPtr` is `HookOperations::installAtPtr` with
everything below it: `getModuleContaining`, the kind's `installAtOffset`, the
backup, the saving, `writeRo`. `Uninstall` is `HookNInstr::uninstall` or
`AsmBlock::uninstall`. Each early return, fault (a read or write beyond the
mapping) and abort is a disjunct. `live` and `older` are history variables.
Relocation is abstract: a relocated word behaves like the word at its own
address. All words of a branch are written in one step.

**A64, Backup.** The part that `Hook` abstracts from. An instruction is a record of
its fields, an immediate the unsigned content of its field, and the widths of
fields and addresses are constants, so that a small address space has the same
order of reaches. `AdrAddr` .. `TbzAddr` are the `grab...` functions, `Assemble...` the
cases of `IInstr::assemble`, with the checks they make (`CanBeImmNeg`, which
accepts twice a signed field's reach; `Refused` stands for the abort). `Emit...`
are the methods of `PseudoInstructionEmitter` from buffer to buffer; a buffer is a
`VecSpan` with its words, size and capacity, and `lits`, a history variable.
`MakeBranch`, one `Relocate` per displaced instruction (or `Abort`) and `EmitReturn`
follow `TrampolineStaticBase::installAtOffset` and `makeTrampolineBackup`. `Run` is
the reference: it makes `Step`s, each the `Effect` of the word at the program counter,
until control leaves the words (`Inside`).

**ExpHeap.** `heap.free` is the list of free blocks, `heap.used` the set of used
ones, with addresses, sizes and paddings in bytes as in the headers.
`AllocateFromExpHeap`, `ConvertFreeBlockToUsedBlock`, `CoalesceFreedRegion` and
`ResizeExpHeapMemoryBlock` are operators from heap to heap under the source's
names; the actions are the methods of `hk::mem::ExpHeap`. A failed assertion
sets `aborted` and nothing happens after it. `SizeMod` stands for 2^64: sums of
a size (`RoundedSize`, `Fitting`, the region behind a new block, the end of a block in
`IsValidUsedMemoryBlock`) wrap around at it. Addresses do not, as the address space
ends far below.

**Mutex.** One action per exclusive load, per exclusive store (or its failure)
and per supervisor call; threads of any cores and priorities interleave at each.
`monitor` holds the threads whose exclusive monitor is set; any store clears it and so
does an interrupt, at any time. `queue` is the kernel's list of sleepers with the
owner each waits for; the kernel wakes the one of the highest priority, in the
model any. A client may also unlock a mutex it does not hold, as the destructor of a
moved-from `Lock` does (`Call`). `Assign` and `AssignCopy` are the two halves of `Lock`'s
move assignment: it unlocks, and later copies the other `Lock`'s mutex, in any state, over
the word. `overwritten` is a history variable: it is true once
`svcArbitrateUnlock` or that copy has written over a word that somebody had taken or
announced himself in.

**StaticGuard.** `at` is how far a thread is with the guarded block; locking and
unlocking are `Mutex`'s own actions.

**SwitchFutex.** One action per atomic operation or supervisor call.

**SymbolLanguage, Sail.** The first is the reference: `Definition` says what an
entry means in a program, given what the others mean, and `Meaning` is a
solution (TLC evaluates `MeaningAssumption`). `Sail` is the code: `LoadVersion` is
one turn of the outer loop of `loadVersions`, `Import` one of `loadSymbols`, `Lookup`
is `hk::util::lookupSymbol`. A lookup then goes on by `Probe` (a turn of
`binarySearch`), `Hit` or `Miss` (the cache in `SymbolEntry::apply`) and an
`Apply...` action per kind; `stack` holds the nested calls of `apply` with their
`abort` and `out`. `SeekSource` to `ApplyArithmetic` spans the nested call, so other
threads run in between. A version index counts from 1, and 0 is the code's -1. Names are
numbers, as their hashes are, without collisions. Module names are compared as a
whole, where the code looks for a part of a name; a module given by index
(`moduleIndexOverride`) is like one given by name. What a pair of instructions
refers to does not change between lookups.

**ElfSymbols, Rtld.** `IsLinked` says what a static linker promises of a module's
symbols and their hash tables, whatever order it puts symbols and chains in;
`MCRtld` constructs one table for each assortment of symbols, and TLC evaluates
`ModuleAssumption` on all of them. The `GetSymbolByName...` operators are the code that reads tables,
where a loop along a chain is a set of places up to the chain's end. In
`Rtld`, `next` and `prev` are the pointers of the circular list, whose head is node
0. Each step is a turn of a loop of `rtldEntry`: `LoadModule` (with
`initializeRtldModule` and `pushFront`), `Refer` (`applyByReference`), `Resolve`,
`InitModules`; `NextPhase` ends a loop. `mem` holds the slots that relocation
entries are about. The bss of a module, which `initializeRtldModule` clears, is
represented by its list pointer (`listAt`). A symbol's value is its number.

**Service.** A `svc` record is a `Service`; `of` and `root` remember for which session it
was made. `call` is a thread's invocation: `Construct` is `Request`'s constructor, with the
nested query of the pointer buffer's size (`query`), then data is added,
`WriteToTls`, `Send`, `ReadFromTls`, each a step of its own; the destructor goes on
with `SendAgain` and `EndOfDestructor`. `tls` is each thread's message buffer, and a
header is reduced to what a reader goes by: tag, command, whether there is a
domain header and for which object, and how much goes through the pointer buffer.
`Connect` is `ServiceManager::initialize`, `InitializeLogger` and `Log` are the IPC logger.
Data that is mapped takes nothing from the pointer buffer and is left out.
Kernel and servers are external: `Answer` is any server that keeps to the
protocol, refuses what it likes and hands out object ids and sessions.

## Runs

| run | checks | bounds |
|---|---|---|
| `hook` | `TypeOK`, `InstalledIffLive`, `RestoreExact`, `InEffect`, `OrigRunsWhatWasThere` | 4 hooks, 7 words |
| `heap` | `TypeOK`, `Layout`, `NoFreeNeighbours`, `NoAssertionFails`, `AllocatableSizeIsExact`, `OnlyAllocationLoses`, `ImplementsAllocator` | 184 bytes, sizes 0, 41 and 2^16 - 65, 4 alignments |
| `futex` | `TypeOK`, `MutualExclusion`, `TakenIffHeld`, `EventuallyFree`, `SomebodyGetsIt` | 3 threads |
| `futex_panic` | a defect, below | 3 threads |
| `mutex` | `TypeOK`, `ExclusiveUntilOverwritten`, `SleepersAreExpected`, `WaitersAreServed` | 3 threads, 2 words that are assigned |
| `mutex_window` | a defect, below | 3 threads, no assignment |
| `static_guard` | a defect, below | 2 threads |
| `sail` | `TypeOK`, `AnswersAreRight`, `CacheIsRight`, `HaltIsJustified`, `EveryLookupEnds` | 3 programs, 9 names, 4 imports, 2 threads |
| `sail_older` | a defect, below | 1 name |
| `backup` | `TypeOK`, `LiteralsSurvive`, `BranchReachesHook`, `BackupRunsOriginal` | 8 placements, 14 instructions, windows of up to 5 words, 25 words of backup |
| `ipc` | `TypeOK`, `HandleIsItsOwn`, `RequestsFit`, `RepliesFit`, `ObjectsAreHeld` | 2 threads, 3 Services, 2 handles, 2 sessions, 2 object ids |
| `rtld` | `LookupIsRight`, `LinkedBeforeInit`, `InitOrder`, `Ends` | 4 names, up to 3 modules with 2 slots |

*hook.* A one-word and a two-word trampoline, a one-word replace hook and a
two-word AsmBlock, any pointer from 0 to one past the module and beyond, N = 2.
That is enough for windows that overlap partly and wholly, for a shorter branch
in a longer window, for a stack of three at one site, for a write across
.text and .rodata, for a zero word and an instruction that cannot be relocated.
The behaviours are those of mods that uninstall overlapping hooks in reverse
order, do not hook a word of zeros, do not hook the module's first word with an
AsmBlock and do not install a trampoline twice (`DisciplinedNext`); without any
of these the properties do not hold. Deadlock is not checked: an abort ends the
process.

*heap.* The arena takes up to four blocks with headers; the sizes and alignments
make remainders and paddings on either side of the thresholds of 36 and
128 bytes, and a second arena is too small for a heap. Alignment -2 tests that
small alignments are widened. Clients of `DisciplinedNext` do not use the heap
before it is initialized, free blocks that are allocated, do not resize to 0 and
ask for no size that wraps around when it is rounded up or aligned
(`ProperRequest`: size and alignment together are less than `SizeMod`, here 2^16). The largest
size is the greatest that is proper with an alignment of 64, so requests up to the limit are
asked for and refused. Without `ProperRequest` a size of 2^16 - 32 with alignment
64 is granted, and `TypeOK`, `Layout`, `AllocatableSizeIsExact` and
`ImplementsAllocator` fail. The abstract `Allocator` is checked as a
property under the refinement mapping `Allocated`.

*futex.* Weak fairness of each thread's next step once it has called: threads
run in parallel or in turns. Three threads are one to hold, one to wait and one
to overtake. Only somebody's progress holds: an individual thread may be
overtaken for ever. A panic stops the process, so deadlock is not checked.

*mutex.* Nothing is assumed of where threads run and what preempts them. The window of
`unlock`, between the store that clears the word and the supervisor call, is open to
every other thread, and so is the one of `lock` between its announcement and
`svcArbitrateLock`. What is left of exclusion is said up to the first write that
goes past the exclusive accesses (`overwritten`); the code has two such writes, and the
properties say that there is no other way to lose exclusion or a sleeper. Three
threads are an owner, a thread that is handed the mutex, and one that goes on sleeping or
gets in between; the words that are assigned are one that is free and one that
somebody waits for. Deadlock is not checked: after such a write everybody may sleep for
ever. `WaitersAreServed` assumes weak fairness of each thread's next step once it has
called or holds the mutex: the kernel runs each thread again, and who holds the
mutex releases it. It also assumes strong fairness of the exclusive stores together: interrupts
and other threads' stores may make them fail any number of times, but if threads keep
trying one of them stores. Only somebody's progress holds: a thread may be overtaken for ever.

*mutex_window.* The same threads as clients that never assign one `Lock` to another
(`ScopedSpec`), so that the window of `unlock` is the only way to a second holder.

*sail.* The three programs are two known builds of a game and one that is known
by its name only. The nine names have entries of every kind: two lists of
candidates (with immediates behind a data block; with a block that is not there,
one of another version, an export that does not exist and an entry that refers
to a further one), a chain of two additions on top of a list, a global behind a data
block. Nine entries make searches of up to four probes that end left, right and
between. One import is weak and missing, one name is resolved in no program and
one is not in the table. Two threads are enough for one to read a cache that the
other is about to write. The database suits the programs (`Suits`, which lists
what the code needs for its answers to be right; that no entry refers to one
that is found at address 0 was missing from it until a proof failed). Weak fairness of each thread's lookup: the code of a lookup waits
for nothing. Deadlock is not checked: the process may end, and when all names
are looked up nothing is left to do.

*backup.* Addresses of 16 bits: adr reaches 64 bytes, a branch 512, adrp 63 pages
of 32 bytes. The placements put the site just inside and just outside each
reach of the backup and of the hook, before and behind, and so far away that
all four quarters of the address differ. The instructions are of every kind that is
treated apart, with offsets to either side. 5 and 25 are the values of the code
for `TRAMPOLINE_LEVEL` 2. Registers are entered with values that are zero, zero in
one half, or not zero. The displaced code is such as `Suits` allows: no branch
into the displaced words themselves, which the code does not look for;
comparisons of X registers, and not of IP0, which the backup of a call may have changed;
and not only calls and branches, if there are five: without these the properties fail
(none of the 14 instructions compares IP0; the proof asked for that). Deadlock is not checked: the backup is made once.

*ipc.* Handle numbers and the identities of closed sessions are used again, so two
of each are enough for a stale handle to hit another session. Three places for
Services are a root, its subservice and one to move to; two threads use one
Service at once. Sizes of 1 and an `Unknown` of 2 stand for the 16-bit size and its
largest value, which means "not asked yet". Callers keep to what the classes
need: no Service is moved, converted or destroyed while another thread uses it,
a Service that owns a session outlives the others of the session, and what is
passed to `addInPointer` fits. Deadlock is not checked: the process may abort.

*rtld.* Two families: a module alone with every combination of absent, undefined,
common and defined for four names, in tables of 1 and 3 buckets, where hashes
collide in a bucket, in the filter and in all but the lowest bit; and the
linker with two modules, with or without addends of their own, whose entries of
each type refer to symbols that are defined in the other, in both or in none,
weak and hidden or not. Some images have memory that the walk does not accept.
Weak fairness of `Next`: start-up is a straight sequence of one thread. Deadlock is
not checked because it ends.

## What is proved

For every value of the constants, by TLAPS:

* `HookProofs`: `TypeCorrect` (of all behaviours), and, of the disciplined ones,
  `InstallStateIsTrue`, `CodeIsRestored`, `HooksTakeEffect` and `OrigRunsTheRight`. None of the
  properties is inductive. `IInv` adds that "installed before" orders the live
  hooks, that windows lie inside the module, and sees memory as a stack at each
  offset: memory holds what the topmost live hook there left
  (`MemoryIsTop`), and each hook has saved what the one below it left, or the
  original word (`SavedIsBelow`). Installing pushes, uninstalling the outermost
  hook pops. `OrigRunsTheRight` needs more (`OrigInv`): the live hooks are finitely many
  and in one order (`Chained`), and a live trampoline's backup has the words it saved
  (`BackupIsSaved`). From a trampoline the proof goes down the stack at each word of
  the hook under it: whatever else covers the word shows what it saved there
  (`TopShowsThrough`), which is found below it, and every step down is to a hook with
  fewer older ones. Assumption: `HookAssumption`, on the kinds and sizes.
* `SwitchFutexProofs`: `FutexTypeCorrect`, `FutexMutualExclusion`, `FutexWordIsTrue`, from a word that
  is taken iff exactly one thread is between its exchange and its store.
* `MutexProofs`: `MutexTypeCorrect`, `MutexExcludes` and `MutexLosesNoWaiter`, of every
  interleaving of any number of threads, move assignments included. `MutexInv` says
  always that the word is well formed and that a set monitor means that what its
  thread loaded is still the word's value (`WordInv`), and that the queue
  has each sleeper once (`QueueInv`). Until a write goes past the exclusive accesses it
  says that who is behind its exclusive store is named by the word
  (`OwnerInv`: `HoldersOwn`, `OwnsSeen`), that the word is not in the name of a thread that is about to call
  `svcArbitrateUnlock` (`WakersLeft`), and for whom each sleeper waits (`Due`). Assumption:
  `MutexAssumption`, that 0 is no thread's handle.
* `BackupProofs`: `BackupTypeCorrect`, of all behaviours: no word and no literal is
  written outside of the arrays, whatever is displaced and wherever everything is.
  `LiteralsAreSafe`, of the suited behaviours and for `Capacity >= 4 * N + 5`, what
  level 2 has: no instruction is written over a literal. Here the assembling operators are
  not expanded: each emitter is shown to take at most a number of words (`Takes`: 1
  for a word, 2 for `adrp` and `add`, 3 for a literal, 4 for a branch, 5 for a
  conditional branch) and to harm no literal if one more is left, because literals
  lie behind what is left but for a word (`Behind`). `Roomy` then counts: four words an
  instruction, a fifth for a conditional branch, which comes last, and one back if
  some instruction is no branch.
  `SitesReachTheHook`, of all behaviours, and `BackupsRunTheOriginal`, of the suited ones and
  for the same capacity, say what the words do when they are run. Three layers lead there.
  Arithmetic: an address is a page and a rest or four quarters, a distance that fits
  comes back from its field (`FieldIs`, `PageIs`, `QuartersTell`), so what is assembled
  leads where it was meant to (`AdrIs`, `AdrpIs`, `MakeBIs`, `AheadIs`, and `MovedIs` for
  `movk`). Emitting: `Loads`, `Branches` and `Mirrors` say of what an operator
  adds to a buffer what it does in any words that hold it (`Carries`); `Leads` is
  execution of a number of steps, and `RunIs` says that `Run` ends where such steps leave
  the words. Simulation: `Sited` says that the site's words are the branch to
  the hook; `Mirrored` says of the backup so far that, from the same registers, it
  and the displaced words so far come to where they agree but for IP0, both behind
  what there is or both where a branch has taken them (`Tracks`). An instruction
  prolongs both (`TracksOn`), the branch back brings the backup to the end
  of the window (`TracksEnd`). That a literal is still what was put is `Roomy` again,
  which therefore counts a word more than `LiteralsSurvive` needs once the backup is made.
  Assumptions: `BackupAssumption`, `A64Assumption`; `WidthsAssumption`: fields are narrower than
  addresses; `LayoutAssumption`: places are aligned, the site and the backup do not
  overlap, the hook is not at the site and no displaced branch goes into the backup;
  `ContentsAssumption`: fields and registers hold what fits into them; and
  `PowersAssumption`, that 2^(m + n) = 2^m 2^n in the range of widths, of which the
  provers know nothing when the exponent is a parameter. TLC evaluates all of these.
* `ServiceProofs`: `ServiceTypeCorrect`, `ServiceHandleIsItsOwn`, `ServiceRequestsFit`,
  `ServiceRepliesFit` and `ServiceObjectsAreHeld`, for any number of threads, Services, handles and sessions (`ServiceAssumption`). A handle is closed by the
  last holder of its session; `IInv` adds that nobody can come to hold the session while
  that holder's destructor runs: a Service that is converted or released has one user
  (`ChangersAreAlone`), a released owner is the last of its session
  (`ReleasersAreLast`), a reply with a handle brings a session that no Service has
  (`DeliveryFresh`), each another one (`DeliveriesDiffer`), handles of different
  numbers are of different sessions (`OneHandleEach`), and what a thread wrote is in its
  message buffer until it is sent (`RequestWritten`), which decides whether a
  server answers with a handle or an object. The last three rest on `JInv`, which adds
  what `sf.h` knows of a session without asking: one Service at most is for all of it
  (`Alone`), and it is a domain exactly when its Services have objects, but
  for a conversion whose reply is not read yet (`Domains`); what a call has counted is the
  pointer buffer the server has (`SizesStand`, `Asked`), and what it reads is the reply
  to what it sent (`Answered`). `Objects` is `ObjectsAreHeld` without numbers.
  `~Service` sends twice: the second message is the reply to the first, which no
  server takes for a request, or goes to a session that was closed, so no
  object is given back twice (`SendAgainIs`).
* `ExpHeapProofs`, of disciplined clients, for any arenas, sizes and alignments:
  `BlocksAreSound`, `BlocksAreApart`, `NeighboursAreMerged`, `NothingIsAsserted`,
  `SizeAnsweredIsExact`, `LossesAreBounded` and `HeapIsAllocator`, the refinement of `Allocator`. The
  properties are inductive only together: that a freed region can be put into the list takes that
  the list is sorted with room between its blocks (`Spread`), that no free
  block comes to lie on a used one takes that both are apart (`OffAll`, `UsedApart`)
  with the paddings that go back with a block, and that a freed region has room for
  a block takes that paddings fit their seven bits. `HeapInv` says this of a heap,
  and each operator of `ExpHeap` is shown to make such a heap of one (`CoalesceIs`,
  `ConvertIs`, `GrowIs`, `ShrinkIs`, `AdjustedIs`) and what it does to the used blocks, which is
  all that the refinement needs (`Obtained`, `Replaced`, `Trimmed`). Lists are
  spliced: `Spliced` replaces a part of one, and each of its blocks is an old or a new one
  (`SplicedHas`). A search that chooses a block ends by well-foundedness of the numbers
  (`EarliestIs`). `LossesAreBounded` follows single addresses instead of adding up sizes: each
  operator either leaves the addresses that are in no block what they are (`Keeps`:
  freeing, resizing in place) or adds fewer than 128, all of one remainder, while it
  makes a block at a new address (`Drops`); a block that is moved does one after the other.
  That a sum of a size does not wrap around is shown from `ProperRequest` (`ProperIs`,
  `OffsetIs`) wherever the code makes one.
  Assumptions (`ExpHeapAssumption`): `SizeMod` is a multiple of 4 as 2^64 is, and an address of
  an arena, rounded up to an alignment, is below it.
* `RtldProofs`: `SymbolsAreFound`, `ModulesAreLinked`, `InitializersAreOrdered`, for any
  number of modules with any symbols, tables and entries that meet
  `ModuleAssumption`. A lookup walks a chain; that it finds a symbol that is there
  and no other rests on `IsLinked` alone. `IInv` adds where the cursor stands in
  each phase (`CursorInv`), that the circular list has the loaded modules in the
  order found (`ListInv`), and what each slot holds: its image's word, what
  the first pass makes of it, or its final value (`MemInv`); so none is
  relocated twice. "The first" along a chain or the list is taken as the least
  of a set of numbers, by well-foundedness, which needs no induction theorem with
  an operator for a parameter.
* `SailProofs`: `SailTypeCorrect`, of all behaviours, and, of those with a database that suits
  the program, `AnswersAreTheLanguages`, `CachesAreRight` and `HaltsAreJustified`, for any
  database (`TableAssumption`, `MeaningAssumption`), list of modules, program
  and number of threads. `IInv` says of each call of `apply` on a thread's stack what
  it was called for by the one below it (`Link`), what its source has
  given it (`Inner`), which candidates were tried in vain (`Tried`), and that the
  lowest call is of the entry looked up (`Bottom`). A call that must not end
  the process is of a candidate or of an entry with a meaning; if one that may
  end it has no meaning, neither has the name looked up. Every way to
  leave `apply` (`Outcome`) then either is a justified end of the process or returns
  the entry's meaning. `RangeOK` is the binary search's own: the name is
  between the bounds if it is in the table at all. `LoadInv` says which versions
  have been found so far. The caches need no order between threads, as
  whoever writes one writes the meaning.

Only model-checked: liveness (`EventuallyFree`, `SomebodyGetsIt`, `WaitersAreServed`,
`EveryLookupEnds`, `Ends`), which is beyond the prover. Every other property of a
passing run is a theorem.

## Defects the models show

* Without a run of its own (`Suits` excludes it): a displaced `cbz`/`cbnz` of a W register is assembled anew for the X
  register: the backup tests 64 bits where the original tested 32.
* Without a run of its own (`Hook` shows it when `DisciplinedNext` does not exclude a
  second install): a trampoline makes its backup before it finds that it is
  installed already: installing twice makes `orig` call the hook itself.
* Likewise, a trampoline's backup returns behind the words its own branch has
  displaced: a longer hook installed at the same site later lies there, and `orig`
  runs into the middle of it. The proof of `OrigRunsTheRight` failed without
  `ReturnsBehind`; the run shows it when the property leaves that condition out.
* Likewise without a run (`DisciplinedNext` excludes it): `reallocate(p, 0)` shrinks `p` to a bare header, takes that for
  a failure, allocates a block right behind it and frees `p`: its 32 bytes can
  be no free block and have no free neighbour, and the assertion in
  `FreeToExpHeap` fails.
* *futex_panic.* `with_lock` waits with timeout 0 for the word to stop being
  idle; if it was released just before, the wait times out and the thread
  panics.
* *static_guard.* The flag is not read again after the lock: two threads that
  come together both run the initializer.
* *sail_older.* A data block for versions older than one is not searched for in
  any version: the case of "older" has no `break` and goes on to that of "from".
* Of Sail, without runs of their own: the search stops one place short of a
  section's end; a candidate that is a data block with an offset and is not
  there resolves to the offset; an entry whose source is a data block of another
  version gets an uninitialized value and caches it; a candidate in a
  module that is not loaded ends the process though others might resolve. `Suits`
  excludes these.
* Of backups: five displaced calls or branches that each need a literal do not fit
  into the 25 words, and the last word is written over a literal (a literal's
  place is a word off the place its bookkeeping frees, Assembler.h:1260, :1266); a
  conditional branch can be assembled forwards only, because its distance is
  divided as an unsigned number (:384); a branch into the displaced words lands
  in the hook's branch; loads of literals into other than X and W registers are copied
  as they are (Instrs.h:108). `readADRPGlobal` (InstrUtil.h:57-63), which Sail uses, does
  not extend the sign: a page before the instruction is taken for one 4 GiB
  further on.
* Of IPC: Services from `fromHandle` and `getServiceHandle` do not own their session,
  which is never closed; the destructor of a Service whose server is gone aborts if the
  Service was never used (sf.cpp:13); the destructor sends its message twice (the
  second time the server's reply or, for a session that is being closed, the
  request again, which the model shows to be harmless); two threads that
  initialize the logger at once open two sessions; debug printing through
  the IPC logger overwrites the message it prints.
* Of the linker: a symbol that nobody defines is left as it is without a word, also if
  it is weak with default visibility; a table of no buckets is read out of bounds.
* *mutex_window.* `Mutex::unlock` clears the word before it asks the kernel to hand
  the mutex over. A thread that locks in between is overrun by the kernel's write, and
  two threads hold the mutex. Two threads are enough: one announces that it waits, the
  other unlocks, the first finds the word cleared and takes it, and the kernel, which finds
  nobody asleep, clears it again. `MutexExcludes` says that nothing else but
  a move assignment leads there.
* Without a run of its own (`DisciplinedNext` excludes it): the heap's searches for a free
  block add what alignment costs to the size in `size_t`. A request close to 2^64 wraps
  around, is granted by any block, and the free block that is left behind it lies on the
  new block's header.
* Without a run, as nothing written contradicts it: `Mutex::Lock`'s move assignment assigns
  the mutex, not the reference: after unlocking it copies the other mutex's word over
  this one, which may name a thread that never unlocks this mutex, or clear the word under its holder.

## Not modelled

* `os::Event` stores exclusively without having loaded exclusively, which the
  architecture leaves unpredictable; `os::Thread` and `os::SystemEvent` hold handles
  and a stack and wait for nothing. Their hazards are listed.
* The parser of assembler text in `Assembler.h`, which runs at compile time, and
  encodings that do not depend on an instruction's place.
* Headers of messages to the byte, receiving through pointers (which the code counts
  and does not write), and what each service client puts into its requests.
* The Sail compiler's reading and writing of text.
* `MapUtil`'s search for free addresses, made once at start-up.
* Bindings and tables of constants, which are most of the repository's lines
  (`elf.h`, `nvn*.h`, `svc`), assembler stubs, formatting, graphics, file
  converters and build scripts: their errors show at once or lie in data
  formats rather than in states and their order.
