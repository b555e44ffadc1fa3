# Andix OS in TLA+

Andix is a TrustZone operating system: a secure kernel with its trustlets (user
processes of the secure world) beside a normal-world Linux, which reaches it
through a kernel driver, a client library and a service daemon.  This directory
models the path of a TEE call through both worlds, the tables and pages each
part keeps for it, the encrypted files and the trustlets that use them, and the
memory of the secure kernel from the boot to the heaps of its processes.  TLC
checks the models; TLAPS proves, for every number of clients, trustlets, pages or
files, the safety of the secure kernel, that a client which calls alone gets its
own answers, that the handles of a client mean in both worlds what it opened, that
an encrypted file is a sequence of bytes to trustlets that write it carefully, and
the main safety properties of the division of the memory at boot, the page
allocators and their loops, the kernel heap, the kernel's mappings and interrupts,
lent memory, file descriptors, the trustlets' keys, the client library, the mailbox
and the driver's pages.

Paths below are relative to the repository's `src/`; `K` is
`src/trusted/kernelspace/kernel`, `NK` is `src/normal/kernelspace`, `NU` is
`src/normal/userspace`.

## 1. Inventory

| Part | State | Operations | Talks to |
|---|---|---|---|
| scheduler (`K/kernel/scheduler.c`) | current thread, thread states, thread list | add, yield, switch | every kernel thread, through secure monitor calls |
| monitor (`K/monitor/monitor.c`) | the three windows `package`, `tee_mem`, `com_mem` | SMC_PROCESS_TMEM, SMC_PROCESS_CMEM; SSC_TASK_SWITCH, SSC_TASK_SCHEDULE, SSC_NONS_SERVICE | scheduler, page allocators, driver |
| TEE task (`K/task/tee_task.c`) | pointer and copy of the request, handle tables | one per TEE operation | monitor window, trustlets |
| trustlet interface (`K/swi/swi_secure.c`, `libtrustlet/ta_interface.c`) | `tee_rpc`, the TA_RPC, lent memory | take a request, answer it | TEE task, memory managers |
| service task and queue (`K/task/service_task.c`, `K/common/queue.c`) | queue, current request, `ready` | request, process, reply | trustlets, monitor |
| main task (`K/kernel/main_task.c`) | boot progress | create the threads, start the normal world | scheduler |
| page allocators (`K/mm/{pmm,mmm,smm,umm}.c`) | a bitmap each | allocate, allocate aligned, free | monitor, trustlet interface, loader |
| kernel heap (`K/mm/mm.c`, `K/mm/vmm.c`) | chain of blocks | kmalloc, kmalloc_align, kfree | everything in the kernel |
| kernel mappings (`K/mm/mm.c`, `K/mm/mmu.c`) | second level tables, TLB | map_phys_mem, map_io_mem, unmap_memory | monitor, drivers, loaders |
| memory division (`K/mm/vmm.c`, `pmm.c`, `imx_m4if.c`, `atags.c`) | areas, watermark, the guest's tags | the steps of the boot, mon_DA | boot loader, guest |
| user processes (`K/task/user_process.c`, `K/kernel/loader.c`, `K/swi/swi_newlib.c`) | page directory, heap end, list of file handles | load, sbrk, open, close, ... | page allocators, file system |
| handle tables (`K/tee`) | contexts, sessions, shared memory | one per TEE operation | TEE task |
| interrupts (`interrupt_controller.c`, `imx_tzic.c`) | handler table, controller registers | register, free, handle | monitor, devices |
| driver (`NK/tz_application_mod`) | pages of each call, tables of contexts, sessions, memory | ioctl for clients and daemon | monitor, mailbox |
| control mailbox (`ctrl_mem.c`) | `pending`, `ctrlspace` | push and poll from both sides | driver, daemon |
| service daemon (`NU/tz_service_daemon`) | its copy of a request, open files | dispatch | mailbox, file system |
| client library and programs (`NU/tz_application_library`, ...) | one communication page, a mutex | TEEC_* | driver |
| encrypted file system (`K/fs`) | open handles | open, read, write, seek, stat, remove | service task |
| trustlets (`rsa_trustlet`, `sample_trustlet`) | key files, a key context per session | create, load and use a key | file system, client programs |

`PROJECT.json` lists these and the parts below them, with what is left out of
each, and, as hazards, the places where the code is hard to test.

How a call goes: a client's ioctl (`tee_process`) fills a package, a TEE page
and a control page and makes SMC_PROCESS_TMEM.  The monitor maps the three pages
and switches to the TEE task, which copies the request, hands it to a trustlet
through `tee_rpc` and switches there.  The trustlet may ask for file operations:
it queues a request, the service task copies it to the control window and
returns to the normal world with CTRL_STRUCT.  The client, still inside its
ioctl, puts the control page into the mailbox; the daemon polls it, performs the
operation, pushes the response; the client makes SMC_PROCESS_CMEM, the service
task copies the response back and the trustlet goes on.  At the end the TEE task
writes the answer through its pointer to the window and returns with TEE_STRUCT.

What is hard about it:

* the windows are unmapped and mapped again between the steps of one call, and
  threads keep pointers into them;
* the secure world is cooperative and single-threaded but its "idle" part, the
  normal world, is concurrent: any process may enter at any of its returns, and
  the driver takes no lock;
* requests live on stacks of threads that wait for them; a queue drops elements;
* the mailbox silently ignores a page when it is busy;
* the driver translates handles in hooks before and after the secure world, and
  other processes change its tables in between;
* a file is written block by block through requests that may fail, be cut short
  or be answered by a daemon that was restarted since;
* processes, the daemon and the machine may stop at any point, and what they leave
  locked, allocated or half written is met by somebody else;
* allocators work on bitmaps and headers where an error shows up only after long
  sequences of calls.

## 2. Modules

| Module | Models |
|---|---|
| `Scheduler` | thread states, the ready list, `yield`, `switch_to_thread` |
| `Monitor` | the windows, their slots (`mmm`), the monitor calls; what a page holds |
| `SecureWorld` | main task, TEE task, trustlets, service task, service queue |
| `Andix` | clients in the driver, mailbox and daemon over `SecureWorld`; the properties |
| `RemoteCall` | abstract specification: a call is executed once, then answered |
| `AndixInv`, `AndixProofs` | the inductive invariant and its proof |
| `SingleClientProofs` | what holds of a call with one client, and that it implements `RemoteCall` step by step |
| `MCAndix` | boot orders for TLC |
| `PageBitmap` | first fit, and the loops that compute it |
| `PageAllocator` | a page allocator and its users |
| `TaskMemory` | memory lent to trustlets for the parameters of a call |
| `KernelHeap` | kmalloc, kmalloc_align, kfree on the words of the heap |
| `KernelMappings` | regions mapped into the kernel, second level tables, the TLB |
| `BootMemory` | the division of the memory between the worlds and its protection |
| `UserSpace` | image, thread-local data, stack and heap of a trustlet |
| `LockedList`, `FileHandles` | `locked_list.c`, and the file handles of a process in it |
| `StoredFile` | abstract specification: a file is a sequence of bytes |
| `CryptoFs` | the encrypted file system, the daemon's files, the file system calls |
| `RsaTrustlet` | the RSA trustlet and its OpenSSL engine, over `CryptoFs` |
| `SampleTrustlet` | the sample trustlet with its keys under a PIN, and the encrypter |
| `TeeTables` | the handle tables of the secure world |
| `DriverTables` | the driver's tables and its pre and post hooks, over `TeeTables` |
| `Pointers` | the null pointer, for the modules that share it |
| `TeeClient` | processes with their contexts, sessions and memories, over both |
| `ClientLib` | threads of a process in the client library |
| `CtrlMailbox` | the mailbox with failing copies and a daemon that dies |
| `DriverPages` | the pages of a call in the driver |
| `Interrupts` | the interrupt layer and the interrupt controller |
| `KernelParts` | `KernelMappings`, `BootMemory` and `Interrupts` side by side, and their properties |
| `MCKernel` | one run for `PageAllocator`, `KernelHeap`, `KernelMappings`, `BootMemory`, `Interrupts` |
| `MCProcess` | one run for `TaskMemory`, `UserSpace`, `FileHandles` |
| `TrustletParts` | `RsaTrustlet` and `SampleTrustlet` side by side |
| `MCTrustlets` | one run for `RsaTrustlet`, `SampleTrustlet` and `CryptoFs` with a restarted daemon |
| `NormalWorld` | `ClientLib`, `CtrlMailbox`, `DriverPages` side by side, and their properties |
| `MCNormalWorld` | the same, with a part more, for the run with faults |
| `NormalWorldProofs` | proofs about `ClientLib`, `CtrlMailbox`, `DriverPages` |
| `KernelProofs` | proofs about `Interrupts`, `KernelMappings`, `BootMemory` |
| `MemoryProofs` | proofs about `PageAllocator`, the loops of `PageBitmap`, and `KernelHeap` |
| `ProcessProofs` | proofs about `TaskMemory` and `FileHandles` |
| `CryptoFsProofs` | proofs about `CryptoFs`, its refinement of `StoredFile`, `RsaTrustlet`, `SampleTrustlet` |
| `TeeClientProofs` | proofs about `TeeClient` and the tables under it |

`Scheduler` <- `Monitor` <- `SecureWorld` <- `Andix` extend one another: each
layer's actions are whole stretches of code from one monitor call to the next,
the effect of the call included, because nothing else runs on the CPU meanwhile
(secure threads run with interrupts masked, `thread.c:39`, and the interrupt
handlers switch no thread).
A thread's `pc` names the call it will return from.  In the normal world one
action is the stretch between two points where another process may run: the
monitor calls, the mailbox operations (under `ctrl_mutex`) and the ioctl's ends.

Data is abstracted to what can go wrong with it.  A request is named by its
client and a bit that flips from call to call; an answer is named by the request
it was computed from, so an answer mixed up between calls is visible.  Control
requests are named likewise by trustlet and bit.  `op` distinguishes the requests
the TEE task handles itself ("local"), those a trustlet answers ("call") and
closing a session ("close"), for which the trustlet sets no result.  Whether
an operation fails is a nondeterministic choice.  `panic` stands for a data abort or
DEBUG_STOP of the secure kernel: it is set where the code would follow a NULL or
wrong window pointer.  Each of the three windows takes one slot (each structure
is smaller than a page and page-aligned).  The kernel is built with `-DDEBUG`, so
a pointer followed only to print it counts.

`KernelHeap` keeps the heap as words, since the point is what a header field is
when an old header, a new header and data overlap.  It starts after `pmm_init`'s
first allocation, which is never freed; the block before an aligned one
therefore always exists.  Sizes are multiples of a word.

`TaskMemory` scales a page down to PAGE_SIZE = 2 bytes, which keeps what
matters: a size below a page, of exactly one page, and above.

The other modules look at one part each and take the parts around it for what
`Andix` shows them to be with one client, or for something weaker:

* `CryptoFs` makes one action of each round of requests to the daemon (a block
  read or written), since a failure or a restart can fall between two rounds.  A
  byte is named by file, position and version; a block decrypts only under the
  key and the number it was written with, anything else is a bad block.
  `tz_fs_write_cut` is a write of which only a part reached the disk.  What a file
  holds for `StoredFile` is defined position by position (`FileSize`, `ByteAt`): the
  block of the position if it can be verified, lost bytes otherwise.
* `RsaTrustlet` extends it: a key is a row of lines, each a write of its own.
* `TeeTables`, `DriverTables` and `TeeClient` abstract a call to its handles: a
  call is pre hook, secure world, post hook, and each step of each process
  interleaves with the others'.  Identifiers are drawn at random until one is
  unused; the model takes the next unused number, so that a number is not used
  again, as the real ones are not for all practical lengths of time.  A
  search of an empty table returns an unassigned variable; `Wild` is what the
  build makes of it, NULL or something else.  A table is a set whose entries carry
  the number of their structure; new entries go to the end of the driver's lists, so
  the first match of a search is the one with the lowest number.
* `ClientLib` has one action per step of a function between two points where
  another thread can run.  What is below the ioctl answers, refuses or fails.
* `DriverPages` splits the end of `tee_process` at the points `Andix` keeps in one
  step, and adds other users of the page allocator.
* `FileHandles` takes the list of handles node by node; `others` is TRUE in the
  behaviours in which other users of the kernel heap may be given a freed block and
  put anything into it.
* `UserSpace` keeps the bytes of the pages.  malloc is external: it asks sbrk for
  memory and gives the top back, as newlib's `mallocr.c` does.
* `Interrupts` has the controller's registers as the driver uses them.  A source
  asserts its line until it is served.
* `BootMemory` scales addresses down so that 256 MB, half a chip select, are 16
  bytes, a page 2 bytes and a word of the bitmap 2 pages, with the addresses of
  the i.MX53 board (with a memory controller) and the Versatile Express (without).
* `KernelMappings` takes every physical address for the start of a page, as those
  of all callers are.  `Andix` has no TLB: it shows what holds if translations
  are as the tables say.

## 3. Runs

| Run | Question | Result |
|---|---|---|
| `single_client` | One client, two trustlets, two file operations per call, five slots | 35,550 states; all properties hold |
| `racing_clients` | Two clients in the driver at once, one trustlet, four slots | 695,248 states; the inductive invariant holds, and with it the kernel's own safety |
| `unlocked_driver` | Does a client get its own answer when two race? | No (section 4) |
| `kernel` | The secure kernel's memory and interrupts (`MCKernel`) | 216,428 states; holds |
| `heap_overlap` | The heap with blocks freed in any order | Allocated memory is handed out again after eight calls (section 4) |
| `process` | Lent memory, address space and file handles of trustlets (`MCProcess`) | 1,256,092 states; holds |
| `careful_files` | Files appended to, or overwritten up to the end of a block; failures, cut blocks, loss of power | 151,244 states; implements `StoredFile`, descriptors paired |
| `trustlets` | The keys of the trustlets, and files while the daemon is restarted (`MCTrustlets`) | 2,209,003 states; holds |
| `handles` | Two processes with one context each, their calls interleaved in the driver | 5,673,143 states; contexts and sessions work, nothing is left behind |
| `handles_faulty` | Two contexts, shortage, failing copies, ended processes, wild pointers | 652,280 states; what is executed is executed in its own session on its own memory |
| `normal_world` | Library, mailbox and pages of a call without faults (`NormalWorld`) | 140,732 states; every call returns with its own answer |
| `normal_world_faulty` | The same with every fault (`MCNormalWorld`) | 8.7 million states; no handle, file operation or page goes to two |

The properties of `single_client`: `OneRunning`, `WindowsFollowWorld`, `NoPanic`
(the kernel), `PointersFresh` (pointers kept across a return to the normal
world), `AnswerIntegrity`, `ServiceInOrder` (each call and each file operation gets
its own answer), `BootOnce`, `RequestsServed` (liveness), and
`ImplementsRemoteCall` (refinement of `RemoteCall`, with its fairness).  With two
clients `PointersFresh`, `AnswerIntegrity`, `ServiceInOrder` and the refinement no
longer hold: this is what the lock that the driver's TODO comments ask for is
needed for.  `unlocked_driver` states the one a
user would notice.

`NormalWorld` and the MC modules put components that share no variable into one run.  Each has a
variable `part` that never changes and says which component moves while the
others stay in an initial state; every property is about the variables of one
part, in an initial state or moving.
A behaviour of all of them together is an interleaving of their behaviours, and
what a property sees of it is a behaviour of its own part, with stuttering: so
nothing is lost by letting one part move at a time.  Fairness is asked of the part
that moves.  Where one component is looked at with different bounds, each set of
bounds is a part of its own:

* `MCKernel`: "pages", "heap", "mappings" (regions of one to three pages until the
  slots are used up; `single` is TRUE in behaviours with a guest of less than a page
  and no temporary references, where a region that is unmapped has one page),
  "memory" (every list of banks on two boards), "interrupts" (handlers registered
  and freed).
* `MCProcess`: "lent" (references of one byte and of a page and a half; `small` is
  TRUE in behaviours with references of less than a page), "space", "handles" (`others` is
  TRUE in behaviours in which other users of the heap fill the blocks with anything).
* `MCTrustlets`: "rsa" (two engine objects, two keys of one length, failures and
  loss of power), "sample" (two key numbers and two PINs, keys replaced, writes
  lost), "restarts" (a file removed and created again, two descriptors, writes
  anywhere, the daemon restarted at any time).
* `NormalWorld`: "library", "mailbox", "pages" (memory for two calls); `MCNormalWorld`
  adds "crowded" (less memory, which the rest of the kernel takes and returns).  The two
  configurations say which faults happen: in `normal_world` contexts and
  registrations are never refused, copies and ioctls succeed, one process calls;
  in `normal_world_faulty` nothing is excluded.

Deadlock is checked in the runs of `Andix`, of `CryptoFs` and of the trustlets.
The others really may stop: a panic ends the boot or a trustlet, a process or a
thread ends, a mutex stays locked (section 4, and stated by the liveness
properties), or the bound on the number of calls is reached.

Bounds.  Two trustlets are enough for a session to go to one while the other
waits with an old `tee_rpc`; two file operations per call make the mailbox and
the request bit come round; five slots let two mappings leak (`MapTemporary`)
and the slots run full; call bits let any number of calls follow one another.
Three bitmap words have a first, a middle and a last word, blocks of five pages
span three.  The heap holds up to four live blocks, and remainders of a split
both above and below the size of a header.

* `CryptoFs`: blocks of two bytes and positions up to `MAX_POS` = 5 give a first,
  a full middle and a short last block; two versions tell old bytes from new.
  The part "restarts" has two inodes so that a descriptor can come to mean another
  file.  The key of `RsaTrustlet` has `PARTS` = 3 numbers: a first, a middle and
  a last write to fail.
* `SampleTrustlet`: `TRIES` = 3 as in the program; `MAX_KEYS` lets each number's
  key be replaced.
* `TeeClient`: one call at a time in each process, as the library's mutex has it;
  `MAX_IDS` bounds the numbers drawn and so the calls that create something.
* `ClientLib`: three threads contend for the mutex with one call each (`MAX_CALLS`),
  two threads make two calls each, so that an answer can be left for a later call.
* `CtrlMailbox`: `MAX_REQUESTS` 20 is beyond any period of the four states.
* `DriverPages`: six pages are two calls of three, whose copies of the control page
  then fail; with four, the second call fails half way.
* `FileHandles`: nodes are numbered in the order of allocation (a freed one is not
  needed again, since all that matters of it is its data), four of them for three
  blocks that are reused.
* `UserSpace`: pages of four bytes, words of two; `EARLY_CHUNKS` is how often the
  start-up code calls malloc before main; requests of less than a page, more than
  a page, and more than there is.
* `Interrupts`: `MAX_IRQ` 4 in registers of `BITS` 2: two registers, in each one
  interrupt of either world beside another.
* `KernelMappings`: `SLOTS` 13 in tables of four; regions of a payload end in the
  middle of a table; `TLB_ENTRIES` 1 with arbitrary eviction; `MAX_TEMPS`
  references mapped at a time.

Fairness.  `Andix!FairSpec`: weak fairness of the secure world as a whole, of each
client inside the driver and of the daemon.  The secure world has one CPU, which
does not stop there as long as a trustlet's code between two system calls ends;
the normal world's scheduler runs every runnable process, and a client waits for
the daemon by `schedule()`, not by blocking it.  Starting a call is not fair.
`ClientLib`: weak fairness of each thread inside a call; each makes a bounded
number of calls, so no thread can be overtaken for ever.  `CtrlMailbox`: weak
fairness of the waiting client, strong fairness of the daemon's three steps: the client
takes and releases `ctrl_mutex` again and again, and a Linux mutex serves its
waiters in turn.  Dying and restarting are not fair.  `Interrupts`: weak fairness of
the processor taking a FIQ and of the handlers returning, and of a call of the
interrupt layer that has begun; devices raise what they like.

## 4. Findings and observations

Two disagreements between the code and what the repository says of it have a run
of their own; `PROJECT.json` quotes the lines.

1. `tz_file_ops.c:80`: the driver's missing mutex.  A second client that enters
   while the first waits for the daemon resumes the TEE task in the middle of the
   first client's call; the first client's request ends up in the second one's page.
   (`unlocked_driver`)
2. `vmm.c:457`: `prepareBestBlock` finds the next block without the header's size;
   that block keeps a stale `prev_size`, which `kfree` later follows.
   (`heap_overlap`)

The other modules state properties their code does not have in general.  The
passing runs are bounded to the uses for which they hold, or leave out the fault
that breaks them; the table says for each which constants of its module make TLC
violate it.

| Where | What | Property | Constants |
|---|---|---|---|
| `umm.c:187` | `unmap_mem_from_task` unmaps the first page of a block over and over; one page suffices to leave a mapping of a freed page | `TaskMemory!NoStaleMapping` | `Sizes` {1, 2} |
| `umm.c:142` | nothing returns the frames of a process's mappable area | `TaskMemory!FramesReturned` | as in `Process.cfg` |
| `fs.c:444` | a write inside a block sets its byte count to the end of the write, and a block that is not full ends the file | `CryptoFs!ShortBlockIsLast` | `FileCareful.cfg` with `Careful` FALSE |
| `rsa_trustlet/main.c:56` | a key file is not truncated; a shorter key over a longer one cannot be loaded | `RsaTrustlet!CreatedKeyLoads` | `LineLength` 2 and 1 |
| `rsa_trustlet/main.c:138` | a load that fails leaves a context that counts as loaded | `RsaTrustlet!UsedKeyWhole` | `AnyClient` TRUE |
| `sample_trustlet/main.c:206` | the IV is changed by the first try: the right PIN is refused after a wrong one | `SampleTrustlet!RightPinAccepted` | as in `MCTrustlets` |
| `sample_trustlet/main.c:152` | the result of the write of a new key is ignored | `SampleTrustlet!NewKeyStored` | as in `MCTrustlets` |
| `tee_context.c:74` (driver) | all contexts of a process have one identifier | `TeeClient!OpenSessionWorks` | one process, two `Contexts` |
| `tee_operations.c:66` | a context the secure world refused is entered all the same | `TeeClient!ContextKnown` | `Shortage` TRUE |
| `tz_file_ops.c:62` | the contexts of an ended process are searched by a field nothing sets | `TeeClient!NothingLeftBehind` | `Exits` TRUE |
| `tee_memory.c:148` (driver) | the search of an empty table returns an unassigned variable | `TeeClient!NoWildPointer` | `Wild` a model value |
| `tee_operations.c:328` | a failed copy leaves temporary memory in the driver | `TeeClient!TemporariesReturned` | `Faults` TRUE |
| `tz_application_library/main.c:60` | an error return without `unlockComm` | `ClientLib!CallsReturn` | "init" in `Refused` |
| `main.c:57` | the result of the ioctl is ignored | `ClientLib!AnswerDelivered` | `Ioctls` FALSE |
| `main.c:235` | the result of a void function is tested | `ClientLib!AnswerDelivered` | "garbage" in `Returns` |
| `main.c:245` | the origin is read from the wrong member of the union | `ClientLib!OriginDelivered` | `MAX_CALLS` 2 |
| `ctrl_mem.c:73` | a failed copy returns with `ctrl_mutex` locked | `CtrlMailbox!WaiterServed` | `Copies` FALSE |
| `ctrl_mem.c:67` | a request the dead daemon had taken is never served | `CtrlMailbox!WaiterServed` | `Crashes` TRUE |
| `tee_logic.c:329` | the answer is copied from a page that is already freed | `DriverPages!AnswerReachesCaller` | two `Callers` |
| `tee_logic.c:332` | the page of the package is never freed | `DriverPages!PagesReturned` | any |
| `tee_logic.c:136` | a failed allocation is not noticed | `DriverPages!SharedPageOwn` | four `Pages`, `Others` TRUE |
| `locked_list.c:33` | the first element of a list is never found | `FileHandles!ClosedIsClosed` | any |
| `user_process.c:198` | descriptors are looked up in freed handles too | `FileHandles!OpenLeads` | as in `Process.cfg`, `others` TRUE |
| `locked_list.c:97` | a removed node is not freed | `FileHandles!NodesReturned` | any |
| `swi_newlib.c:318` | a heap that was made smaller cannot grow again | `UserSpace!PanicOnlyWhenFull` | `TRIM_THRESHOLD` 8 |
| `loader.c:171` | the last bytes of a segment of odd size are not copied | `UserSpace!ImageLoaded` | an image with `filesz` 3 |
| `loader.c:181` | uninitialised thread-local data is copied from behind the template | `UserSpace!TlsInitialised` | an image with `tls.memsz` above `tls.filesz` |
| `imx_tzic.c:309` | after an interrupt is released the controller stays off | `Interrupts!RaisedIsServed` | `MayFree` TRUE |
| `imx_tzic.c:170` | interrupts are disabled through the register that enables them | `Interrupts!FreedIsDisabled` | `MayFree` TRUE |
| `pmm.c:195` | no address is ever found to be protected | `BootMemory!ProtectedAccessStops` | as in `Kernel.cfg` |
| `imx_m4if.c:148` | the lock may take a page of the normal world | `BootMemory!GuestMayUse` | the kernel's bank of half the size, another adjacent |
| `imx_m4if.c:80` | an area that ends at the border of a chip select is refused | `BootMemory!SecureAreaFits` | as in `Kernel.cfg` |
| `mm.c:301` | `unmap_memory` unmaps one page of a region | `KernelMappings!SlotsReturned` | as in `Kernel.cfg`, `single` FALSE |
| `mmu.c:485` | unmapping leaves the translation in the TLB | `KernelMappings!WindowsShown` | as in `Kernel.cfg` |
| `mmu.c:152` | the world of a page is that of the first page of its megabyte | `KernelMappings!WorldAsAsked` | as in `Kernel.cfg` |

Met while modelling and not stated as a property: `pmm_allocate_aligned_pages` never finds a block of one page;
`map_mem_to_task` maps all frames of a block to its first physical page;
`close session` returns whatever the caller left in `ret`; `queue_put` allocates
four bytes for an element of eight; `map_kernel_sections` would miss the last page
of a region that starts inside a page and crosses one more, which no caller asks
for; the temporary parameters of an open session are never returned by the driver.

## 5. Proofs

A theorem holds for every value of the constants under the assumptions named
with it.  Those of `Andix` are: threads, clients, slots and NULL are distinct;
there are at least three slots; every trustlet is started at boot.

| Module | Theorem | Property | Assumed beside the constants' types |
|---|---|---|---|
| `AndixProofs` | `Invariance`, `TypeCorrect` | `IInv`, `TypeOK` | |
| | `OneRunningThread` | `OneRunning` | |
| | `WindowsInStep` | `WindowsFollowWorld` | |
| | `NeverPanics` | `NoPanic` | |
| `SingleClientProofs` | `PointersStayFresh` | `PointersFresh` | one client |
| | `AnswersIntact` | `AnswerIntegrity` | one client |
| | `ServiceStaysInOrder` | `ServiceInOrder` | one client |
| | `ImplementsCallSteps` | the steps of `ImplementsRemoteCall` | one client |
| | `BootsOnce` | `BootOnce` | |
| `NormalWorldProofs` | `HandlesOwn` | `HandleOwn` | |
| | `AnswersDelivered` | `AnswerDelivered` | no ioctl fails, `postProcessParameters` leaves TEEC_SUCCESS |
| | `RequestsExecutedOnce` | `ExecutedOnce` | |
| | `PagesHeld` | `HeldPagesOwn` | |
| | `AnswersReachCaller`, `SharedPagesOwn` | `AnswerReachesCaller` | one caller; for the second also enough pages |
| `KernelProofs` | `SourcesStayApart` | `SourcesApart` | |
| | `RegionsStayShown` | `RegionsShown` | |
| | `MemoryStaysDivided` | `MemoryDivided` | the guest is loaded into a bank, outside the secure part (`GuestPlaced`) |
| | `SecureStaysLocked` | `SecureLocked` | no bank begins where a kernel's bank ends that is secure as a whole (`NoNeighbour`) |
| `MemoryProofs` | `PagesConserved`, `PagesNeverShared` | `Conserved`, `NoDoubleAllocation` | |
| | `LoopsFindFirst` | `LoopsComputeFirstFit` | |
| | `HeapSoundHolds` | `HeapSound` | blocks are freed in the reverse order of allocation (`StackOrder`) |
| `ProcessProofs` | `LentStaysBacked` | `LentIsBacked` | |
| | `FdMeansFileHolds` | `FdMeansFile` | |
| `CryptoFsProofs` | `HandlesStayPaired` | `DescriptorsPaired` | the daemon is not restarted |
| | `ReadsStayAuthentic` | `Authentic` | |
| | `FilesImplementStore` | `ImplementsStoredFile` | trustlets append, or overwrite up to the end of a block (`Careful`); the daemon is not restarted |
| | `ObjectKeyHolds` | `ObjectKeyMatches` | |
| | `KeysStayUnderPin` | `KeysUnderPin` | |
| `TeeClientProofs` | `HandleInvariant` | `HandleInv` | |
| | `ServedByOwnHolds` | `ServedByOwn` | |
| | `WorkInvariant` | `WorkInv` | enough memory, copies succeed, processes end after their calls, one context each (`Careful`) |
| | `SessionsWorkHolds` | `SessionsWork` | `Careful` |
| | `NothingKeptHolds` | `NothingKept` | `Careful` |

Where an assumption excludes a case, section 4 has the constants with which TLC
shows that the property then fails: the assumptions are the borders of what the
code guarantees.  The constants' types are what the modules assume by name and TLC
evaluates in every run: processes are identifiers above zero (`TablesAssumption`),
NULL and `Wild` are no entry of a table (`ClientAssumption`), a heap has room for two
headers and the block of the boot, and its requests are whole words (`HeapAssumption`),
list nodes are numbered (`HandlesAssumption`), and so on.  `FsHyp` and `StoreHyp` say
that NULL is neither a handle nor a call.

**The secure kernel.**  `AndixProofs` proves `Spec => []IInv` and from it `TypeOK`,
`OneRunning`, `WindowsFollowWorld` and `NoPanic`, for any number of clients,
trustlets and slots.  None of the last three is inductive alone.  `IInv` (module
`AndixInv`) adds:

* `ListInv`, `BootInv`: boot is sequential.  Each thread the main task creates runs
  to its first wait and comes back to main, the head of the list, which is the
  only other thread that is not blocked; so when the normal world starts, every
  secure thread is blocked at a known place.
* `WindowInv`: the windows occupy slots 1, 2 and 3 whenever the secure world runs
  and these slots are free whenever the normal world runs.  Other mappings are made
  only while the windows hold the first three slots, so a first-fit allocator
  always gives the windows the same slots, however many mappings leak.  This is
  why mapping them never fails, and why the stale pointer of the TEE task always
  shows a TEE page (if not always the right client's).
* `RunInv`: the one yield left after boot, the service task's with an empty queue,
  cannot reach the normal world without closing the windows, since the TEE task
  is ready before it in the list.
* `ServiceInv`, `PointerInv`: a queued or processed request belongs to a trustlet
  that still waits for it and is not ready.

The proof has one lemma per group of actions; before them are lemmas about what a
switch, a yield and the search for a ready thread do to thread states.

**One client.**  What a client is promised depends on where its call is, and
`CallInv` (`AndixInv`) says so for every place: `PhaseInv` splits the states by the
thread that runs (nobody in the driver, the TEE task, a trustlet, the service
task, the normal world with a file operation or an answer) and says in each what
the request, its copy, `tee_rpc`, the queue and the windows hold; `MailInv` says
the same of mailbox and daemon.  The point of the argument is `Waiting`: all
trustlets but one are waiting for a request, so the one call in
progress is the only one that any pointer, queue element or control page can
belong to.  A second client breaks exactly this: it resumes the TEE task while a
trustlet is at a file operation (section 4).  `ImplementsCallSteps` takes `CallInv`
before and after a step and shows that the step starts, executes or answers the
call of `RemoteCall`, or changes nothing of it.  `StartedInv` (a trustlet leaves
"start" before the normal world runs, and never returns there) is what `BootsOnce`
needs beside `IInv`; it holds for any number of clients.

**The normal world.**  `HandleOwn` needs `PageOfHolder`: between the ioctl and the
reading of the result the communication page has the answer of the thread at that
place, which is the one that holds `commMutex`.  `ExecutedOnce` needs that the
daemon's copy and the page have the same number while the daemon works
(`DaemonState`), that a request not yet taken was not executed (`RequestState`), and
that nothing but the waiting client takes a response (`ClientWaits`): a daemon that
dies leaves `CTRL_PENDING_IN_NS` behind, and no later daemon can take the request
again.  `HeldPagesOwn` is inductive once it says what the local variables of a call
point to at each step (`CallHolds`).  `SharedPagesOwn` counts pages (`CountInv`): every
call loses the page of its package and needs up to four others at a time, so with
DRIVER_CALLS + 4 pages the unchecked allocation never fails.

**The kernel's memory.**  `MapInv` says that regions in use have slots of their own
which are marked and show consecutive pages, and that free slots show nothing.
It holds although `unmap_memory` unmaps a single page, because the slots that it
and `free` forget stay marked: the error loses slots and never shows a page
twice.  `ReturnInv` adds that with regions of one page (`single`) no slot is lost.  `LentInv` is
the same for the frames and pages behind the parameters of a call; the pages that
`free_mem_from_task` forgets stay allocated, so no later reference gets them.  With
references of less than a page (`small`) `SeenOnce` holds as well: every page a process sees
is allocated and seen at one place.  `IrqInv` says that while an interrupt is being
freed the controller is off and no FIQ is under way.  `Conserved` is inductive as it
stands: a bit is set exactly for the pages nobody holds; `NoDoubleAllocation` follows
from it.

**The scanning loops.**  `LoopsFindFirst` says that the loops over words and bits return
the first block that fits, the loops for aligned blocks the first aligned one, and
the marking loop clears the bits of the block and no other, for words and bitmaps
of any size.  `Scanned` is the loop invariant: a block that was found is the first; else
the block being counted is free up to the bit that was looked at, and no block that
fits begins before it.  A loop is a recursive function; that
there is such a function at all (`Recursion`), and that the invariant holds of all its
values, is shown for the least number that would be a counterexample.

**The heap.**  `HeapInv`: the live blocks lie one behind the other from the start of the
heap in the order of their allocation, each header has the size of the block before
(`Chain`), and what is behind the last is one free block or nothing (`FreeTail`).
`kmalloc` then has one block to split; `kmalloc_align` moves its header up and gives
the words before it to the last live block; `kfree` of the last block joins it with the
free one.  This needs `StackOrder`: in another order a free block lies before a live
one, and `prepareBestBlock` leaves a stale `prev_size` there (`heap_overlap`).

**File descriptors.**  `HandlesInv`: there is a sequence of distinct nodes around which
`next` and `prev` go and which `Elements` follows (`RingOf`), these nodes are allocated
and their data are blocks (`Filled`), and without other users of the blocks every
element but the first has a handle of its own, two blocks of the ring never have the
same descriptor, and that of an open file is in the ring (`Leads`).
The first element stays in the list for ever, and its block may be a handle again:
`Leads` holds because `proc_get_next_fd` looks into that block too.

**The division of the memory.**  Of the constants `BootMemory` assumes that banks are
whole pages and do not overlap, that the secure part is whole pages, and that
kernel and heap lie in one bank, in the secure part of it; sizes, addresses, the
number of banks and their order are free.  `MemoryInv` says that pmm has the pages
of the kernel's bank once the first loop of `init_vmm` is done (`PmmInv`), that the
list has only areas of banks, and all those of the banks the second loop has passed
(`AreaInv`), that the guest's tags are the areas that are not secure (`GivenInv`), and
that a watermark which is set is one of a secure area while every secure area
that `pmm_protect_secure_mem` has passed has one (`LockInv`).  `HomeBank` shows that
exactly one bank passes the test for "our memory segment", although it compares
with `<` at both ends; from there the four computations of the end of the secure part
are compared for a bank that is larger than SECURE_MEMORY_SIZE and for one that is
not.  In the second case the watermark covers one page behind the bank:
`NoNeighbour` says that nobody is there, and section 4 has what happens otherwise.

**The encrypted files.**  `FsInv` says of every block on the disk, whichever file
object it lies in, that its bytes were written for the key and number it is
sealed under (`Genuine`), and of a call in progress that what it has collected or
is about to write is for the place it stands at (`WriteOK`, `ReadOK`).  That a block
of another file or place is refused then gives `Authentic`, also when a descriptor
has come to mean another file after a restart of the daemon.  `Pairs` is the
relation of handles and descriptors without restarts.

`FilesImplementStore` is the refinement of `StoredFile`, all of it: initial states are
initial states, and every step of the file system is one of the abstract file or
leaves it alone (`StoredFile` has no fairness).  `StoreInv` adds to `FsInv` and `Pairs` that
the blocks of a file follow one another and all but the last are full (`RowsFull`),
that a write in progress begins inside the file and ends at its end or behind, or at
the end of a block (`WriteFits`), and that a read has collected bytes of the file from
its start on, none of them lost (`ReadFits`).  `WriteFits` is what `Careful` is for: a write
that ends inside a block makes the block end there (`fs.c:444`), and then a block that
is not full is not the last.  A write of several blocks is several abstract steps,
each of which leaves a file that can be read; a read is one step, when its last block
arrives.  TLC has checked `StoreInv` with two files and two descriptors too
(2,323,846 states).

**The trustlets.**  `RsaInv` follows the command that is between engine and trustlet: the
engine's object waits for it, and a load that reports success has left a whole key in
the context, because `rsa_check_privkey` comes last.  Files may be anything.  `PinInv`
says that the ciphertext of every store, on the disk or in a command, is that of a
master key that was made, under the PIN it was sealed with, and that a pack has the IV
its text was encrypted with.

**The handles.**  `HandleInv` has a part for contexts, for sessions and for memories, each
saying what the field of a request means at each stage (`CtxReq`, `SesReq`, `MemReq`): a
driver's identifier before the pre hook, a `tz_id` in the secure world, the driver's again
behind the post hook.  The identifiers a client holds, the entries of the driver's
table and those of the secure world are connected by these, and `NewContext` and
its like say that what the secure world has just made is known to nobody else: two
processes between task and post hook do not have the same number.  It holds under every
fault, also where the search of an empty table returns a wild pointer, and gives
`ServedByOwn`.  `WorkInv` is the converse, what a client holds is in both tables
(`WorkCtx`, `WorkSes`, `WorkMem`) and what nobody holds is in none, and temporary memory is
there only while its command runs (`WorkTmp`).  It needs `Careful`: section 4 has the
constants with which each part of it fails.  One context for each process is part of
it because the driver identifies a context by the process.

Only model-checked:

* liveness (`RequestsServed`, `CallsReturn`, `WaiterServed`, `RaisedIsHandled`, and with
  them the fairness of `RemoteCall`), which needs ENABLED;
* `SpaceBacked`, `PanicOnlyWhenFull` and `ImageLoaded` of `UserSpace`: its loader is a fold
  over segments and pages with operators as arguments, which the provers cannot
  instantiate, and the properties hold for the images and the layout of the run, not
  for every value of the constants (section 4);
* `CreatedKeyLoads` of `RsaTrustlet`: it compares the lines that were written with those
  that are found in the bytes of the file, and needs `StoreInv` together with what
  every write of a line has left of the ones before.

What a recursive definition computes is proved where it could be done without the
induction theorems of the library, whose parameter is an operator: the proofs take
the least counterexample (the loops of the bitmap) or an explicit witness for the whole
structure (the chain of the heap, the ring of handles) and let the invariant
carry it.

## 6. Not modelled, and the plan

Out of scope, with the reasons:

* third-party code: tropicSSL in the kernel, PolarSSL, newlib, OpenSSL's side of the
  engine, the ELF definitions, and the headers installed under `prebuild`.  By
  lines it is most of the repository (of Andix's own C code about half is mapped).
  The code that uses it takes ciphers and hashes for ideal ones;
* serial port, timer, network, watchdog and CSU drivers, boot assembly, caches and
  exception vectors: register accesses whose effect is hardware's;
* formatting, strings, calendar dates, random numbers: no state depends on them;
* the internal API under `tee_runtime`: its functions return "not implemented" or
  "not supported" and keep nothing; its lists are not linked into any trustlet;
* kernel mutexes: never contended, since threads switch only in monitor calls;
* `tz_application_daemon`: its dispatcher loop is commented out, what remains is a
  fixed sequence of the library's calls;
* the block device of the normal world (`ns_block`) and the driver `tz_service_mod`:
  no caller is left.

The views of the driver (`Andix`, `TeeClient`, `DriverPages`, `CtrlMailbox`) are not
composed with one another: each hazard shows in one of them, and their product is
beyond TLC.

Planned:

1. A proof of `CreatedKeyLoads` over `StoreInv`.
2. The loader of `UserSpace` page by page instead of as a fold, so that its properties
   can be stated with the conditions on images under which they hold.
3. The queue as a user of the heap, whose element is smaller than what is
   written to it.
