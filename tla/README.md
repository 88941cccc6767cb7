# Verification of the kernel of Projet_systeme

Projet_systeme is a teaching kernel for a single-processor PC: processes with
priorities, a clock, message queues, a console, a hash table of programs. The
code is C (`kernel/`, `shared/`) with a little assembly. Around this core are a heap, page
tables, a keyboard driver, a screen with formatted output and a remote debugger.
This directory holds TLA+ specifications of these parts, the TLC configurations
that check them on small instances, and proofs, for every value of the constants,
of the safety properties of the process manager, the message queues, the linked
queues, the console, the hash table, the pages and page tables of processes, the
debugger's walk through these, and the keyboard driver.

French names are those of the source.

## 1. The system

### How it runs

One processor, kernel mode only. Interrupts are masked in the kernel; programs
start with interrupts masked, and `ctx_sw` keeps each one's flag. They are taken
only where idle does `sti; hlt; cli` (`start.c:49-53`) and where a program unmasks
them itself. The models have no interrupt flag: an interrupt may come at any moment
outside a call, which covers every program; that one *must* come is assumed of idle
only (section 3, fairness). There is no preemption inside the kernel: the
processor changes hands only in `ctx_sw`, the last call of `ordonnancer`. So the
interleavings that matter are between *parts of system calls*: what a call does
before `ordonnancer` switches, what other processes and the clock do, and what
the call does when its process runs again. Every model takes exactly these
parts as its actions.

At boot (`start.c:47-76`) `kernel_start` starts `idle_shell` (pid 0, priority
0), which starts the shell (pid 1, priority 1). The call of `start("idle_test")`
at line 76 is never reached. Any program may start others and call any primitive
on any pid.

### Components

| component | source | state | operations | hard behaviours |
|---|---|---|---|---|
| process manager | `process.c`, `process.h`, `start.c` | `table_des_processus` (state, priority, father, children, awaited child), `pid_actif`, queue of runnable processes | `start`, `kill`, `exit`, `waitpid`, `chprio`, `ordonnancer`, `definir_etat_processus`, `terminaison_processus`, `confirme` | slots reused while others hold pids; zombies; a father woken in `waitpid` that runs much later; recursion over the children |
| clock | `horloge.c` | tick counter (32 bits), queue of sleepers | `tic_PIT`, `wait_clock` | wrap-around; waking unlinks the element under the iterator; round robin |
| priority queues | `shared/queue.h` | links inside the elements | `queue_add`, `queue_out`, `queue_top`, `queue_del` | circular links at both ends; FIFO at equal priority; priorities that change in a queue |
| message queues | `file.c` | `tab_file_message`: messages, counters, lists of blocked senders and receivers; `NBFILES`; `valresetfile` | `pcreate`, `psend`, `preceive`, `preset`, `pdelete`, `pcount` | state read before `ordonnancer` and used after; queues deleted and created again under a blocked process; wake-ups without `ordonnancer`; `kill` of a blocked process |
| hash table | `hash.c` | open-addressing table, two counters | `hash_init`, `hash_set`, `hash_del`, `hash_get`, `hash_isset`, `hash_destroy` | probing past deleted slots, growth, shrinking, failed allocation |
| console | `console.c` | line buffer, three globals, queue of readers | `keyboard_data`, `cons_read`, `cons_write`, `cons_echo` | the line is copied after the context switch; several readers |
| physical pages | `phy_mem_allocator.c` | list of free pages, records of the pages of each pid | `alloue_pages_process`, `desalloue_pages_process`, `get_adr` | shortage in the middle; release under pid -1 |
| page tables | `boot/early_mm.c`, `page.c`, `gdb_serial_support.c` | page directories and tables | `early_mm_map_kernel`, `create_page_directory`, `put_address_reel`, `free_page`, `gdb_copyin`, `gdb_copyout` | tables shared by every process; copies that cross pages |
| heap | `shared/malloc.c`, `mem.c` | boundary tags, bins, fast bins, top, `mem_heap` | `malloc`, `free`, `realloc`, `calloc`, `memalign`, `independent_calloc`, `independent_comalloc`, `mallopt`, `malloc_trim`, `mallinfo`, `sbrk` | tags written by one call and trusted by the next; the end of the heap |
| keyboard driver | `kbd-linux/` | prefix of the scan code, keys down, modifiers, locks, number typed on the pad | `keyboard_interrupt`, `handle_scancode`, `kbd_bh` | sequences of up to six bytes, one per interrupt; repetitions; false shifts; keymaps that do not exist |
| screen | `print.c`, `console_putbytes` and its users | video memory, cursor, colour | `console_putbytes`, `printf`, `efface_ecran`, time, boxes, lists | scrolling and wrapping under a buffered `printf`; text drawn elsewhere meanwhile; colours |
| formats, strings, arithmetic | `shared/doprnt.c`, `strtol.c`, `string.c`, `div64.c`, `math.c` | `strtok`'s holder, the seed | `_doprnt`, `sprintf`, `snprintf`, `strtol`, `mem*`, `str*`, `div64`, `rand` | flags that interact; overlaps; double words by halves |
| debugger | `gdb_serial.c`, `debugger.c`, `serial.c` | packet buffer, registers, trap, `connected` | `trap_handler`, `gdb_serial_converse`, `getpacket`, `putfrags`, `gdb_serial_putchar` | characters lost or damaged; both sides wait without a delay |
| shell | `shell.c`, `idle.c` | colour of the prompt | prompt, `ps`, `start`, `clear`, ... | |
| the rest | assembly entry points, locks, user mode, tests, boot, an older copy of the kernel | | | |

How they interact: `start` looks the program up in the hash table, allocates
pages and a page directory, links the process in its father's list of children
and in the run queue and calls `ordonnancer`. `psend`, `preceive`, `cons_read`,
`wait_clock`, `waitpid` block by `definir_etat_processus(..., BLOQUE_...)` then
`ordonnancer`; `keyboard_data`, `tic_PIT`, `psend`, `preceive`, `preset`,
`terminaison_processus` wake by `definir_etat_processus(..., ACTIVABLE)`, some
followed by `ordonnancer`, some not. All queues are the linked lists of
`queue.h`; tables, directories and records come from the heap. Keyboard
interrupts feed `keyboard_data`, which echoes on the screen; everything that
writes on the screen does so with interrupts masked. The debugger runs inside
a trap, with everything else stopped.

### What makes each component correct

- Process manager: one active process, which is the most urgent; every
  process in the queue its state says, once; the children lists and the father
  fields are one forest; a zombie stays until its father reaps it or ends; no
  wake-up of `waitpid` is lost and the father finds its zombie.
- Clock: as long as ticks are taken, sleepers are woken, even across the
  wrap-around, and equals share the processor.
- Queues: the links are a ring holding the expected sequence; FIFO at equal
  priority.
- Message queues: bounded FIFO buffers; counters equal to lists; a blocked
  process is listed once, in a queue that exists, where it will be found; the
  inversion left by a wake-up is bounded. That whoever is woken is the most urgent
  is false in the code (section 4).
- Hash table: a dictionary; searches end.
- Console: indices within the buffer; every blocked reader listed once and
  served in turn.

- Pages: no page is lost or in two address spaces; every process sees the kernel
  as at boot; a process that ends gives its tables back.
- Heap: blocks are disjoint and as long as asked; the tags and bins describe the
  heap; a request fails only when it must.
- Keyboard driver: its picture of the keyboard is the user's; what it sends has
  the right case, at the right time.
- Screen: a window on the last lines written. Formats read back. Strings,
  memory and arithmetic do what their definitions say.
- Debugger: commands executed as sent and in order, replies undamaged, every
  command answered once the line behaves.

The hazards, with their lines and the properties that cover them (or why none
does), are in `PROJECT.json`.


## 2. The modules

| module | models | extends or instantiates |
|---|---|---|
| `FilePrio` | the operations of `queue.h` on sequences, as the other modules use them | |
| `FilesParPriorite` | abstract: one FIFO per priority | |
| `MaillonsFile` | `queue.h` link by link, the loop of `queue_add` turn by turn | |
| `MaillonsProp` | properties of the links; the refinements | `MaillonsFile`, `FilePrio`, `FilesParPriorite` (INSTANCE) |
| `Noyau` | `process.c`'s internal functions, as operators on the process table | `FilePrio` |
| `NoyauProp` | predicates on the process table | `Noyau` |
| `Processus` | the system calls and the clock: one action per call part | `Noyau` |
| `ProcessusProp` | properties of the running system | `Processus`, `NoyauProp` |
| `Tampons` | abstract: bounded FIFO buffers | |
| `Messages` | `file.c` on top of the process manager | `Processus` |
| `MessagesProp` | its properties, the refinement | `Messages`, `ProcessusProp`, `Tampons` (INSTANCE) |
| `Console` | the line discipline of `console.c` on top of the process manager | `Processus` |
| `ConsoleProp` | its properties | `Console`, `ProcessusProp` |
| `Dictionnaire` | abstract: a partial function | |
| `Hash` | `hash.c` | |
| `HashProp` | its properties, the refinement | `Hash`, `Dictionnaire` (INSTANCE) |
| `Pagination` | page directories and tables, and the debugger's walk through them | |
| `Pages` | `phy_mem_allocator.c` and the directories, on top of the process manager | `Processus`, `Pagination` |
| `PagesProp` | its properties | `Pages`, `ProcessusProp` |
| `Allocateur` | abstract: blocks that do not overlap | |
| `Tas` | `malloc.c` over the `sbrk` of `mem.c` | |
| `TasProp` | its properties, the refinement | `Tas`, `Allocateur` (INSTANCE) |
| `Clavier` | `keyboard.c`, `scancode.c`, the keymaps and the glue to `keyboard_data`; what a PC keyboard sends | |
| `ClavierProp` | its properties | `Clavier` |
| `Formats` | `_doprnt` and `strtol`/`strtoul` | |
| `Papier` | abstract: a sheet of paper that never scrolls | |
| `Affichage` | the screen of `print.c`, and everything that writes on it, call by call | `Formats`, `Papier` (INSTANCE) |
| `Chaines` | `string.c` | |
| `Bibliotheque` | 64-bit arithmetic and `rand`; the calls a program may make to the library | `Chaines` |
| `AffichageProp` | properties of the screen, of formats and of the library, by definitions of their own | `Affichage`, `Bibliotheque` |
| `Trames` | hexadecimal, checksums and run lengths of `gdb_serial.c` | |
| `Gdb` | the debugger's stub, a serial line with faults, a remote gdb | `Trames`, `Formats` (INSTANCE) |
| `GdbProp` | its properties | `Gdb` |
| `MCHash`, `MCPages`, `MCTas`, `MCAffichage`, `MCGdb` | values of constants that a configuration cannot write; `MCHash`, also `hash_string_hfunc` | the `Prop` modules of the same name |
| `FilePrioProofs`, `ProcessusProofs`, `MessagesProofs`, `ConsoleProofs`, `MaillonsProofs`, `PagesProofs`, `HashProofs`, `ClavierProofs` | proofs (section 5) | the modules above, `TLAPS` |

Definitions named `X_Something` are mutated forms of `X`: plausible slips, used
only to check that each property would notice one. They are not part of any
specification.

### Correspondence with the code

**`FilePrio`.** A queue is a sequence, head's `next` first. `queue_add` inserts
before the first element whose priority is not lower, so at equal priority the
newest is nearer the head; `queue_out` and `queue_top` take the *last* element:
the oldest of the most urgent. `queue_add` is defined by the place its loop stops
at, sorted or not, because `chprio` leaves some lists unsorted.
`MaillonsProp!Represente` shows that the links do hold these sequences.

**`Noyau`.** C functions call one another and each changes several parts of the
table, so the table is one record `k` and each function an operator from record
to record (`Activer`, `Endormir`, `Bloquer`, `Detruire`, `Zombifier` are
`definir_etat_processus` by target state). `pid = -1` holds exactly when the
state is `MORT`, so the `pid` field is not kept. The recursion of `MORT` over
zombie children is the least set closed under it (`Detruits`). `pere` of a free
slot is kept, because `waitpid` reads it; the other fields of a free slot, which
nothing reads, take a fixed value. `suite` says what a process suspended in
`ctx_sw` has left to do: the end of `waitpid`, or the termination that follows a
failed `confirme`. `panne` says that the kernel faulted (page 0 is not mapped);
the exception handler then stops the machine.

**`Processus`.** One action per call of the active program: `Start`,
`StartInconnu` (an unknown program: `confirme_sans_aboder` sleeps first),
`Kill`, `Exit`, `WaitpidQuelconque`, `WaitpidPrecis`, `Chprio`,
`AttendreHorloge`; `Reprise` finishes the call of a process that has the
processor again; `Tic` is the interrupt. Calls that return an error at once
change nothing and are not actions. A call that blocks is one action up to
`ctx_sw`.

**`Messages`.** `appel[p]` is the `psend` or `preceive` in which `p` is
suspended; `PsendReprise` and `PreceiveReprise` go on with it. Entries
(`process_bloque`) have a copy of the priority, as in the code, and a ghost flag
`vif` that turns FALSE when their process ends: `kill` does not unlink it. As
long as such an entry is only *there* the model goes on; a step that would *use*
it (revive a zombie, wake the new owner of the slot, spin in `preset`) sets
`noyau.panne` and is followed no further. `PasProcessus` is any step of the
process manager.

**`Console`.** `lecture[p]` is the length given to the `cons_read` that `p` is
in. Readers are linked through their process structure; the same ghost flag and
the same rule hold for ended ones. What the echo and `cons_write` do to the
screen is in `Affichage`.

**`Hash`.** A key is a value with a 32-bit hash code, the constant `HACHE`;
`MCHash` gives keys the codes of five strings, two of them equal, and TLC checks
that the code's `hash_string_hfunc` computes these codes. The probe sequence is the code's,
`5i + perturbation + 1` with the hash shifted by 5 bits each time, tabulated up
to `t + 7` turns for a table of `t` slots; that no search goes further is
`RechercheFinie`. `echecs` counts the allocations that failed in a row. Use of a
destroyed table dereferences a null pointer; the model stops at it.

**`MaillonsFile`.** `prev` and `next` of heads and elements; `ajout` is the
`queue_add` under way. In the code no two operations overlap, and the model says
so (`Repos`).

**`Pagination`, `Pages`.** An entry is a record (present, write, user, frame);
the parts of memory that matter are the frames that hold a directory or a table.
`early_mm_map_kernel` builds the kernel's directory
from the section symbols, `create_page_directory` copies it, `put_address_reel`
and `free_page` change one process's. `StartPages`, `RendrePages` and `ReprisePages` add
to the steps of `Processus` the calls that `start` and `terminaison_processus`
make. A new record of `pages_allouees` is sorted by a field that nothing
initialises (`malloc` does not clear memory): it goes anywhere.
`desalloue_pages_process` is called with pid -1 for a process destroyed at once,
since `definir_etat_processus` has already cleared the pid: the record stays.
`free_page` counts from entry 64 and starts its pointer at entry 0: it never gives
the last 64 entries to `free`, but the kernel's 64 tables, which the heap never had.
`LibererEtranger` is what `free` then does: it takes the word before the table for
the size of a chunk. Before the first table it is the last entry of the directory,
null: the size of a fast chunk, whose list, of index -2, is the word before `av_`
(`malloc.c:2288-2302`, 854). Entry 0 of the table, page 0's, takes that word's
content (`memoire.mot`), and the word the address of the chunk. That word is padding in
the `kernel.bin` of the repository (`holder` ends at 21d108, `av_` begins at
21d120), null at boot. Before each other table is the last entry of the one
before: mapped with R/W, the bit that `free` takes for `IS_MMAPPED`, and nothing is
done. Without that bit the frame would be merged into the heap:
`memoire.fusions`. `phys_addr_lookup`, `gdb_copyin` and `gdb_copyout` walk the
tables as the processor does.

**`Tas`.** Addresses and sizes are in units of 8 bytes. `tete[a]` is the header
of the chunk at `a`; the size of a free chunk at its end is the field `f` of the
next header. Bins are the lists from `fd` to `bk`. Every function is an operator
from the heap before to the heap after and the chunk obtained, in the order of
the code: fast bins, small bins, unsorted chunks sorted one by one into their
bins, the bit map of bins, the top, `sysmalloc`. The actions are the calls of a
program: `malloc`, `free`, `realloc`, `calloc`, `memalign`, `valloc`,
`independent_calloc`, `independent_comalloc`, `mallopt`, `malloc_trim`.
`mallopt(M_MXFAST, 0)` makes the code index a fast bin of -1 and is left out;
`calloc` multiplies without an overflow check and is given products that fit.

**`Clavier`.** The keyboard is external: a key sends its bytes,
with false shifts around the grey keys and six bytes for Pause, and repeats. The
driver is a record with the names of the source; an interrupt consumes one byte
(`keyboard_interrupt`, `handle_scancode`, `kbd_translate`, then the handler of
the key's symbol), and the tasklet sets the lights. `kbd_unexpected_up` clears
the up flag for key codes from 89 on. The light of ScrollLock never follows: its
`SPEC` function acts on the console's flow only.

**`Formats`.** A directive is a record of flags, width, precision, letter and
argument; `doprnt` gives the characters `_doprnt` writes, `sprintf` and
`snprintf` what a buffer receives, `strtol` and `strtoul` the number read and
where they stop. Words have `BITS` bits. `%r` and `%n` leave the radix at 0 and
are not called.

**`Affichage`, `Papier`.** `ecran` is the video memory, with the row
below the screen that `defilement` reads, the program's cursor, the card's
cursor and the colour. The rest is everything that writes: `printf` with its
buffer of `PRINTF_BUFMAX`, `cons_write`, the echo, the time, the box of the
processes, the shell's turns and listings, the message of `confirme`. Each is a
list of calls to the screen, run one by one. `Papier` says what was written
without any scrolling; it is kept next to the screen for the property.

**`Chaines`, `Bibliotheque`.** Memory is a sequence of bytes;
copies are made element by element, words first where the code uses `movsl`, so
that overlaps count; 64-bit values are pairs of words, a word having `2 * QUART`
bits. One call is one step; the library has no other state than `strtok`'s holder.

**`Trames`, `Gdb`.** The stub reads one character a step: `pc` says where in
`getpacket`, `gdb_serial_converse` or `putfrags` it is. The buffer of `BUFMAX`
bytes keeps what earlier packets left in it, which the code reads. `hote` is a
remote gdb that sends a packet until it is acknowledged, reads the reply and
sends again when the line stays silent; the line drops or damages up to
`MAX_FAUTES` characters. The texts that the program writes while it runs go out
as `O` packets, and wait for their acknowledgement too. gdb moves when the stub
has nothing to read: each side reads what the other wrote in order, so what one
does meanwhile cannot be seen by the other, and other orders reach the same states.

## 3. What is checked

TLC, two workers; every passing run explores its whole state space.

| run | instance | states | shows |
|---|---|---|---|
| `processus` | 4 slots (idle, shell, 2 more), priorities 1 and 2, clock modulo 3 | 348,286 | `TypeOK`, `EtatEtFile`, `ActifPrioritaire`, `Filiation`, `WaitpidSansPerte`, `ZombieAttendSonPere` |
| `processus_panne` | as `processus` | violation | `PasDePanne`: a zombie child followed by another child brings the kernel down |
| `messages` | 1 queue of 2, 1 message, 4 slots, 1 priority, 1 ghost | 720,570 | `EntreesFideles`, `EmetteurInscrit` |
| `messages_priorites` | 2 queues of 2, 2 messages, 3 slots, 2 priorities | 289,702 | `ComptesJustes`, `FilesFIFO`, `InversionBornee` |
| `maillons` | 2 heads, 4 elements, 2 priorities | 10,136 | `Represente`, `ParPriorite` |
| `hash` | 5 keys, 2 values, 4 to 16 slots, 1 failed allocation | 23,429 | `RechercheFinie`, `RechercheExacte`, `EstUnDictionnaire` |
| `console` | 3 slots, 2 priorities, buffer of 2, clock modulo 2 | 72,148 | `LecteursInscrits`, `LectureFinie`, `SommeilFini`, `TourDeRole` |
| `pages` | 4 slots, 8 pages, programs of 1 or 5 pages, 3 starts | 143,772 | `PagesUneFois`, `EspacesDisjoints`, `NoyauCommun`, `TablesRendues`, `CopieExacte` |
| `tas` | 15 units, 5 bins, 3 request sizes | 129,922 | `Pavage`, `BacsExacts`, `EchecJustifie`, `CompteExact`, `BlocsDisjoints` |
| `clavier` | 16 keys, 3 held at once | 1,299,549 | `EtatFidele`, `EnvoiJuste` |
| `affichage` | 3 rows of 4, 3 operations; every directive; every library call | 578,532 | `Fenetre`, `Relisible`, `BibliothequeExacte` |
| `gdb` | 2 commands out of 18, 1 fault, 1 text, memory of 5 bytes | 525,735 | `CommandesFideles`, `ReponseJuste`, `MiroirExact`, `Servi` |

Each property of a passing run is paired in `PROJECT.json` with a mutation of a
modelled definition that breaks it under the same configuration.

### The properties

Processes and clock:

- `EtatEtFile`: run queue and sleepers agree with the states, nobody is twice
  in a queue, exactly one process is `ACTIF` and idle is always available, so
  `ordonnancer` always finds somebody. The assertions of `queue.h:78,158` rest
  on it.
- `ActifPrioritaire`: between two steps nobody runnable is more urgent than the
  active process, and the run queue is sorted by the *current* priorities.
- `Filiation`: children lists and `pere` fields agree; no existing process has a
  free slot for father; a zombie has a father that can reap it; nobody is its own
  ancestor.
- `WaitpidSansPerte`: a father is blocked only while what it waits for has not
  happened; once woken, it finds its zombie however late it runs.
- `ZombieAttendSonPere`: only the father's call, or the father's end, frees a
  zombie.
- `SommeilFini`, `TourDeRole`: if idle has the processor again and again, or
  programs unmask interrupts again and again (`TicsPris`), a sleeper wakes, across
  the wrap-around, and the most urgent processes share the processor. A program that
  spins with interrupts masked keeps everybody asleep, in the code as here.

Messages, queues, hash table, console:

- `FilesFIFO`: `Messages` implements `Tampons` (capacity: `size` if the queue
  exists; contents: its messages): no overflow, no loss, no duplicate, no
  reordering, whatever was deleted and created again under blocked processes.
- `EntreesFideles`: the entry of a living process is in one list only and that
  process is blocked there: the wake-ups hit the right process and the loops of
  `preset` would end on such entries.
- `ComptesJustes`: `nbelem`, `nbproc_recep`, `nbproc_envoi`, `NBFILES` agree with
  the lists they count, and `pcount` returns what they say.
- `EmetteurInscrit`: a blocked sender is in a list of a queue that exists. (A
  receiver may not be: section 4.)
- `InversionBornee`: the inversion that a wake-up without `ordonnancer` leaves does not survive a tick.
- `Represente`, `ParPriorite`: the links hold the sequences of `FilePrio`, even
  when priorities change in a queue; a queue whose elements keep their priority
  while linked (`STABLES`) is one FIFO per priority.
- `RechercheFinie`, `RechercheExacte`, `EstUnDictionnaire`: searches stop; a key
  is in one slot, which the search finds; `Hash` implements `Dictionnaire`.
- `LecteursInscrits`, `LectureFinie`: each blocked reader is listed once; if
  the interrupt of return is taken again and again each reader is served unless more
  urgent readers keep coming.

Memory:

- `PagesUneFois`: each page is free or in one record, and in one only, however
  processes start, run out of pages and end.
- `EspacesDisjoints`: what living processes see at user addresses never overlaps
  and is never a free page, although a new process may be mapped on a stale record
  of its pid.
- `NoyauCommun`: every process sees the kernel as at boot: page 0 unmapped,
  text and constants read-only, nothing open to user mode, although each process
  that ends makes `free` overwrite the entry of page 0.
- `TablesRendues`: a process has a directory as long as it lives; the frames of
  directories and tables are those of the living; none of the kernel's tables,
  which are given to `free`, becomes a part of the heap.
- `CopieExacte`: the debugger's copy across pages touches the bytes the program
  would touch, and fails exactly when one of them is unmapped.
- `Pavage`: the boundary tags describe the heap: it is tiled by chunks, each
  header's bit and foot are right, free chunks never touch each other or the top.
- `BacsExacts`: each free chunk is in one list, of its size; large bins are
  sorted; the bit map and the flags for fast chunks know of everything there is.
- `EchecJustifie`: a request fails only when no chunk, not even by merging the
  fast ones, is long enough and the heap cannot grow.
- `CompteExact`: `mallinfo` counts as used exactly what programs hold.
- `BlocsDisjoints`: `Tas` implements `Allocateur`: aligned blocks, as long as
  asked, disjoint, in the memory obtained; only their owner gives them back.

Keyboard, screen, library:

- `EtatFidele`: once its bytes are consumed, the driver knows which keys are held
  and counts each modifier exactly, in spite of repetitions, false shifts,
  Pause and missing keymaps.
- `EnvoiJuste`: a letter that a key sends has the right case (the code typed on the
  pad may be any character's); that code comes out at the release of a modifier
  only and is not left behind.
- `Fenetre`: the screen is a window on the paper: characters, colours, cursor.
- `Relisible`: `strtol` and `strtoul` read back the number that any directive
  wrote, but for a `+` sign (which `strtol` accepts without passing over it) and
  for `%#p` (which writes `0x` twice).
- `BibliothequeExacte`: a width pads and never cuts, `snprintf` gives the
  beginning of the text; each function of `string.c` does what its definition in
  `AffichageProp` says, overlaps of `memmove` included; double-word division and
  multiplication agree with integers; the generator goes through every seed.

Debugger:

- `CommandesFideles`: what the stub executes is what gdb sent, in order; a
  command is repeated only when a fault hid its acknowledgement. It is stated
  for one fault: two can damage a packet and its checksum's digits together, as
  `hex`'s -1 is added like a digit.
- `ReponseJuste`: the reply gdb takes for its command is the one the stub made
  for it, and the program's texts come out as written.
- `MiroirExact`: when gdb has its reply, memory and registers are those its
  successful commands set.
- `Servi`: after the faults a command to a machine under the debugger is
  answered: neither side waits for the other for ever.

### Bounds and why they are enough

- `NBPROC`: 15 in the code. 4 slots give idle, the shell and two more: a
  father, a child and a grandchild or two siblings; slots freed and reused; two
  processes of equal priority with a third one. The theorems of section 5 hold
  for every `NBPROC`. With the console on top 3 slots give two users.
- `PRIOS`: two priorities above idle's give every order between two processes;
  idle itself may be raised by `chprio` and is.
- `MODULO`, `DELAI`: the 32-bit counter and the 40 ticks of a failed `confirme`.
  A modulus of 3 gives past, present and future dates and the wrap-around every
  three ticks. With the message queues and the pages a modulus of 1 and a
  delay of 0 keep sleeping and waking, at the next tick.
- `NBQUEUE` (5), capacity 2, two messages: empty, partly full, full; a full queue
  whose freed place is taken back; a queue deleted and re-created under the same
  number. With three users of one queue (`messages`) two can wait on the side
  that the third one serves.
- `FANTOMES`: how many entries of ended processes one list may hold; 1 keeps
  such entries in the middle of everything else, 0 means that no process is
  killed while blocked on a queue.
- `HASH_MINSIZE`: 8 in the code, 4 here, so that the table grows twice and
  shrinks with five keys. `DOUBLEMENTS` is how often it may grow beyond its first
  size: an insertion that would make it larger is not followed. `ECHECS` = 1:
  after one failed allocation the table still has an empty slot; with more failures
  in a row than a third of the slots (`HashAssumption`) the code goes on filling
  the table until no slot is empty and a search never ends (`hash.c:128-130`).
- `NBR_MAX_BUFF`: 512 in the code, 2 here: both ends of the buffer are reached.
- Pages of 2 bytes, tables of 4 entries, directories of 32 of which 7 map the
  kernel: a program of 5 pages needs two tables; a copy crosses pages, tables and
  the end of what is mapped; the last page of each table but the last is writable
  memory of the kernel, as in the code. `NBPAGES` = 8 with programs of 1 and 5 pages:
  boot takes two, one large program fits with a small one, a second large one
  does not. `DEMARRAGES` = 3 bounds starts after the shell, so that
  leaked records stay few; slots are used three times.
- The heap of 15 units in pages of 2, `MAX_BLOCS` = 1 block held besides those
  of `FIXE` size, which are never given back and keep their neighbours apart,
  and the initial layouts `MesDeparts`: fast, small and large requests
  (4, 28 bytes) and one out of range (200); five bins, one of them for large
  chunks of several sizes; the thresholds of consolidation and of trimming are
  crossed. 96 bins differ from 5 in nothing but their number.
- The 16 keys have one of each kind: letter, Tab, Enter, both shifts, Alt, AltGr,
  Ctrl, the three locks, pad keys with and without prefix, a cursor and
  a function key, Pause. Three held at once reach every set of modifiers
  without a keymap. `NPAD`: only the low byte of `npadch` is sent; 17 is beyond any
  digit the pad adds.
- A screen of 3 rows of 4, `MAX_OPERATIONS` = 3: wrapping, scrolling by one and by
  several rows, a `printf` longer than its buffer, boxes drawn in between.
  `MAX_PAPIER` bounds the sheet, and text beyond it is not followed. Words of 6
  bits have numbers of one to six digits in the four bases and both ends of the
  signed range. Directives are converted, and library calls made, from the first
  screen state only, since they touch nothing of the screen.
- Memory of 5 bytes out of 3 values, words of 2 bytes for `movsl`: every overlap,
  every position of the last bytes after the words. Quarters of 2 bits: every
  pair of double words is checked. `MULTIPLIER` and `ADDEND` have the residues
  that the period of the code's generator rests on.
- `BUFMAX` = 14: the longest packet of the 18 commands fits; two damaged packets
  joined by a lost `#` or `$` overflow it. `MAX_COMMANDES` = 2 lets one command's
  packet be taken for another's. One fault of any kind anywhere, on packets,
  replies and acknowledgements.

### Fairness

- `SpecEquitable` (run `console`): strong fairness of the tick *while idle has the
  processor*. The PIT ticks for ever; a tick that finds interrupts masked stays pending
  in the interrupt controller, and idle unmasks them each time it goes round its loop:
  a step that is enabled whenever idle runs. Nothing is assumed of the other programs,
  neither that they unmask interrupts nor that they make any call. What depends
  on them is a hypothesis of the properties: `TicsPris`, which idle satisfies when it
  runs again and again (here the fairness is needed: without it TLC refutes
  `SommeilFini`), or else programs that let ticks in; and, for `LectureFinie`, that
  the interrupt of return is taken again and again, without which nothing can be said of
  a reader.
- `Gdb`'s `Spec` has weak fairness of the stub, of the line and of gdb's
  retransmission: the processor runs the stub with everything else stopped, and
  gdb repeats after a silence. It assumes nothing of what the program or gdb's
  user start, and a premature time-out is excluded (gdb repeats only on a silent line).
- Liveness of the kernel's models holds "or the kernel has faulted", because the
  models stop there.

`CHECK_DEADLOCK FALSE` is set in `affichage` and `gdb`: there the bounds on
operations and commands end a behaviour.

## 4. Where the code does not do what it says

One has a run of its own, quoted in `PROJECT.json`: `process.c:110`, the loop over
the zombie children of a process that becomes a zombie follows the link it has
just cleared, unless that child was the last of the list. A zombie child followed by
another child, living or zombie, and a living father: page fault
(`processus_panne`; in its trace the zombie is followed by a living child, which
kills the father).

Others met while modelling.

Processes and messages: `waitpid` on a child already reaped passes the test of
the father field and ends the caller (`process.c:326-327`) where line 291 would
return an error. `kill` leaves its victim in the lists of a message queue
(`process.c:270`; line 272 says that they are left). `preceive` wakes a sender
only if the queue was full just before (`file.c:92`; `test.c:1266` expects more).
A process that becomes a zombie stays the father of its living children (comment
of `process.c:35`); `chprio` moves a process only in the run queue, where the
comment of `process.c:360` moves it in every queue: a list of blocked senders or
receivers keeps the order of the priorities copied at blocking time (`file.c:81`),
and after a `chprio` of one of them the next one woken is not the most urgent, which
test 13 requires (`test.c:1292`, assertions 1361-1372, commented out). The model has
the copies; no property states an order of these lists. A receiver already woken when its queue is deleted blocks
again, on the deleted queue, and `pcreate` then empties the list it is in
(`file.c:79`); receivers and senders may thus wait on one queue together. The
early return of `psend` leaves `valresetfile` set (`file.c:121`). `preset`,
`pdelete` and `pcount` accept the number `NBQUEUE`. `hash_set` returns -1 after it
has associated the value (`hash.h:89`). Keys struck, or another `cons_read`,
between return and the reader's resumption change its line (`console.c:113`); a
line typed before anybody reads is lost (`console.c:100`). `keyboard_data`
writes in the string it is given (`console.c:60-68`). idle's own loop
(`process.c:7`) is reached only by the command `start idle`.

Memory: the leak of a process destroyed at once; the tables of the kernel that
`free_page` gives to `free` (`page.c:250`, whose comment says that the kernel is not
freed), which writes in the first one and in the word before `av_` as section 2
says: page 0 stays unmapped only because the address of a chunk has bit P clear;
`get_address_reel` follows a directory entry with its
flag bits (nothing calls it); `start` ignores the error of `put_address_reel`;
failed searches read `page->pid` past the head of the list.

Screen and formats: `%-m.ns` of a string cut by its precision pads one blank too
few (`doprnt.c:366-376`); `vsnprintf` writes its NUL at `buf[size]`;
`console_putbytes` tests for row 25; `efface_car` at the first cell writes before
the screen; a tab is echoed twice; `cons_write` of a length beyond the text
writes the NUL; after a failed `confirme` the text stays red until the next
prompt; a character outside ASCII covers its colours.

Library: `do_div64` raises a divide error when the divisor's leading word is all
ones; `memmove` leaves the direction flag set after a downward copy
(`string.c:150-153`); `memmem` and `strstr` find nothing for an empty needle;
`strrchr` never finds the NUL.

Debugger: run lengths 7 and 8 are sent as `#` and `$`; a full buffer without `#`
is accepted when its sum is 255 (`gdb_serial.c:82,100,124`); the test of
`buffer[2]` for a sequence number may read what an earlier packet left; a lost NUL
is invisible to the checksum; an unescaped `}` before `#` never ends its packet;
the check of `P` wraps at a register number of 0xffffffff (`gdb_serial.c:341`), and
the word before the saved registers, which is not in the model, is written; `m` with
a length of 0 answers with the packet's own text, since `putfrags` takes a length of
0 for a string that a NUL ends (`gdb_serial.c:150`); the test of `m`'s length,
`len*2 > BUFMAX` (`gdb_serial.c:371`), wraps from 0x80000000 on, and what is then
read past the buffer is cut off in the model. These three are modelled with words of
8 bits, but no command of the run has such numbers. The tests of `M` and `X` add a
length to an address (`gdb_serial.c:400,437`): their wrap is not modelled.
`gdb_serial_exit` sends nothing.

## 5. What is proved

TLAPS checks twenty-four theorems, among them every safety property of the runs
`processus`, `messages`, `messages_priorites`, `maillons`, `hash`, `pages` and `clavier`
and the one of `console`; three of them are refinements.

| theorem | module | statement |
|---|---|---|
| `TypeCorrect` | `ProcessusProofs` | `Spec => []TypeOK` |
| `EtatEtFileCorrect` | `ProcessusProofs` | `Spec => []EtatEtFile` |
| `ActifPrioritaireCorrect` | `ProcessusProofs` | `Spec => []ActifPrioritaire` |
| `FiliationCorrect` | `ProcessusProofs` | `Spec => []Filiation` |
| `WaitpidSansPerteCorrect` | `ProcessusProofs` | `Spec => []WaitpidSansPerte` |
| `ZombieAttendSonPereCorrect` | `ProcessusProofs` | `Spec => ZombieAttendSonPere` |
| `ComptesJustesCorrect` | `MessagesProofs` | `SpecMessages => []ComptesJustes` |
| `EntreesFidelesCorrect` | `MessagesProofs` | `SpecMessages => []EntreesFideles` |
| `EmetteurInscritCorrect` | `MessagesProofs` | `SpecMessages => []EmetteurInscrit` |
| `InversionBorneeCorrect` | `MessagesProofs` | `SpecMessages => InversionBornee` |
| `FilesFIFOCorrect` | `MessagesProofs` | `SpecMessages => FilesFIFO`: implements `Tampons` |
| `LecteursInscritsCorrect` | `ConsoleProofs` | `SpecConsole => []LecteursInscrits` |
| `RepresenteCorrect` | `MaillonsProofs` | `SpecSuivie => []Represente` |
| `ParPrioriteCorrect` | `MaillonsProofs` | `SpecSuivie => ParPriorite`: implements `FilesParPriorite` |
| `PagesUneFoisCorrect` | `PagesProofs` | `SpecPages => []PagesUneFois` |
| `TablesRenduesCorrect` | `PagesProofs` | `SpecPages => []TablesRendues` |
| `EspacesDisjointsCorrect` | `PagesProofs` | `SpecPages => []EspacesDisjoints` |
| `NoyauCommunCorrect` | `PagesProofs` | `SpecPages => []NoyauCommun` |
| `CopieExacteCorrect` | `PagesProofs` | `SpecPages => []CopieExacte` |
| `RechercheFinieCorrect` | `HashProofs` | `SpecHash => []RechercheFinie` |
| `RechercheExacteCorrect` | `HashProofs` | `SpecHash => []RechercheExacte` |
| `EstUnDictionnaireCorrect` | `HashProofs` | `SpecHash => EstUnDictionnaire`: implements `Dictionnaire` |
| `EtatFideleCorrect` | `ClavierProofs` | `Spec => []EtatFidele` |
| `EnvoiJusteCorrect` | `ClavierProofs` | `Spec => EnvoiJuste` |

They hold for every value of the constants that meets the named assumptions:

- `NbprocAssumption`, `PriosAssumption`, `ModuloAssumption`: at least 2 slots, a
  set of integer priorities, any modulus and delay;
- `NbqueueAssumption`, `CapacitesAssumption`, `FantomesAssumption`: at least one queue,
  positive capacities (`pcreate` refuses others), any number of entries of ended
  processes;
- `MaillonsAssumption`: heads, elements and NULL are distinct, and the elements
  are finitely many;
- `BitsAssumption`: an address has a part of at least one bit for the byte in its
  page and for the page in its table, and of two for the table in the directory (12,
  10 and 10 in the code), since user space starts at a quarter of the whole;
- `SectionsAssumption`, `LinkerAssumption`: `early_mm_check` has passed, the sections
  follow one another as `build/kernel.lds` lays them out, page 0 belongs to
  none, and the memory ends with what the kernel's tables map;
- `CadresAssumption`: frames are natural numbers, finitely many in the heap; the
  kernel's directory and tables are not the heap's (they are in the kernel's own
  sections, the tables after the directory, `boot/crt0.S:107-120`); the kernel's part
  of the directory ends below user space;
- `LectureSeuleAssumption`: the page before each 4 MiB is not one of the kernel's
  read-only pages (in `kernel.bin` these are all below 2.1 MiB);
- `PagesAssumption`: at least two pages are in the pool, one for `idle_shell` and one
  for the shell, which are started at boot, and the heap has three frames more, for
  their directories and at least one table: the code asserts that neither `memalign`
  at boot fails. The pool is no larger than what the entries of a directory that
  `free_page` looks at can map: 1000 pages, where 704 tables have 720,896 entries;
- `HashAssumption`: hash codes of 32 bits, a first size of at most 16 that is a
  power of two, any number of doublings, and no more failed allocations in a row
  than a third of the first size (see the bounds of section 3 for what happens
  otherwise);
- `ClavierAssumption`: the keys are among the 17 that `Clavier` gives tables for; the
  modulus of the code typed on the pad is above 16 (256 in the code, where only the
  low byte is sent). `MAX_TENUES` is not bounded.

None of the properties is inductive by itself. Each inductive invariant below was
first checked by TLC on the instance of its run.

### The process manager

    IInv == Ordonne(noyau) /\ horloge \in Instants
    Ordonne(k) == Stable(k) /\ Prioritaire(k)
    Stable(k) == Sain(k) /\ OisifDisponible(k) /\ UnSeulActif(k)
    Sain(k) == k \in TypeNoyau /\ FilesCoherentes(k) /\ FiliationCoherente(k)
               /\ Triee(k.activables, k.prio)

Every function of the kernel has a lemma in the first part of `ProcessusProofs`: from
a `Sain` table it makes a `Sain` table, and it changes only what it should (`EstQuitte`,
`EstDeplace`, `Libere`, `EstDetruit`, `EstNe`). Between two functions of one call
the table is `Sain` but not `Stable`: the active process may have just blocked,
and nobody is active, or somebody more urgent has just been woken.
`OrdonnancerProp` closes the gap: from a `Sain` table in which idle is available
and at most one process is `ACTIF`, `ordonnancer` makes an `Ordonne` one.

Why each part is needed. `Prioritaire` needs the run queue sorted, since
`ordonnancer` looks at its last element only. An element given to
`queue_add` must be in no queue and one given to `queue_del` must be in it, hence
`FilesCoherentes`. `ordonnancer` does nothing on an empty queue, hence
`OisifDisponible`. `Detruire` removes all members of `Detruits` at once: that
they lose their children consistently needs `ListesEtPeres`, and that destroying
a process does not destroy its own father needs `SansCycle`, stated so that it
is preserved without induction: every group of existing processes has a member
whose father is outside. `FilePrioProofs` has the lemmas on sequences: what
`queue_add`, `queue_del`, `queue_out` do to the elements, to the absence of
duplicates and to the order.

The second part of `ProcessusProofs` adds what is known of each process's wait,
stated with the `pere` fields only:

    IInvAttente == IInv /\ Attentes(noyau)
    AttenteDe(k, x) == Patient(k, x) /\ Eveille(k, x) /\ Dormeur(k, x)

`Patient` and `Eveille` are `WaitpidSansPerte` for one process; the equivalence
with the lists of children is `AttentesSuffisent`. `Dormeur`, that nobody asleep in
`wait_clock` is in `waitpid`, is the strengthening: without it the clock could wake
a father for which `Eveille` does not hold. Each function then has a lemma that it
keeps the wait of everybody but its own process and, when that one ends, its
father (`DeplaceAttente`, `DetruireAttente`). The father is the case that
matters (`ZombifierSuivi`): either it waits for this child and is woken with the
child's pid written down before the child becomes a zombie, or what it waits
for is untouched. That `Detruire` may free zombies *below* the one it is called on
is why `ZombieAttendSonPere` allows a zombie to go when its father is free or a
zombie after the step; each step's lemma concludes both halves at once
(`Suivi`).

### What stands on the process manager

`Messages`, `Console` and `Pages` take the steps of the process manager and add
theirs. `ProcessusProofs` therefore states what such a step does in a form that
the others can use: `Poursuit(r, k)` says that from the table `k` to the table `r` the
table stays `Stable`, stays `Prioritaire` if it was, and that nobody starts
or stops waiting for a message or for a line but by ending. It is proved from
`IStable`, that is `Stable` without `Prioritaire`, because `psend`, `preset`
and `pdelete` wake processes without `ordonnancer`: with the queues `ActifPrioritaire`
is false, and `InversionBornee` is what is left of it.

**Message queues.**

    IInvMessages == IStable /\ TypeMessages
                    /\ \A f \in FID : FileSaine(noyau, appel, f, files[f])
                    /\ NBFILES = Cardinality({f \in FID : Existe(f)})
                    /\ EmetteurInscrit
    FileSaine(k, a, f, q) == ComptesDe(q) /\ InscritsDe(k, a, f, q)

`ComptesDe` are the counters, with the fact the resumption of `psend` rests on: a
queue is deleted exactly when its size is 0, so a sender that resumes on a deleted
queue finds 0 = 0 and gives up. `InscritsDe` ties an entry to its process: blocked on this side, in a
call on this queue, listed once. It is per queue, and that a process is in one
list at most follows from `appel`, which names one queue. `EmetteurInscrit` is
the converse, for senders. It needs care in `preset` and `pdelete`, which wake
every sender of a list before they empty it (`ReveillerProp`: from the loop of
wake-ups comes a table in which they are all runnable), and in a resumed call, which may
wake the other side and block again in the same step. `FilesFIFO` follows from
the same invariant, each part of a call being a put, a get, a clearing or a
stutter of `Tampons`.

**Console.**

    IInvConsole == IStable /\ lecteurs \in Seq(Entrees) /\ ListeJuste(lecteurs, noyau.etat)

`ListeJuste` is the property on the list itself; it also says that two equal live
entries have the same place, without which waking one reader could leave a second
entry of it.

**Pages.**

    IInvPages == Partage(Etat)

The pool is partitioned by the free pages and the records, whatever their order.
`Inscription` and `Restitution` say that moving pages between the free ones and one
record keeps the partition, wherever the record is inserted; `BassesExiste`, that `n`
free pages have a lowest part of each size up to `n`, so that the `CHOOSE` of the
model has what to choose whenever the code's loop finds enough pages. For
`PagesUneFois` the process manager's table is not needed at all: no release under
pid -1, and no record whose pid is taken by another process, can break the
partition (they do break other things: section 4).

**Page tables.**

    IInvTables == IStable /\ IInvPages /\ Annuaire
                  /\ MemoireSaine(memoire, repertoire, Espaces(Etat))

`Annuaire`: a process has a directory exactly as long as it lives. That needs to know
who starts and who ends in each step of the process manager, which the last part of
`ProcessusProofs` states once (`MemesVifs` and the lemmas after it). `MemoireSaine(m,
reps, A)`: the directory of each process (`Espace`) has the kernel's entries below
`NNOYAU` and above them points to tables of the heap, whose entries point to pages of
`A[p]`, the pages of the record that a search for `p` finds; the frames of two
processes have nothing in common; every frame of the heap in use belongs to
a process; the kernel's own frames are as at boot, except entry 0 of the first table,
which is not present (`Conforme`); nothing has been merged into the heap. The record found matters: `start`
inserts a new one anywhere, and an older one of the pid may come first. So
`FicheDecalee` and the lemmas after it say what an insertion or a removal of one
pid's record does to what is found for the other pids: nothing.

`put_address_reel` is three writes, one after the other, with or without a new
table. Each write is a lemma about one frame (`EntreeTable`, `EntreeDirectoire`);
what a call may do to the others is `Accru` (some frames are taken from the heap, and
only those and the process's own are written), which composes along the calls of
`start` (`AccruSuite`, `CartographierProp`), and `Croissance` lifts it to the whole
memory. Everything that happens below entry `NPDE - NNOYAU` can be undone by
`free_page` (`RestitutionTables`), whose pointer starts `NNOYAU` entries too low: what
`free` does with each table of the kernel keeps `MemoireSaine` (`RefusNoyau`, which reads
the word before the table off the kernel's map), and so does the loop over them
(`TablesDuNoyau`); pages
are mapped from a quarter of the address space upwards, and `PagesAssumption` keeps
the last of them below that entry (`IndexPage`). The kernel's map is nine regions
written one over the other; `CarteNoyau` reads its pages off. Boot is the hard
part of `Init`: two processes are started from a memory that has just been laid
out, and frames must not run out (`DoterTas`, `DeuxProcessus`).

For `CopieExacte`, `Traduction` says what `phys_addr_lookup` answers, page by page, and
`CopieProp` what the loop of `gdb_copyin` makes of the answers, by induction over the
bytes that remain. Indices are bits of addresses: `BitsProp` proves that `get_n_bits`,
which adds powers of two bit by bit, is a quotient and a remainder, and `IndexProp`
that the three parts of an address are what the processor takes.

### Linked queues

    IInvMaillons == (next, prev, priorite, contenu are typed)
                    /\ Structure(next, prev, contenu) /\ AjoutSuivi
    IInvClasses  == IInvMaillons /\ Triees

`Structure`: from every head the links form a ring, both ways, that holds the
sequence `contenu`; two rings have no element in common; an element in none has
null links. `AjoutSuivi` is the invariant of the loop of `queue_add`: `cur` is a
place of the ring it looks at, and every element before it has a lower priority; when the
loop stops, the place is `PlaceAjout`, the one `FilePrio` computes.
`InsertionAnneau` and `RetraitAnneau` say what the four assignments of `queue_add` and
of `queue_del` make of a ring, and `ParcoursSuit` that the model's reading of the
links, which stops when it is back at the head or after as many turns as there
are elements, reads the whole sequence: this is where the elements must be
finitely many. For the refinement `Triees` is added, the order in the queues of
`STABLES`, and the abstract state is computed from the sequences (`LesClasses`)
before it is read from the links.

### Hash table

    IInvHash == echecs \in 0..ECHECS
                /\ (map = Detruite \/ Sain(map) /\ 3 * (map.fill - echecs) < 2 * Taille(map))
    Sain(m)  == Taille(m) \in Tailles /\ m \in Tables(Taille(m)) /\ Accessible(m) /\ Compte(m)

`Accessible`: following the probe sequence of the key of an `ACTIVE` slot, the search gets
to that slot before an `EMPTY` one and before any other slot of the key. This is
what deletions must not break, and why they leave `DELETED` behind. `Compte`: `fill`
and `count` are the numbers of slots they stand for. The last conjunct leaves an
`EMPTY` slot in every table, up to the slots taken while allocations failed.

That a search ends then is arithmetic. After seven turns nothing is left of the hash
in the probe, and `5i + 1` is iterated. `CompletDouble` doubles the size: if in any
`T` turns the values meet every residue modulo `T`, and grow by an odd multiple of `T`
plus a multiple of `4T`, then the residues modulo `2T` that `T` turns miss are met in
the `T` following ones, and the growth has the same form for `2T`. From 1, by
doubling, every size in `Tailles` is complete (`TaillesCompletes`), so a search of
`t + 7` turns meets every slot (`SondeComplete`), the `EMPTY` one among them. `AccessibleMaj` says
when a change of one slot keeps `Accessible`; `CopieSlot` and `CopieFinale` carry
the copy into a table of another size, slot by slot; `MiseAJour` is the
arithmetic of `hash_update`, which must leave the new table below two thirds. The
dictionary is read from the table by `Associe`, and every operation adds or removes
one pair (`Ajoutee`, `Retiree`); a resizing, or one that fails, changes none.

### Keyboard driver

    IInvClavier == Compte(pilote) /\ Muni(pilote)
                   /\ pilote.ledstate \in {INDEFINI, pilote.ledflagstate}
                   /\ tenues \subseteq TOUCHES \ {119}
                   /\ EnAttente(pilote.prev_scancode, octets, pilote.key_down, tenues)

`EtatFidele` says nothing while bytes are on their way. `EnAttente` does: after the
prefix already read, the bytes left are one of eight sequences, or the rest of
one, and lead from the keys the driver knows of to those the user holds: nothing, a key,
a grey key, the up arrow preceded by the false release of Shift or, at its own
release, followed by the false press, Pause down, Pause up. `Lectures` is
`kbd_translate` of each byte after each prefix, `Interruption` the whole of
`do_scancode` once the byte is known, and `Avance` takes one byte off each
sequence. `Compte`: each modifier is counted as often as a key that means it is down.
`do_shift` keeps it because a modifier's key has the same symbol in all seven
keymaps (`DansUneCarte`); `compute_shiftstate`, which runs instead of the key where no
keymap exists, establishes it from nothing (`Recompte`).

For `EnvoiJuste` `Muni` is added: a code typed on the pad is waiting only while a
modifier is held. A key released where no keymap exists leaves that code
behind, but a set of modifiers without a keymap has two members at least
(`DeuxModificateurs`), so that one is still held and its release, where a keymap
exists, sends the code. `Effet` states what one key sends in terms of the driver, and
`EffetJuste` of the user: the letter comes with a sequence of a single byte, before which
the two agree on the shifts.

### Induction

The library's induction theorems take an operator as a parameter and cannot be
used by these provers. Where a loop or a recursive function of the model is
computed as a recursive function, the proofs use induction in the form of sets: a
non-empty set of natural numbers has a least element (`PlusPetit`, from
`NatLessThanWellFounded` and `WFMin` of the library), hence `RecurrenceEntiers` and
`RecurrenceSuites`; and that a recursive function exists at all is proved by the same
means (`SuiteRecursive`, `UneRemontee`; `RecursionForte` and `RecurrenceForte` for the
debugger's copy, which goes back by a whole page at a time).

### Only model-checked

- `Pavage`, `BacsExacts`, `EchecJustifie`, `CompteExact`, `BlocsDisjoints`: the
  heap's operators are long compositions of folds over its chunks.
- `Fenetre`, `Relisible`, `BibliothequeExacte`, `CommandesFideles`, `ReponseJuste`,
  `MiroirExact`: text and packets are built by folds and by recursion over sequences.
- Every liveness property (`LectureFinie`, `SommeilFini`, `TourDeRole`, `Servi`):
  fairness and `ENABLED` are out of the prover's reach.

## 6. What is not modelled

- Anything after a fault or after an entry of an ended process is used: the C
  then reads unmapped memory, wakes a zombie or spins, and the machine is lost.
- Return values of processes and of calls, except where they change the state;
  the stacks' contents; `nom[70]` filled by `strcpy`.
- Failed allocations outside `hash.c` and `start` (the code mostly dereferences
  the result); the small records of pages and of blocked processes are taken to
  be allocated.
- Of `malloc.c`: the parts under `HAVE_MMAP` and `DEBUG`, which are not compiled,
  and the text of `malloc_stats`; `malloc.c.h`, which no file includes, not at all.
- Of the keyboard driver: dead keys, compose, raw modes, ioctl, the console
  switches, which no keymap of the kernel reaches or nothing calls.
- Of the screen: `traite_car`, which nothing calls. Of the debugger: the text of
  the register screen, threads, `gdb_serial_exit`.
- The shell's splitting of a line and the programs it starts: in the other
  models every program may make every call in any order.
- System calls from user mode, which are unfinished; the assembly of entry
  points and of the context switch, taken for what it does; boot and BIOS calls;
  the tests and the locks they use (clients of the primitives); the older copy of
  the kernel under `echange/`, which is not built.

## 7. Plan

Done: the process manager, the clock, the message queues, the console, the
queues, the hash table, the pages and page tables, the heap, the keyboard driver,
the screen, the formats and the library, the debugger; the twenty-four theorems.

Next, in order:

1. `Pavage`: the tags tile the heap, from lemmas on splitting and merging one chunk.
2. The message queues and the console together: a process in one list at most.
3. Two faults on the serial line, with a checksum of digits checked as the
   protocol says, to separate what the code allows from what the protocol does.
