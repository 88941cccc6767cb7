----------------------------- MODULE Pagination -----------------------------
(***************************************************************************)
(* Page directories and page tables: boot/early_mm.c (the map of the       *)
(* kernel), page.c (those of the processes), and the walk through them     *)
(* that gdb_serial_support.c makes as the processor does.                  *)
(*                                                                         *)
(* The parts of memory that matter are one record m: m.cadres, the page    *)
(* frames that hold a directory or a table; m.tas, the free frames of the  *)
(* heap; m.mot, the word before malloc's state av_; m.fusions, the frames  *)
(* that the heap never gave and free has merged into it.                   *)
(* An entry keeps its bits P, R/W and U and the frame it points to.        *)
(***************************************************************************)
EXTENDS Integers, Sequences, FiniteSets, FiniteSetsExt

CONSTANTS
  BITS_PAGE, BITS_TABLE, BITS_REPERTOIRE,  \* parts of an address: 12, 10, 10
  NNOYAU,     \* entries of the directories that map the kernel (64)
  PGTAB,      \* frame of the first page table of the kernel
  PGDIR,      \* frame of the directory of the kernel
  TAS,        \* the frames the heap may give
  SECTIONS    \* frames where the sections of the kernel begin and end

ASSUME BitsAssumption ==
  BITS_PAGE \in Nat \ {0} /\ BITS_TABLE \in Nat \ {0} /\ BITS_REPERTOIRE \in Nat \ {0, 1}

BITS == BITS_PAGE + BITS_TABLE + BITS_REPERTOIRE

Puissance[n \in 0..BITS] == IF n = 0 THEN 1 ELSE 2 * Puissance[n-1]    \* 1 << n

TAILLE_PAGE == Puissance[BITS_PAGE]          \* 4096
NPTE        == Puissance[BITS_TABLE]         \* entries of a table, 1024
NPDE        == Puissance[BITS_REPERTOIRE]    \* entries of a directory, 1024

(* early_mm_check stops the machine unless the sections are as follows.    *)
early_mm_check ==
  /\ SECTIONS._text_start < SECTIONS._text_end
  /\ SECTIONS._multiboot_start < SECTIONS._multiboot_end
  /\ SECTIONS._bootstrap_stack_start < SECTIONS._bootstrap_stack_end
  /\ SECTIONS._rodata_start < SECTIONS._rodata_end
  /\ SECTIONS._data_start < SECTIONS._data_end
  /\ SECTIONS._start < SECTIONS._end

ASSUME SectionsAssumption ==
  /\ early_mm_check
  /\ SECTIONS.mem_end = NNOYAU * NPTE   \* what the first NNOYAU tables map

(* The sections follow one another, as build/kernel.lds lays them out.     *)
Symboles == {"_start", "_text_start", "_text_end", "_multiboot_start", "_multiboot_end",
             "_bootstrap_stack_start", "_bootstrap_stack_end", "_rodata_start", "_rodata_end",
             "_data_start", "_data_end", "_bss_start", "_bss_end", "_end", "mem_end"}

ASSUME LinkerAssumption ==
  LET s == SECTIONS
  IN /\ s \in [Symboles -> Nat]
     /\ 1 <= s._start /\ s._start <= s._text_start
     /\ s._multiboot_start = s._text_end
     /\ s._bootstrap_stack_start = s._multiboot_end
     /\ s._rodata_start = s._bootstrap_stack_end
     /\ s._data_start = s._rodata_end
     /\ s._bss_start = s._data_end /\ s._bss_start <= s._bss_end
     /\ s._end = s._bss_end /\ s._end <= s.mem_end

(* Frame 0 is never mapped.  The user space starts at a quarter of the     *)
(* address space, above the kernel's part.  The kernel's tables follow its *)
(* directory (boot/crt0.S:107-120).                                        *)
ASSUME CadresAssumption ==
  /\ NNOYAU \in 1..NPDE \div 4
  /\ PGDIR \in Nat \ {0} /\ PGTAB = PGDIR + 1
  /\ TAS \subseteq Nat \ {0} /\ IsFiniteSet(TAS)
  /\ PGDIR \notin TAS /\ \A i \in 0..NNOYAU-1 : PGTAB + i \notin TAS \cup {PGDIR}

(* The pages of the kernel that are mapped read-only.  None is the last of *)
(* a table: free takes the last entry of a table for the size of the next. *)
LectureSeule ==
  (SECTIONS._text_start..SECTIONS._text_end-1)
    \cup (SECTIONS._multiboot_start..SECTIONS._multiboot_end-1)
    \cup (SECTIONS._rodata_start..SECTIONS._rodata_end-1)

ASSUME LectureSeuleAssumption == \A i \in 1..NNOYAU-1 : i * NPTE - 1 \notin LectureSeule

VIDE == [p |-> FALSE, r |-> FALSE, u |-> FALSE, adr |-> 0]

is_bit_n_true(n, adr) == n \in 0..BITS-1 /\ (adr \div Puissance[n]) % 2 = 1

get_n_bits(n_fort, n_faible, adr) ==
  LET num[i \in n_faible-1..n_fort] ==
        IF i < n_faible THEN 0
        ELSE num[i-1] + IF is_bit_n_true(i, adr) THEN Puissance[i-n_faible] ELSE 0
  IN IF n_fort < n_faible \/ n_fort >= BITS \/ n_faible < 0 THEN 0 ELSE num[n_fort]

IndexRepertoire(adr) == get_n_bits(BITS-1, BITS_PAGE + BITS_TABLE, adr)
IndexTable(adr)      == get_n_bits(BITS_PAGE + BITS_TABLE - 1, BITS_PAGE, adr)

-----------------------------------------------------------------------------
(* The map of the kernel: directory pgdir points to the NNOYAU tables of   *)
(* pgtab; each section is mapped to itself, for the supervisor only; the   *)
(* first page stays unmapped.                                              *)
early_mm_fill_pgdir ==
  [i \in 0..NPDE-1 |->
     IF i < NNOYAU THEN [p |-> TRUE, r |-> TRUE, u |-> FALSE, adr |-> PGTAB + i] ELSE VIDE]

early_mm_map_region(c, debut, fin, rw) ==
  [f \in DOMAIN c |->
     IF f = PGDIR THEN c[f]
     ELSE [j \in 0..NPTE-1 |->
             LET a == (f - PGTAB) * NPTE + j
             IN IF a \in debut..fin-1
                THEN [p |-> TRUE, r |-> rw, u |-> FALSE, adr |-> a] ELSE c[f][j]]]

(* The calls of early_mm_map_kernel, in order: start, end, writable.       *)
Regions ==
  LET s == SECTIONS
  IN << <<1, s._start, TRUE>>, <<s._start, s._text_start, TRUE>>,
        <<s._text_start, s._text_end, FALSE>>, <<s._multiboot_start, s._multiboot_end, FALSE>>,
        <<s._rodata_start, s._rodata_end, FALSE>>,
        <<s._bootstrap_stack_start, s._bootstrap_stack_end, TRUE>>,
        <<s._data_start, s._data_end, TRUE>>, <<s._bss_start, s._bss_end, TRUE>>,
        <<s._end, s.mem_end, TRUE>> >>

early_mm_map_kernel ==
  LET vide == [f \in {PGDIR} \cup {PGTAB + i : i \in 0..NNOYAU-1} |->
                 IF f = PGDIR THEN early_mm_fill_pgdir ELSE [j \in 0..NPTE-1 |-> VIDE]]
      carte[n \in 0..Len(Regions)] ==
        IF n = 0 THEN vide
        ELSE early_mm_map_region(carte[n-1], Regions[n][1], Regions[n][2], Regions[n][3])
  IN carte[Len(Regions)]

-----------------------------------------------------------------------------
(* memalign(4096, 4096): a free frame of the heap, filled by its caller.   *)
Allouer(m, contenu) ==
  LET f == Min(m.tas)
  IN [m EXCEPT !.tas = @ \ {f},
               !.cadres = [x \in DOMAIN @ \cup {f} |-> IF x = f THEN contenu ELSE @[x]]]

(* The directory of a new process: the kernel's entries, then nothing.     *)
create_page_directory_Court(m) ==
  Allouer(m, [i \in 0..NPDE-1 |-> IF i < NNOYAU - 1 THEN m.cadres[PGDIR][i] ELSE VIDE])

create_page_directory(m) ==
  Allouer(m, [i \in 0..NPDE-1 |-> IF i < NNOYAU THEN m.cadres[PGDIR][i] ELSE VIDE])

create_page_table(m, rep, case) ==
  LET n == Allouer(m, [j \in 0..NPTE-1 |-> VIDE])
  IN [n EXCEPT !.cadres[rep][case] =
        [p |-> TRUE, r |-> FALSE, u |-> TRUE, adr |-> Min(m.tas)]]

(* Maps adr_virt to the frame adr_reel in directory rep.  Without memory   *)
(* for a table it returns -1, and start goes on: nothing is mapped.        *)
put_address_reel(m, adr_reel, adr_virt, perm, rep) ==
  LET d == IndexRepertoire(adr_virt)
      n == IF m.cadres[rep][d].p THEN m ELSE create_page_table(m, rep, d)
      e == [n EXCEPT !.cadres[rep][d].r = @ \/ perm = "WRITE",
                     !.cadres[rep][d].u = TRUE]
  IN IF ~m.cadres[rep][d].p /\ m.tas = {} THEN m
     ELSE [e EXCEPT !.cadres[e.cadres[rep][d].adr][IndexTable(adr_virt)] =
             [p |-> TRUE, r |-> perm = "WRITE", u |-> TRUE, adr |-> adr_reel]]

(* free of frames that memalign gave.                                      *)
Liberer(m, F) ==
  [m EXCEPT !.tas = @ \cup F, !.cadres = [x \in DOMAIN @ \ F |-> @[x]]]

(* free of a frame that the heap never gave, a table of the kernel.  The   *)
(* word before it passes for the header of a chunk: the last entry of what *)
(* precedes it, the directory or the table before.                         *)
EnTete(m, f) == IF f = PGTAB THEN m.cadres[PGDIR][NPDE-1] ELSE m.cadres[f-1][NPTE-1]

(* A null header is the size of a fast chunk, of bin -2: its link, entry 0 *)
(* of the table, takes what is in the word before av_, and that word the   *)
(* address of the chunk, the last two words of the frame before.  Bit R/W  *)
(* passes for IS_MMAPPED: nothing is done.  Else f is merged with what     *)
(* passes for its neighbours.                                              *)
LibererEtranger(m, f) ==
  IF EnTete(m, f).adr = 0
  THEN [m EXCEPT !.cadres[f][0] = m.mot, !.mot = [VIDE EXCEPT !.adr = f - 1]]
  ELSE IF EnTete(m, f).r THEN m
  ELSE [m EXCEPT !.fusions = @ \cup {f}]

(* free_page counts from NNOYAU, but starts its pointer at entry 0: the    *)
(* tables of the kernel come first, in order, then those of the process    *)
(* but for the last NNOYAU entries, then the directory.                    *)
free_page_SansTables(m, rep) == Liberer(m, {rep})

free_page(m, rep) ==
  LET d == m.cadres[rep]
      noyau_libere[n \in 0..NNOYAU] ==
        IF n = 0 THEN m
        ELSE IF d[n-1].p THEN LibererEtranger(noyau_libere[n-1], d[n-1].adr)
        ELSE noyau_libere[n-1]
  IN Liberer(noyau_libere[NNOYAU],
             {rep} \cup {d[i].adr : i \in {j \in NNOYAU..NPDE-1-NNOYAU : d[j].p}})

-----------------------------------------------------------------------------
(* phys_addr_lookup with paging on: the physical address of vaddr, and the *)
(* length of what follows it in its page (0: not mapped).                  *)
phys_addr_lookup_LongueurFixe(m, cr3, vaddr) ==
  LET pde  == m.cadres[cr3][IndexRepertoire(vaddr)]
      pte  == m.cadres[pde.adr][IndexTable(vaddr)]
      offs == vaddr % TAILLE_PAGE
  IN IF ~pde.p THEN [paddr |-> 0, len |-> 0]
     ELSE IF ~pte.p THEN [paddr |-> 0, len |-> 0]
     ELSE [paddr |-> pte.adr * TAILLE_PAGE + offs, len |-> TAILLE_PAGE]

phys_addr_lookup(m, cr3, vaddr) ==
  LET pde  == m.cadres[cr3][IndexRepertoire(vaddr)]
      pte  == m.cadres[pde.adr][IndexTable(vaddr)]
      offs == vaddr % TAILLE_PAGE
  IN IF ~pde.p THEN [paddr |-> 0, len |-> 0]
     ELSE IF ~pte.p THEN [paddr |-> 0, len |-> 0]
     ELSE [paddr |-> pte.adr * TAILLE_PAGE + offs, len |-> TAILLE_PAGE - offs]

(* gdb_copyin and gdb_copyout: page by page; the physical addresses they   *)
(* touch, in order, and whether they succeeded.                            *)
gdb_copyin(m, cr3, src_va, size) ==
  LET copie[s \in 0..size] ==   \* what remains to do when s bytes remain
        LET r == phys_addr_lookup(m, cr3, src_va + size - s)
            n == IF r.len > s THEN s ELSE r.len
            suite == copie[s - n]
        IN IF s = 0 THEN [ok |-> TRUE, octets |-> << >>]
           ELSE IF r.len = 0 THEN [ok |-> FALSE, octets |-> << >>]
           ELSE [ok |-> suite.ok,
                 octets |-> [i \in 1..n |-> r.paddr + i - 1] \o suite.octets]
  IN copie[size]
=============================================================================
