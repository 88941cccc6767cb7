----------------------------- MODULE PagesProp -----------------------------
(***************************************************************************)
(* What the pages of processes must satisfy.                               *)
(***************************************************************************)
EXTENDS Pages, ProcessusProp

Vivants == {p \in PID : noyau.etat[p] \notin {"MORT", "ZOMBIE"}}

Adresses(debut, n) == debut..debut + n * TAILLE_PAGE - 1

(* The page tables open to user mode in the directory of p.                *)
TablesUtilisateur(p) ==
  {memoire.cadres[e.adr] : e \in {x \in Range(memoire.cadres[repertoire[p]]) : x.p /\ x.u}}

(* The entry that maps virtual page v in the directory of p.               *)
Entree(p, v) ==
  LET pde == memoire.cadres[repertoire[p]][v \div NPTE]
  IN IF pde.p THEN memoire.cadres[pde.adr][v % NPTE] ELSE VIDE

(* A page is free, or in one record, and in one only: however processes    *)
(* start, run out of pages and end, no page is lost or given twice         *)
(* (alloue_pages_process, desalloue_pages_process).                        *)
PagesUneFois ==
  \A f \in Pool :
    Cardinality({i \in DOMAIN pages_allouees : f \in pages_allouees[i].adresses})
      + (IF f \in pages_vides THEN 1 ELSE 0) = 1

(* What two living processes see at user addresses never overlaps, and is  *)
(* never a free page: a stale record left by a process destroyed at once   *)
(* may be found in place of the new one, yet gives no page to two          *)
(* processes.                                                              *)
EspacesDisjoints ==
  LET vues == [p \in Vivants |->
                {e.adr : e \in {x \in UNION {Range(t) : t \in TablesUtilisateur(p)} : x.p}}]
  IN \A p \in Vivants :
       /\ vues[p] \cap pages_vides = {}
       /\ vues[p] \subseteq Pool
       /\ \A q \in Vivants \ {p} : vues[p] \cap vues[q] = {}

(* Every process sees the kernel as at boot (early_mm.c:11-23): first page *)
(* unmapped, text and constants read-only, the rest of its memory writable *)
(* at its own address, nothing of it open to user mode.  It is so although *)
(* the end of a process gives the kernel's tables to free (page.c:250),    *)
(* which writes in them: entry 0 of the first one, the first page's, takes *)
(* the address of what passes for a chunk, whose bit P is 0.               *)
NoyauCommun ==
  LET s == SECTIONS
      ecriture == (s._bootstrap_stack_start..s._bootstrap_stack_end-1)
                          \cup (s._data_start..s._data_end-1)
  IN \A p \in Vivants : \A v \in 0..NNOYAU*NPTE-1 :
       IF v = 0 THEN ~Entree(p, v).p
       ELSE Entree(p, v) = [p |-> TRUE, u |-> FALSE, adr |-> v,
                            r |-> v \in ecriture \/ v \notin LectureSeule]

(* A process has a directory as long as it lives, and the frames used for  *)
(* directories and tables are those of the living: a process that ends     *)
(* gives all of them back.  free_page, which starts at entry 0 and not 64  *)
(* (page.c:250), also gives to free what the heap never had, the tables of *)
(* the kernel: none of them becomes a part of the heap.                    *)
TablesRendues ==
  ~noyau.panne =>
    /\ \A p \in PID : repertoire[p] # 0 <=> p \in Vivants
    /\ {f \in DOMAIN memoire.cadres : f \in TAS} =
         UNION {{repertoire[p]} \cup
                {memoire.cadres[repertoire[p]][i].adr :
                   i \in {j \in NNOYAU..NPDE-1 : memoire.cadres[repertoire[p]][j].p}} : p \in Vivants}
    /\ memoire.tas \subseteq TAS /\ memoire.fusions = {}

(* The debugger's copy across pages touches the bytes that the program     *)
(* would touch, in order, and fails exactly when one of them is unmapped   *)
(* (gdb_copyin, gdb_copyout).                                              *)
CopieExacte ==
  actif \in Vivants =>
    \A a \in Adresses(K_BASE_VIRT_ADR, NPTE) \cup Adresses(0, 1), n \in 1..TAILLE_PAGE + 2 :
      LET e(i) == Entree(actif, (a + i) \div TAILLE_PAGE)
          c == gdb_copyin(memoire, repertoire[actif], a, n)
      IN /\ c.ok <=> \A i \in 0..n-1 : e(i).p
         /\ c.ok => c.octets = [i \in 1..n |->
                                  e(i-1).adr * TAILLE_PAGE + ((a + i - 1) % TAILLE_PAGE)]
=============================================================================
