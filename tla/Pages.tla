------------------------------- MODULE Pages -------------------------------
(***************************************************************************)
(* The pages of processes: kernel/phy_mem_allocator.c and its calls in     *)
(* start and terminaison_processus, on top of the process manager and of   *)
(* the page directories.                                                   *)
(*                                                                         *)
(* Free pages are all alike: any order of their list gives the same        *)
(* states up to a renaming, and the lowest is taken.  The list of records  *)
(* of allocated pages is sorted by a field that nothing initialises: a new *)
(* record may be inserted anywhere.                                        *)
(*                                                                         *)
(* Definitions named X_... are mutated forms of X, used only to check that *)
(* the properties would notice such a slip.                                *)
(***************************************************************************)
EXTENDS Processus, Pagination

CONSTANTS
  NBPAGES,    \* pages set aside at boot (1000 in the code)
  TAILLES,    \* sizes in pages of the programs that start
  DEMARRAGES  \* bound: programs started after the shell

(* At boot two processes start and nothing is asserted false: there are    *)
(* two pages, and frames for two directories and one table at least.       *)
(* free_page gives back the tables of all the entries a process may use.   *)
ASSUME PagesAssumption ==
  /\ NBPAGES \in 2..Cardinality(TAS)-3
  /\ NBPAGES <= (NPDE - NNOYAU - NPDE \div 4) * NPTE
  /\ TAILLES \subseteq Nat \ {0} /\ DEMARRAGES \in Nat

VARIABLES
  pages_vides,     \* set of free pages
  pages_allouees,  \* list of records [pid, adresses]
  memoire,         \* directories and tables (Pagination)
  repertoire,      \* page_directory of each process, 0 for none
  demarrages       \* programs started since boot, for the bound

pages == <<pages_vides, pages_allouees, memoire, repertoire, demarrages>>
varsPages == <<noyau, horloge, pages>>

K_BASE_VIRT_ADR == Puissance[BITS - 2]

Basses(S, n) == CHOOSE T \in kSubset(n, S) : \A a \in T, b \in S \ T : a < b

Pool == Basses(TAS, NBPAGES)

(* Every search stops at the first record of the pid.                      *)
Fiches(s, pid) == {i \in DOMAIN s.allouees : s.allouees[i].pid = pid}

Fiche(s, pid) == s.allouees[Min(Fiches(s, pid))]

(* Without a record of that pid nothing changes: such is the call made for *)
(* a process that was destroyed at once, whose pid is -1 by then.          *)
desalloue_pages_process_SansListe(s, pid) ==
  IF Fiches(s, pid) = {} THEN s
  ELSE [s EXCEPT !.vides = @ \cup Fiche(s, pid).adresses]

desalloue_pages_process(s, pid) ==
  IF Fiches(s, pid) = {} THEN s
  ELSE [vides |-> s.vides \cup Fiche(s, pid).adresses,
        allouees |-> RemoveAt(s.allouees, Min(Fiches(s, pid)))]

(* Out of pages: what was taken is given back, and the caller not told. If *)
(* an older record of that pid comes first, that one is given back.        *)
alloue_pages_process_SansRetrait(s, pid, nb, i) ==
  [s EXCEPT !.allouees = InsertAt(@, i, [pid |-> pid, adresses |-> Basses(s.vides, nb)])]

alloue_pages_process(s, pid, nb, i) ==
  IF nb <= Cardinality(s.vides)
  THEN LET S == Basses(s.vides, nb)
       IN [vides |-> s.vides \ S,
           allouees |-> InsertAt(s.allouees, i, [pid |-> pid, adresses |-> S])]
  ELSE desalloue_pages_process(
         [vides |-> {}, allouees |-> InsertAt(s.allouees, i, [pid |-> pid, adresses |-> s.vides])],
         pid)

get_nb_pages(s, pid) ==
  IF Fiches(s, pid) = {} THEN -1 ELSE Cardinality(Fiche(s, pid).adresses)

(* The no_page-th page of the record and its virtual address.              *)
get_adr(s, pid, no_page) ==
  LET S == Fiche(s, pid).adresses
  IN [adresse_phy  |-> CHOOSE a \in S : Cardinality({b \in S : b < a}) = no_page,
      adresse_virt |-> K_BASE_VIRT_ADR + no_page * TAILLE_PAGE]

(* start maps every page of the record, in a directory just created.       *)
Cartographier(s, m, pid, rep) ==
  LET carte[n \in 0..get_nb_pages(s, pid)] ==
        IF n = 0 THEN m
        ELSE LET a == get_adr(s, pid, n - 1)
             IN put_address_reel(carte[n-1], a.adresse_phy, a.adresse_virt, "READ", rep)
  IN carte[get_nb_pages(s, pid)]

Etat == [vides |-> pages_vides, allouees |-> pages_allouees]

(* What start does to the pages of the new process pid.                    *)
Doter(s, m, reps, pid, nb, i) ==
  LET d == create_page_directory(m)
      t == alloue_pages_process(s, pid, nb, i)
  IN [s |-> t, m |-> Cartographier(t, d, pid, Min(m.tas)),
      reps |-> [reps EXCEPT ![pid] = Min(m.tas)]]

(* idle_shell, then the shell: one page each (ssize 4000).                 *)
InitPages ==
  /\ Init
  /\ demarrages = 0
  /\ LET s0 == [vides |-> Pool, allouees |-> << >>]
         m0 == [cadres |-> early_mm_map_kernel, tas |-> TAS \ Pool,
                mot |-> VIDE, fusions |-> {}]
         a  == Doter(s0, m0, [p \in PID |-> 0], 0, 1, 1)
     IN \E i \in 1..2 :
          LET b == Doter(a.s, a.m, a.reps, 1, 1, i)
          IN /\ pages_vides = b.s.vides
             /\ pages_allouees = b.s.allouees
             /\ memoire = b.m
             /\ repertoire = b.reps

(* start of a program of nb pages.  An assertion stops the kernel if there *)
(* is no directory, or if the record found is not of nb pages.             *)
StartPages(prio, nb) ==
  /\ Programme
  /\ PidsLibres(noyau) # {}
  /\ demarrages < DEMARRAGES
  /\ UNCHANGED horloge
  /\ LET p == Min(PidsLibres(noyau))
     IN \E i \in 1..Len(pages_allouees)+1 :
          IF memoire.tas = {} \/ get_nb_pages(alloue_pages_process(Etat, p, nb, i), p) # nb
          THEN noyau' = [noyau EXCEPT !.panne = TRUE] /\ UNCHANGED pages
          ELSE LET b == Doter(Etat, memoire, repertoire, p, nb, i)
               IN /\ noyau' = Demarrer(noyau, prio)
                  /\ pages_vides' = b.s.vides
                  /\ pages_allouees' = b.s.allouees
                  /\ memoire' = b.m
                  /\ repertoire' = b.reps
                  /\ demarrages' = demarrages + 1

(* The end of terminaison_processus(p): pages, then tables and directory.  *)
RendrePages(p) ==
  IF noyau.pere[p] # AUCUN /\ FauteDeParcours(noyau, p) THEN UNCHANGED pages
  ELSE LET s == desalloue_pages_process(Etat, IF noyau.pere[p] = AUCUN THEN -1 ELSE p)
       IN /\ pages_vides' = s.vides
          /\ pages_allouees' = s.allouees
          /\ memoire' = free_page(memoire, repertoire[p])
          /\ repertoire' = [repertoire EXCEPT ![p] = 0]
          /\ UNCHANGED demarrages

ReprisePages ==
  /\ Reprise
  /\ IF noyau.suite[actif] = "condamne" THEN RendrePages(actif) ELSE UNCHANGED pages

NextPages ==
  \/ \E prio \in PRIOS, nb \in TAILLES : StartPages(prio, nb)
  \/ \E pid \in PID : Kill(pid) /\ RendrePages(pid)
  \/ Exit /\ RendrePages(actif)
  \/ ReprisePages
  \/ /\ \/ WaitpidQuelconque
        \/ \E pid \in PID : WaitpidPrecis(pid)
        \/ \E pid \in PID, newprio \in PRIOS : Chprio(pid, newprio)
        \/ \E t \in Instants : AttendreHorloge(t)
        \/ Tic
        \/ Arret
     /\ UNCHANGED pages

SpecPages == InitPages /\ [][NextPages]_varsPages
=============================================================================
