---------------------------------- MODULE Gdb ----------------------------------
(* The debugger's stub (gdb_serial.c, debugger.c) on a serial line that loses   *)
(* and damages characters, and a remote gdb, which is external: it sends a      *)
(* packet until it is acknowledged, reads the reply, and sends again what it    *)
(* waits for when the line stays silent.  The stub reads one character a step.  *)
EXTENDS Trames, TLC
CONSTANTS BUFMAX,                            \* 400 in the code
          REGISTRES, EIP, EFLAGS,            \* number of registers, two of them; one byte each
          TAILLE,                            \* mapped addresses are 0..TAILLE - 1
          CONTENU,                           \* first contents of the memory
          COMMANDES,                         \* commands of the remote gdb
          TRAPPES,                           \* traps the program can raise
          TEXTES,                            \* what the program writes: characters and strings
          MAX_COMMANDES, MAX_FAUTES,         \* bounds: commands sent, line faults,
          MAX_ECRITS                         \* and texts written
ASSUME GdbAssumption == /\ {BUFMAX, REGISTRES, TAILLE, MAX_COMMANDES, MAX_FAUTES, MAX_ECRITS} \subseteq Nat
                        /\ {EIP, EFLAGS} \subseteq 1..REGISTRES /\ TAILLE < 16
VARIABLES pc, inbuf, recu, somme, haut, sortie, suite,     \* the stub
          regs, mem, signo, connected, do_debug, ecran,    \* the machine
          versStub, versHote,                              \* the line
          hote, fautes,                                    \* the remote gdb, the faults so far
          emises, executees, faite, recue, miroir,         \* history, for the properties
          ecrits, lus                                      \* texts written, texts gdb received
stub == <<pc, inbuf, recu, somme, haut, sortie, suite>>
machine == <<regs, mem, signo, connected, do_debug, ecran>>
histoire == <<emises, executees, faite, recue, miroir, ecrits, lus>>
vars == <<stub, machine, versStub, versHote, hote, fautes, histoire>>

N == INSTANCE Formats WITH BITS <- 8
EFL_TF == 4                                  \* one bit of EFLAGS, 0x100 in the code
Aucun == <<>>

(* ---- the packet buffer b, a sequence of BUFMAX + 1 bytes, and the numbers     *)
(* that strtoul and strtol read at index i of it in base 16                     *)
Glyphe(c) == IF \E i \in 1..16 : hexchars[i] = c THEN N!Chiffres[CHOOSE i \in 1..16 : hexchars[i] = c]
             ELSE CASE c = 120 -> "x" [] c = 32 -> " " [] c = 45 -> "-" [] OTHER -> "?"
Texte(b, i) == [j \in 1..Len(b) - i + 1 |-> Glyphe(b[i + j - 1])]
NombreLu(i, lu) == [valeur |-> lu.valeur, fin |-> i + lu.reste - 1]
Nombre(b, i) == NombreLu(i, N!strtoul(Texte(b, i), 16))
SansNombre(b, i) == N!strtol(Texte(b, i), 16).reste = 1
A(b, i) == IF i <= Len(b) THEN b[i] ELSE 0
Depuis(b, i) == SubSeq(b, i, Len(b))
Longueur(b) == CHOOSE i \in 0..Len(b) - 1 : b[i + 1] = 0 /\ \A j \in 1..i : b[j] # 0

(* ---- memory: gdb_copyin and gdb_copyout stop at the first unmapped address   *)
Lisibles(a, n) == IF a >= TAILLE THEN 0 ELSE IF a + n <= TAILLE THEN n ELSE TAILLE - a
Lire(a, n) == [i \in 1..Lisibles(a, n) |-> mem[a + i - 1]]
Ecrites(a, s) == [x \in DOMAIN mem |-> IF x - a + 1 \in 1..Len(s) THEN s[x - a + 1] ELSE mem[x]]
gdb_set_trace_flag(on, r) ==
  LET bit == (r[EFLAGS] \div EFL_TF) % 2
  IN [r EXCEPT ![EFLAGS] = @ + EFL_TF * ((IF on THEN 1 ELSE 0) - bit)]
(* 'X': '}' quotes the next byte, exclusive-or 0x20; FALSE when it ends the data. *)
OuExclusif20(o) == IF (o \div 32) % 2 = 1 THEN o - 32 ELSE o + 32
Deprotege(s) ==
  LET reste[i \in 1..Len(s) + 2] ==
        IF i > Len(s) \/ (i = Len(s) /\ s[i] = Echappe) THEN <<>>
        ELSE IF s[i] = Echappe THEN <<OuExclusif20(s[i + 1])>> \o reste[i + 2] ELSE <<s[i]>> \o reste[i + 1]
      seul[i \in 1..Len(s) + 2] == IF i > Len(s) THEN FALSE
                                   ELSE IF s[i] = Echappe THEN i = Len(s) \/ seul[i + 2] ELSE seul[i + 1]
  IN [octets |-> reste[1], ok |-> ~seul[1]]

(* ---- replies: the fragments, and what the stub does once they are accepted   *)
OK == <<Brut(<<79, 75>>)>>                              \* "OK"
Erreur(n) == <<Brut(<<69>>), Hexa(<<n>>)>>              \* "E" and the code
Inconnu == <<Brut(<<>>)>>
Signal == <<Brut(<<83>>), Hexa(<<signo>>)>>             \* "S" and the signal: there are no threads

(* r = [frags, regs, mem, connected, suite, buf]: the answer to a packet b.     *)
Repondre(b, frags) == [frags |-> frags, regs |-> regs, mem |-> mem, connected |-> TRUE, suite |-> "paquet", buf |-> b]

(* 'G': the registers before the wrong pair are changed all the same.           *)
EcrireRegistres(b, h) ==
  [Repondre(b, IF h.ok THEN OK ELSE Erreur(4))
     EXCEPT !.regs = [i \in 1..REGISTRES |-> IF i <= Len(h.octets) THEN h.octets[i] ELSE @[i]]]
(* 'P', register n.valeur + 1 after "n="; 41 is orig_eax.                       *)
(* The check of the number may wrap: 0xffffffff passes it, and the word written *)
(* precedes the registers, which keep their values.                             *)
EcrireRegistre(b, n) ==
  LET h == hex2bin(Depuis(b, n.fin + 1), 1)
  IN IF n.fin = 2 \/ A(b, n.fin) # Egal THEN Repondre(b, Erreur(4))
     ELSE IF n.valeur = 41 THEN Repondre(b, OK)
     ELSE IF N!Mot(n.valeur + 1) > REGISTRES \/ ~h.ok THEN Repondre(b, Erreur(4))
     ELSE [Repondre(b, OK) EXCEPT !.regs[n.valeur + 1] = h.octets[1]]

(* The address and length of 'm', 'M' and 'X'; the data follow ':' at `donnees'. *)
PlageLue(b, a, l) == [a |-> a.valeur, n |-> l.valeur, donnees |-> l.fin + 1,
                      ok |-> a.fin # 2 /\ A(b, a.fin) = Virgule /\ l.fin # a.fin + 1,
                      suivi |-> A(b, l.fin) = DeuxPoints]
PlageDe(b, a) == PlageLue(b, a, Nombre(b, a.fin + 1))
Plage(b) == PlageDe(b, Nombre(b, 2))
Recouvrir(b, s) == [i \in 1..BUFMAX + 1 |-> IF i <= Len(s) THEN s[i] ELSE b[i]]
(* putfrags takes a length of 0 for a text that a NUL ends: the packet's own.   *)
Rendu(b, s) == IF s = <<>> THEN SubSeq(b, 1, Longueur(b)) ELSE s
(* The bytes read overwrite the packet buffer.  Twice the length may wrap.      *)
Lus(b, p, s) == [Repondre(b, IF Len(s) < p.n THEN Erreur(3) ELSE <<Hexa(Rendu(b, s))>>) EXCEPT !.buf = Recouvrir(b, s)]
LireMemoire(b, p) ==
  IF ~p.ok \/ N!Mot(2 * p.n) > BUFMAX THEN Repondre(b, Erreur(2)) ELSE Lus(b, p, Lire(p.a, p.n))
(* h.octets are copied to address p.a, as far as it is mapped.                  *)
Copier(b, p, h, n) ==
  IF ~h.ok THEN Repondre(b, Erreur(2))
  ELSE [Repondre(b, IF n < Len(h.octets) THEN Erreur(3) ELSE OK) EXCEPT !.mem = Ecrites(p.a, SubSeq(h.octets, 1, n))]
CopierTout(b, p, h) == Copier(b, p, h, Lisibles(p.a, Len(h.octets)))
EcrireMemoire(b, p) ==
  IF ~p.ok \/ ~p.suivi \/ p.donnees - 1 + 2 * p.n > BUFMAX THEN Repondre(b, Erreur(2))
  ELSE CopierTout(b, p, hex2bin(Depuis(b, p.donnees), p.n))
Deproteges(b, p, h) == CopierTout(Recouvrir(b, h.octets), p, h)
EcrireBinaire(b, p) ==
  IF ~p.ok \/ ~p.suivi \/ p.donnees - 1 + p.n > BUFMAX THEN Repondre(b, Erreur(2))
  ELSE Deproteges(b, p, Deprotege(SubSeq(b, p.donnees, p.donnees + p.n - 1)))

(* 'c', 's', 'C', 'S': no reply now, the program runs until its next trap.      *)
Reprendre(b, i, n, pas) ==
  [Repondre(b, Aucun) EXCEPT !.regs = gdb_set_trace_flag(pas, IF n.fin > i THEN [@ EXCEPT ![EIP] = n.valeur] ELSE @),
                             !.suite = "programme"]
ReprendreSignal(b, s, pas) ==
  IF s <= 0 \/ s >= 32 THEN Repondre(b, Erreur(5)) ELSE Reprendre(b, 4, Nombre(b, 4), pas)

(* 'D', 'R', 'k': the debugger is no longer connected.                          *)
Partir(b, frags, apres) == [Repondre(b, frags) EXCEPT !.connected = FALSE, !.suite = apres]

(* gdb_serial_converse, one packet.  'H' and 'T' check their number and are     *)
(* then unknown, as the kernel gives no call for threads.                       *)
Traiter(b) ==
  CASE A(b, 1) = 72  -> Repondre(b, IF SansNombre(b, 3) THEN Erreur(4) ELSE Inconnu)   \* H
    [] A(b, 1) = 84  -> Repondre(b, IF SansNombre(b, 2) THEN Erreur(1) ELSE Inconnu)   \* T
    [] A(b, 1) = 103 -> Repondre(b, <<Hexa(regs)>>)   \* g
    [] A(b, 1) = 71  -> EcrireRegistres(b, hex2bin(Depuis(b, 2), REGISTRES))   \* G
    [] A(b, 1) = 80  -> EcrireRegistre(b, Nombre(b, 2))   \* P
    [] A(b, 1) = 109 -> LireMemoire(b, Plage(b))   \* m
    [] A(b, 1) = 77  -> EcrireMemoire(b, Plage(b))   \* M
    [] A(b, 1) = 88  -> EcrireBinaire(b, Plage(b))   \* X
    [] A(b, 1) \in {99, 115} -> Reprendre(b, 2, Nombre(b, 2), A(b, 1) = 115)   \* c s
    [] A(b, 1) \in {67, 83}  -> ReprendreSignal(b, Joindre(hex(A(b, 2)), hex(A(b, 3))), A(b, 1) = 83)   \* C S
    [] A(b, 1) = 63  -> Repondre(b, Signal)   \* ?
    [] A(b, 1) = 68  -> Partir(b, OK, "detache")   \* D
    [] A(b, 1) = 82  -> Partir(b, Aucun, "programme")   \* R
    [] A(b, 1) = 107 -> Partir(b, Aucun, "arret")   \* k
    [] A(b, 1) \in {100, 33} -> Repondre(b, OK)   \* d !
    [] OTHER -> Repondre(b, Inconnu)

(* ---- the stub at work                                                        *)
Envoi(s) == versHote' = versHote \o s
Terminer(apres) ==             \* gdb_serial_converse and debugger return, or loop
  /\ pc' = CASE apres = "paquet" -> "attente" [] apres = "arret" -> "arret" [] OTHER -> "programme"
  /\ do_debug' = (do_debug /\ apres # "detache")
(* gdb_serial_converse answers the packet of the buffer.                        *)
Executer(r) ==
  /\ regs' = r.regs /\ mem' = r.mem /\ connected' = r.connected /\ inbuf' = r.buf /\ suite' = r.suite
  /\ IF r.frags = Aucun
     THEN Terminer(r.suite) /\ UNCHANGED <<sortie, versHote>>
     ELSE /\ sortie' = Trame(Contenu(r.frags)) /\ Envoi(sortie') /\ pc' = "accuse" /\ UNCHANGED do_debug
  /\ executees' = Append(executees, SubSeq(inbuf, 1, recu))
  /\ faite' = [commande |-> SubSeq(inbuf, 1, recu), texte |-> Clair(r.frags)]
  /\ UNCHANGED <<recu, somme, haut, signo, ecran>>
Commande == /\ pc = "commande" /\ Executer(Traiter(inbuf))
            /\ UNCHANGED <<versStub, hote, fautes, emises, recue, miroir, ecrits, lus>>

(* A sequence number "nn:" is sent back and taken off.                          *)
SansNumero(b, n) == [i \in 1..Len(b) |-> IF i + 3 <= n + 1 THEN b[i + 3] ELSE b[i]]
Accepter ==
  /\ pc' = "commande"
  /\ IF inbuf[3] = DeuxPoints
     THEN /\ Envoi(<<Plus, inbuf[1], inbuf[2]>>)
          /\ inbuf' = SansNumero(inbuf, Longueur(inbuf)) /\ recu' = Longueur(inbuf')
     ELSE Envoi(<<Plus>>) /\ UNCHANGED <<inbuf, recu>>
  /\ UNCHANGED <<sortie, suite, machine, executees, faite>>

Inactif == UNCHANGED <<sortie, suite, machine, versHote, executees, faite>>
Attendre(c) ==                 \* getpacket: wait for '$'
  /\ pc = "attente"
  /\ IF c % 128 = Dollar THEN pc' = "donnees" /\ recu' = 0 /\ somme' = 0 ELSE UNCHANGED <<pc, recu, somme>>
  /\ UNCHANGED <<inbuf, haut>> /\ Inactif
FinDeTrame(c) == c = Diese /\ (recu = 0 \/ inbuf[recu] # Echappe)
(* A packet that fills the buffer ends there; without its '#' it has no         *)
(* checksum and xmitcsum is still (unsigned char) -1: a sum of 255 passes.      *)
Donnees(c) ==
  /\ pc = "donnees" /\ UNCHANGED haut
  /\ IF FinDeTrame(c)
     THEN inbuf' = [inbuf EXCEPT ![recu + 1] = 0] /\ pc' = "cs1" /\ UNCHANGED <<recu, somme>> /\ Inactif
     ELSE LET b == [inbuf EXCEPT ![recu + 1] = c, ![recu + 2] = IF recu + 1 = BUFMAX THEN 0 ELSE @]
          IN /\ recu' = recu + 1 /\ somme' = (somme + c) % 256 /\ inbuf' = b /\ Inactif
             /\ pc' = IF recu + 1 < BUFMAX THEN pc ELSE IF c = Diese THEN "cs1"
                      ELSE IF somme' = 255 THEN "commande" ELSE "attente"
Controle1(c) ==
  /\ pc = "cs1" /\ pc' = "cs2" /\ haut' = hex(c)
  /\ UNCHANGED <<inbuf, recu, somme>> /\ Inactif
Controle2_SansVerifier(c) == pc = "cs2" /\ UNCHANGED <<somme, haut>> /\ Accepter
Controle2(c) ==
  /\ pc = "cs2" /\ UNCHANGED <<somme, haut>>
  /\ IF (16 * haut + hex(c)) % 256 = somme THEN Accepter
     ELSE /\ pc' = "attente" /\ Envoi(<<Moins>>)
          /\ UNCHANGED <<inbuf, recu, sortie, suite, machine, executees, faite>>
(* putfrags: whatever is not '+' has the packet sent again.                     *)
Accuse_SansRenvoi(c) ==
  /\ pc = "accuse"
  /\ IF c % 128 = Plus THEN Terminer(suite) /\ UNCHANGED versHote ELSE UNCHANGED <<pc, do_debug, versHote>>
  /\ UNCHANGED <<inbuf, recu, somme, haut, sortie, suite, regs, mem, signo, connected, ecran, executees, faite>>
Accuse(c) ==
  /\ pc = "accuse"
  /\ IF c % 128 = Plus THEN Terminer(suite) /\ UNCHANGED versHote ELSE Envoi(sortie) /\ UNCHANGED <<pc, do_debug>>
  /\ UNCHANGED <<inbuf, recu, somme, haut, sortie, suite, regs, mem, signo, connected, ecran, executees, faite>>

EnLecture == pc \in {"attente", "donnees", "cs1", "cs2", "accuse"}
Lecture ==
  /\ EnLecture /\ versStub # <<>> /\ versStub' = Tail(versStub)
  /\ LET c == Head(versStub) IN Attendre(c) \/ Donnees(c) \/ Controle1(c) \/ Controle2(c) \/ Accuse(c)
  /\ UNCHANGED <<hote, fautes, emises, recue, miroir, ecrits, lus>>

(* ---- the program and trap_handler                                            *)
Signo(no) == CASE no \in {0, 4, 5, 7, 8, 9, 15} -> 8        \* SIGFPE
               [] no \in {1, 3} -> 5                        \* SIGTRAP
               [] no \in 10..14 -> 11                       \* SIGSEGV
               [] OTHER -> 4                                \* SIGILL
debugger(s) ==                 \* enters gdb_serial_converse, which reports first
  LET frags == <<Brut(<<83>>), Hexa(<<s>>)>>
  IN /\ sortie' = Trame(Contenu(frags)) /\ Envoi(sortie') /\ pc' = "accuse" /\ suite' = "paquet"
     /\ faite' = [faite EXCEPT !.texte = Clair(frags)]
(* The program runs for a while and traps, trap 1 when the trace flag is set.   *)
(* Two addresses are enough to tell that it has run.                            *)
trap_handler(no) ==
  /\ pc = "programme" /\ (no = 1 <=> (regs[EFLAGS] \div EFL_TF) % 2 = 1)
  /\ regs' = [regs EXCEPT ![EIP] = IF @ = 0 THEN 1 ELSE 0] /\ signo' = Signo(no)
  /\ miroir' = [miroir EXCEPT !.regs = regs']
  /\ IF do_debug THEN debugger(Signo(no)) /\ UNCHANGED ecran
     ELSE pc' = "gele" /\ ecran' = "registres" /\ UNCHANGED <<sortie, versHote, suite, faite>>
  /\ UNCHANGED <<inbuf, recu, somme, haut, mem, connected, do_debug, versStub, hote, fautes, emises, executees, recue, ecrits, lus>>
enable_debugger == do_debug' = TRUE
(* The keys read while the registers are shown: space shows or hides them, i    *)
(* goes on, d calls the debugger, escape reboots.                               *)
Touche(t) ==
  /\ pc = "gele"
  /\ CASE t = "espace" -> /\ ecran' = IF ecran = "registres" THEN "programme" ELSE "registres"
                          /\ UNCHANGED <<pc, do_debug, sortie, versHote, suite, faite>>
       [] t = "i"      -> /\ ecran' = "programme" /\ pc' = "programme"
                          /\ UNCHANGED <<do_debug, sortie, versHote, suite, faite>>
       [] t = "d"      -> ecran' = "programme" /\ enable_debugger /\ debugger(signo)
       [] t = "echap"  -> pc' = "arret" /\ UNCHANGED <<ecran, do_debug, sortie, versHote, suite, faite>>
  /\ UNCHANGED <<inbuf, recu, somme, haut, regs, mem, signo, connected, versStub, hote, fautes, emises, executees, recue, miroir, ecrits, lus>>

(* The program writes a text: as it is, or in a packet when gdb is connected;   *)
(* nothing is written before the debugger is enabled, when it first reports.    *)
(* putpacket waits for its acknowledgement before the program goes on.          *)
Ecrire(brut, frags) ==
  /\ pc = "programme" /\ sortie # <<>> /\ Len(ecrits) < MAX_ECRITS
  /\ ecrits' = Append(ecrits, IF connected THEN Clair(frags) ELSE <<>>)
  /\ IF connected THEN sortie' = Trame(Contenu(frags)) /\ Envoi(sortie') /\ pc' = "accuse" /\ suite' = "programme"
                  ELSE Envoi(brut) /\ UNCHANGED <<sortie, pc, suite>>
  /\ UNCHANGED <<inbuf, recu, somme, haut, machine, versStub, hote, fautes, emises, executees, faite, recue, miroir, lus>>
SortieO == Brut(<<79>>)                                 \* "O"
gdb_serial_putchar(ch) == Ecrire(<<ch>>, <<SortieO, Hexa(<<ch>>)>>)
gdb_serial_puts(s) == Ecrire(Append(s, 10), <<SortieO, Hexa(s), Hexa(<<10>>)>>)

(* ---- the remote gdb (external).  It acts when the stub has nothing to read:  *)
(* each side reads its own line in order, so nothing is lost by that order.     *)
Repos == ~(EnLecture /\ versStub # <<>>) /\ pc # "commande"
Envoyer(c) ==
  /\ Repos /\ hote.etat = "pret" /\ Len(emises) < MAX_COMMANDES
  /\ hote' = [hote EXCEPT !.etat = "ack", !.commande = c]
  /\ versStub' = versStub \o Trame(c.paquet)
  /\ emises' = Append(emises, c.texte) /\ recue' = <<>>
  /\ UNCHANGED <<stub, machine, versHote, fautes, executees, faite, miroir, ecrits, lus>>

Deplier(s) ==                  \* gdb's reading of a packet: '*' repeats the character before it
  LET reste[i \in 1..Len(s) + 2] ==
        IF i > Len(s) THEN <<>>
        ELSE IF i + 2 <= Len(s) /\ s[i + 1] = Etoile THEN [j \in 1..s[i + 2] - 28 |-> s[i]] \o reste[i + 3]
        ELSE <<s[i]>> \o reste[i + 1]
  IN reste[1]
(* What gdb believes once a command is answered: a refused one promises nothing. *)
Croire(c, texte) ==
  IF texte # <<79, 75>> THEN [mem |-> mem, regs |-> regs]
  ELSE CASE c.effet = "memoire" -> [miroir EXCEPT !.mem = [x \in DOMAIN @ |-> IF x - c.a + 1 \in 1..Len(c.octets) THEN c.octets[x - c.a + 1] ELSE @[x]]]
         [] c.effet = "regs" -> [miroir EXCEPT !.regs = c.octets]
         [] c.effet = "registre" -> [miroir EXCEPT !.regs[c.a] = c.octets[1]]
         [] OTHER -> miroir
(* Text of the program, not "OK".                                               *)
EstTexte(s) == Len(s) > 1 /\ s[1] = 79 /\ hex(s[2]) # -1
Lu(h, s) == hote' = h /\ versStub' = versStub \o s
TrameLue(h) ==                 \* '#' and two digits have been read
  IF h.etat = "ack" THEN Lu([h EXCEPT !.phase = "dehors", !.lu = <<>>], <<Plus>>) /\ UNCHANGED <<recue, miroir, lus>>
  ELSE LET n == Len(h.lu) - 3
           corps == SubSeq(h.lu, 1, n)
           juste == Somme(corps) = Joindre(hex(h.lu[n + 2]), hex(h.lu[n + 3]))
       IN IF juste /\ EstTexte(Deplier(corps))
          THEN /\ Lu([h EXCEPT !.phase = "dehors", !.lu = <<>>], <<Plus>>)
               /\ lus' = Append(lus, Deplier(corps)) /\ UNCHANGED <<recue, miroir>>
          ELSE IF juste
          THEN /\ UNCHANGED lus
               /\ Lu([h EXCEPT !.phase = "dehors", !.lu = <<>>, !.etat = IF h.commande.effet = "detache" THEN "parti" ELSE "pret"], <<Plus>>)
               /\ recue' = [commande |-> h.commande.texte, texte |-> Deplier(corps)]
               /\ miroir' = Croire(h.commande, Deplier(corps))
          ELSE Lu([h EXCEPT !.phase = "dehors", !.lu = <<>>], <<Moins>>) /\ UNCHANGED <<recue, miroir, lus>>
(* The character after '*' is a count, even '#' or '$'.                         *)
Compte(s) == Len(s) > 0 /\ s[Len(s)] = Etoile
LectureHote ==
  /\ Repos /\ hote.etat \in {"ack", "reponse"} /\ versHote # <<>> /\ versHote' = Tail(versHote)
  /\ LET c == Head(versHote)
         h == [hote EXCEPT !.lu = Append(@, c)]
         garde == UNCHANGED <<versStub, recue, miroir, lus>>
     IN CASE hote.phase = "dehors" ->
               /\ UNCHANGED <<recue, miroir, lus>>
               /\ CASE c = Dollar -> Lu([hote EXCEPT !.phase = "dedans", !.lu = <<>>], <<>>)
                    [] c = Plus /\ hote.etat = "ack" ->
                         Lu([hote EXCEPT !.etat = CASE hote.commande.effet = "arret" -> "parti"
                                                    [] hote.commande.effet = "muet" -> "pret" [] OTHER -> "reponse"], <<>>)
                    [] c = Moins /\ hote.etat = "ack" -> Lu(hote, Trame(hote.commande.paquet))
                    [] OTHER -> Lu(hote, <<>>)
          [] hote.phase = "dedans" /\ Compte(hote.lu) -> hote' = h /\ garde
          [] hote.phase = "dedans" /\ c = Dollar -> hote' = [hote EXCEPT !.lu = <<>>] /\ garde
          [] hote.phase = "dedans" /\ c = Diese -> hote' = [h EXCEPT !.phase = "cs1"] /\ garde
          [] hote.phase = "dedans" -> hote' = h /\ garde
          [] hote.phase = "cs1" -> hote' = [h EXCEPT !.phase = "cs2"] /\ garde
          [] hote.phase = "cs2" -> TrameLue(h)
  /\ UNCHANGED <<stub, machine, fautes, emises, executees, faite, ecrits>>
(* The line is silent and the stub waits: gdb sends its packet again, or asks   *)
(* for the reply again (its user does, when the program was running).           *)
Delai ==
  /\ hote.etat \in {"ack", "reponse"} /\ EnLecture /\ versStub = <<>> /\ versHote = <<>>
  /\ hote' = [hote EXCEPT !.phase = "dehors", !.lu = <<>>]
  /\ versStub' = IF hote.etat = "ack" THEN Trame(hote.commande.paquet) ELSE <<Moins>>
  /\ UNCHANGED <<stub, machine, versHote, fautes, histoire>>
(* The line loses a character, or delivers another one.                         *)
Abime(s) == {Tail(s), <<0>> \o Tail(s)}
Faute ==
  /\ fautes < MAX_FAUTES /\ fautes' = fautes + 1
  /\ \/ versStub # <<>> /\ versStub' \in Abime(versStub) /\ UNCHANGED versHote
     \/ Repos /\ versHote # <<>> /\ versHote' \in Abime(versHote) /\ UNCHANGED versStub
  /\ UNCHANGED <<stub, machine, hote, histoire>>

Init ==
  /\ pc = "programme" /\ inbuf = [i \in 1..BUFMAX + 1 |-> 0] /\ recu = 0 /\ somme = 0 /\ haut = 0
  /\ sortie = <<>> /\ suite = "paquet"
  /\ regs = [i \in 1..REGISTRES |-> 0] /\ mem = [x \in 0..TAILLE - 1 |-> CONTENU[x + 1]]
  /\ signo = 0 /\ connected = FALSE /\ do_debug = FALSE /\ ecran = "programme"
  /\ versStub = <<>> /\ versHote = <<>> /\ fautes = 0
  /\ hote = [etat |-> "pret", phase |-> "dehors", lu |-> <<>>, commande |-> [effet |-> "", paquet |-> <<>>]]
  /\ emises = <<>> /\ executees = <<>> /\ faite = [commande |-> <<>>, texte |-> <<>>] /\ recue = <<>>
  /\ ecrits = <<>> /\ lus = <<>>
  /\ miroir = [mem |-> mem, regs |-> regs]
Next ==
  \/ Lecture \/ Commande \/ LectureHote \/ Delai \/ Faute
  \/ \E no \in TRAPPES : trap_handler(no)
  \/ \E t \in {"espace", "i", "d", "echap"} : Touche(t)
  \/ \E c \in COMMANDES : Envoyer(c)
  \/ \E s \in {t \in TEXTES : Len(t) # 1} : gdb_serial_puts(s)
  \/ \E s \in {t \in TEXTES : Len(t) = 1} : gdb_serial_putchar(s[1])
(* The stub, the program once resumed under the debugger, and gdb go on; the    *)
(* line's faults are few.  This is weak fairness of Travail, with the guards of *)
(* its actions for ENABLED Travail.                                             *)
Execute == do_debug /\ \E no \in TRAPPES : trap_handler(no)
Travail == Lecture \/ Commande \/ LectureHote \/ Delai \/ Execute
AFaire == \/ EnLecture /\ (versStub # <<>> \/ hote.etat \in {"ack", "reponse"})
          \/ pc = "commande"
          \/ Repos /\ hote.etat \in {"ack", "reponse"} /\ versHote # <<>>
          \/ do_debug /\ pc = "programme"
Spec == Init /\ [][Next]_vars /\ ([]<>~AFaire \/ []<><<Travail>>_vars)
================================================================================
