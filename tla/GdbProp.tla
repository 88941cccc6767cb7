-------------------------------- MODULE GdbProp --------------------------------
EXTENDS Gdb

(* What the stub executes is what gdb sent, in the order it was sent: nothing   *)
(* is made up from a damaged packet, skipped or swapped, and a command is       *)
(* executed again only when a fault hid its acknowledgement, at most once for   *)
(* each fault (getpacket's checksum and '-', gdb's retransmission).  It is      *)
(* stated for one fault: a second one that damages the checksum's digits can    *)
(* make an 8-bit sum agree, as hex's -1 is added like a digit.                  *)
SansRepetition(s) == FoldLeft(LAMBDA t, x : IF t # <<>> /\ Last(t) = x THEN t ELSE Append(t, x), <<>>, s)
CommandesFideles ==
  IsPrefix(SansRepetition(executees), SansRepetition(emises)) /\ Len(executees) <= Len(emises) + fautes

(* Whatever was lost or sent twice, the reply gdb takes for its command is the  *)
(* one the stub made for it, uncompressed: not the previous one, not a stop     *)
(* report in its place, not the text the program writes meanwhile, not a        *)
(* damaged one (putfrags, its run lengths and its retransmission until '+').    *)
(* And that text comes out as it was written and in order, a fault costing no   *)
(* more than one repetition or one loss (gdb_serial_putchar, gdb_serial_puts).  *)
ReponseJuste ==
  /\ hote.etat = "pret" /\ recue # <<>> => recue = faite
  /\ SansRepetition(lus) \in AllSubSeqs(ecrits) /\ Len(lus) <= Len(ecrits) + fautes

(* When gdb has its replies, the memory and the registers are those its         *)
(* successful commands set, and what it read of them is what they hold          *)
(* (strtoul, hex2bin, the '}' quotes of 'X', gdb_copyin and gdb_copyout).       *)
MiroirExact ==
  hote.etat = "pret" /\ recue # <<>> =>
    /\ mem = miroir.mem /\ regs = miroir.regs
    /\ LET c == hote.commande
       IN CASE c.effet = "lire"     -> recue.texte = IF c.a + c.n > TAILLE THEN Clair(Erreur(3))
                                                     ELSE EnHexa([i \in 1..c.n |-> mem[c.a + i - 1]])
            [] c.effet = "lireRegs" -> recue.texte = EnHexa(regs)
            [] OTHER -> TRUE

(* Once the faults are over, a command that gdb sends to a machine under the    *)
(* debugger is answered: neither side is left waiting for the other (getpacket  *)
(* and putfrags wait without a delay, so gdb's retransmission must always get   *)
(* them going), unless the machine is detached or restarted.                    *)
Attente == hote.etat \in {"ack", "reponse"} /\ do_debug /\ pc # "arret"
Servi == Attente ~> ~Attente
================================================================================
