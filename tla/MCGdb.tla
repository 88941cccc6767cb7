--------------------------------- MODULE MCGdb ---------------------------------
EXTENDS GdbProp

(* Commands of gdb: c/effect, address, bytes and number of bytes.               *)
Cmd(effet, texte, a, octets, n) == [effet |-> effet, texte |-> texte, paquet |-> texte, a |-> a, octets |-> octets, n |-> n]
Chiffre(n) == <<hexchars[n + 1]>>
Lecture_(a, n) == Cmd("lire", <<109>> \o Chiffre(a) \o <<Virgule>> \o Chiffre(n), a, <<>>, n)
M_(a, s) == Cmd("memoire", <<77>> \o Chiffre(a) \o <<Virgule>> \o Chiffre(Len(s)) \o <<DeuxPoints>> \o EnHexa(s), a, s, 0)
X_(a, s, brut) == Cmd("memoire", <<88>> \o Chiffre(a) \o <<Virgule>> \o Chiffre(Len(brut)) \o <<DeuxPoints>> \o brut, a, s, 0)
(* Fewer bytes announced than sent: the last one counted is a quote.            *)
Tronque(a, brut) == [X_(a, <<>>, brut) EXCEPT !.texte[4] = 48 + Len(brut) - 1, !.paquet[4] = 48 + Len(brut) - 1]
Simple(effet, texte) == Cmd(effet, texte, 0, <<>>, 0)
AvecNumero(c) == [c EXCEPT !.paquet = <<49, 50, DeuxPoints>> \o @]

mcCommandes ==
  {Lecture_(0, 5), Lecture_(5, 2), AvecNumero(M_(1, <<58, 58>>)), M_(4, <<1, 2>>), X_(0, <<125, 2>>, <<125, 93, 2>>),
   Tronque(3, <<7, 125, 93>>), Simple("lireRegs", <<103>>), Cmd("regs", <<71>> \o EnHexa(<<9, 8, 1>>), 0, <<9, 8, 1>>, 0),
   Cmd("registre", <<80, 49, Egal>> \o EnHexa(<<77>>), 2, <<77>>, 0), Simple("", <<80, 57, Egal, 48, 48>>),
   Simple("courir", <<99>>), Simple("courir", <<115, 50>>), Simple("courir", <<83, 48, 53>>),
   Simple("", <<63>>), Simple("", <<72, 103, 48>>), Simple("detache", <<68>>), Simple("muet", <<82>>), Simple("arret", <<107>>)}
mcTextes == {<<65>>, <<51, 51, 51>>}
mcContenu == <<0, 0, 0, 0, 58>>
================================================================================
