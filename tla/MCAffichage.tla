------------------------------ MODULE MCAffichage ------------------------------
EXTENDS AffichageProp

mcFormats == {<<Litteral(<<"a">>)>>, <<Litteral(<<"b", "c", "d">>)>>, <<Litteral(<<"e", "LF", "f">>)>>,
              <<Litteral(<<"g", "BS", "CR">>)>>, <<[Neutre EXCEPT !.conv = "s", !.largeur = 5, !.texte = <<"h">>]>>}
mcDirectives ==
  {[Neutre EXCEPT !.alt = a, !.gauche = g, !.plus = p, !.zero = z, !.largeur = l, !.prec = k, !.conv = c, !.u = u] :
     a \in BOOLEAN, g \in BOOLEAN, p \in {<<>>, <<" ">>, <<"+">>}, z \in BOOLEAN, l \in {0, 3, -5},
     k \in {-1, 3}, c \in {"d", "u", "o", "x", "z", "p"}, u \in {0, 1, 9, 23, 31, 32, 63}}
  \cup {[Neutre EXCEPT !.gauche = g, !.largeur = l, !.prec = k, !.conv = "s", !.texte = s] :
          g \in BOOLEAN, l \in {0, 2, 4, -4}, k \in {-1, 0, 2, 3}, s \in {<<>>, <<"a", "b">>, <<"a", "b", "c">>}}
  \cup {[Neutre EXCEPT !.conv = "b", !.u = u, !.base = 16, !.texte = <<>>,
           !.champs = <<[bit |-> 4, bas |-> 3, nom |-> <<"f">>], [bit |-> 2, bas |-> 0, nom |-> <<"g">>],
                        [bit |-> 1, bas |-> 0, nom |-> <<"h">>]>>] : u \in 0..15}
================================================================================
