---------------------------- MODULE ClavierProp ----------------------------
(***************************************************************************)
(* What the keyboard driver must satisfy.                                  *)
(***************************************************************************)
EXTENDS Clavier

Tenues(m) == {k \in tenues : k \in TOUCHES /\ key_maps[{}][k] = <<"SHIFT", m>>}

(* Once its bytes are consumed, the driver knows exactly the keys that the *)
(* user holds, no prefix is pending, and each modifier is counted as many  *)
(* times as keys that mean it are held, whether its counters were updated  *)
(* key by key (do_shift) or recomputed where no keymap exists              *)
(* (compute_shiftstate), and in spite of repetitions, of the false shifts  *)
(* around grey keys and of the six bytes of Pause; the lights, if ever set,*)
(* are those of the locks.                                                 *)
EtatFidele ==
  octets = << >> =>
    /\ pilote.prev_scancode = 0
    /\ pilote.key_down = tenues
    /\ pilote.ledstate \in {INDEFINI, pilote.ledflagstate}
    /\ \A m \in Modificateurs : pilote.k_down[m] = Cardinality(Tenues(m))
    /\ pilote.shift_state = {m \in Modificateurs : Tenues(m) # {}}

(* What a byte sends: with no modifier but the shifts, a letter is upper   *)
(* case when exactly one of Shift and CapsLock is on, whatever code typed  *)
(* on the pad may be a letter's; that code comes out at the release of a   *)
(* modifier only, and is never left behind when the last one is up, even   *)
(* if the modifier it was typed with went up where no keymap exists.       *)
EnvoiJuste ==
  [][traitant_clavier =>
       LET e == pilote'.envoye
           sorti == pilote.npadch # RIEN /\ pilote'.npadch = RIEN
       IN /\ <<"car", 65>> \in Range(e) /\ ~sorti =>
               ("CAPSLOCK" \in pilote.ledflagstate) # (Tenues(SHIFT) # {})
          /\ e = Car(97) /\ pilote.npadch = RIEN /\ pilote.shift_state \subseteq {SHIFT} =>
               ("CAPSLOCK" \in pilote.ledflagstate) = (Tenues(SHIFT) # {})
          /\ sorti => e # << >> /\ pilote'.key_down \subseteq pilote.key_down
          /\ pilote'.npadch # RIEN => pilote'.shift_state # {}]_vars

=============================================================================
