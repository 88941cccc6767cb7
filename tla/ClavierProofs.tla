--------------------------- MODULE ClavierProofs ---------------------------
(***************************************************************************)
(* The keyboard driver, for any of the keys that the tables describe, any  *)
(* number of keys held at once and any modulus of the code of the pad:     *)
(* once its bytes are read the driver knows the keys that are held, and    *)
(* each byte sends what those keys call for.                               *)
(*                                                                         *)
(* The parts: the keymaps; a key and its modifier's counter; what a key    *)
(* sends; a byte; the sequences of bytes and what is left of them; the     *)
(* invariant, its steps and the two properties.                            *)
(***************************************************************************)
EXTENDS ClavierProp, FiniteSetTheorems, SequenceTheorems, TLAPS

(* The kinds of symbols that the seven keymaps hold, modifiers apart, and  *)
(* the specials among them.                                                *)
Genres == {"SPEC", "LATIN", "LETTER", "META", "PAD", "CUR", "FN", "ASCII"}

Speciales == {0, 1, 2, 3, 4, 7, 8, 9, 18}

(* A symbol that is no modifier.                                           *)
Ordinaire(sym) ==
  /\ sym[1] \in Genres
  /\ sym[1] = "SPEC" => sym[2] \in Speciales
  /\ sym[1] = "PAD" => sym[2] \in {7, 8, 14}
  /\ sym[1] = "ASCII" => sym[2] \in Nat

(* It sends neither A nor a.                                               *)
Muette(sym) == sym[1] # "LETTER" /\ (sym[1] \in {"LATIN", "META"} => sym[2] \notin {65, 97})

(* The keys of modifiers.                                                  *)
Modifieurs == {29, 42, 54, 56, 97, 100}

(* Only key 16 is a letter, A or a.                                        *)
Muettes16(c) == \A k \in ToutesTouches \ Modifieurs : k # 16 => Muette(c[k])

Cartes == {plain_map, shift_map, altgr_map, ctrl_map, altgr_ctrl_map, alt_map, ctrl_alt_map}

LEMMA PlainMap ==
  /\ DOMAIN plain_map = ToutesTouches
  /\ \A k \in ToutesTouches \ Modifieurs : Ordinaire(plain_map[k]) /\ plain_map[k][1] # "ASCII"
  /\ Muettes16(plain_map) /\ plain_map[16] = <<"LETTER", 97>>
  /\ \A k \in Modifieurs : plain_map[k][1] = "SHIFT" /\ plain_map[k][2] \in Modificateurs
                           /\ plain_map[k] = <<"SHIFT", plain_map[k][2]>>
<1>1. DOMAIN plain_map = ToutesTouches
  BY DEF plain_map
<1>2. /\ plain_map[42] = <<"SHIFT", SHIFT>> /\ plain_map[54] = <<"SHIFT", SHIFT>>
      /\ plain_map[29] = <<"SHIFT", CTRL>> /\ plain_map[97] = <<"SHIFT", CTRL>>
      /\ plain_map[56] = <<"SHIFT", ALT>> /\ plain_map[100] = <<"SHIFT", ALTGR>>
  BY DEF plain_map, ToutesTouches
<1>3. /\ plain_map[15] = <<"LATIN", 9>> /\ plain_map[16] = <<"LETTER", 97>>
      /\ plain_map[28] = <<"SPEC", 1>> /\ plain_map[58] = <<"SPEC", 7>>
      /\ plain_map[69] = <<"SPEC", 8>> /\ plain_map[70] = <<"SPEC", 9>>
  BY DEF plain_map, ToutesTouches
<1>4. /\ plain_map[71] = <<"PAD", 7>> /\ plain_map[72] = <<"PAD", 8>>
      /\ plain_map[96] = <<"PAD", 14>> /\ plain_map[103] = <<"CUR", 3>>
      /\ plain_map[119] = <<"FN", 29>>
  BY DEF plain_map, ToutesTouches
<1>5. ASSUME NEW k \in ToutesTouches \ Modifieurs
      PROVE  /\ Ordinaire(plain_map[k]) /\ plain_map[k][1] # "ASCII"
             /\ k # 16 => Muette(plain_map[k])
  <2>1. k \in {15, 16, 28, 58, 69, 70, 71, 72, 96, 103, 119}
    BY DEF ToutesTouches, Modifieurs
  <2>2. QED
    BY <1>3, <1>4, <2>1 DEF Ordinaire, Genres, Speciales, Muette
<1>6. ASSUME NEW k \in Modifieurs
      PROVE  /\ plain_map[k][1] = "SHIFT" /\ plain_map[k][2] \in Modificateurs
             /\ plain_map[k] = <<"SHIFT", plain_map[k][2]>>
  BY <1>2 DEF Modifieurs, Modificateurs
<1>7. QED
  BY <1>1, <1>3, <1>5, <1>6 DEF Muettes16

(* A symbol of any keymap is a modifier of its key, or ordinary.           *)
LEMMA DansUneCarte ==
  ASSUME NEW c \in Cartes
  PROVE  /\ \A k \in ToutesTouches \ Modifieurs : Ordinaire(c[k])
         /\ \A k \in Modifieurs : c[k] = plain_map[k]
         /\ Muettes16(c)
<1>1. {15, 16, 28, 69, 70, 71, 72, 96, 103} \cap Modifieurs = {} /\ Modifieurs \subseteq ToutesTouches
  BY DEF Modifieurs, ToutesTouches
<1>2. CASE c = plain_map
  BY <1>2, PlainMap
<1>3. CASE c = shift_map
  BY <1>1, <1>3, PlainMap DEF shift_map, Ordinaire, Genres, Speciales, Muette, Muettes16
<1>4. CASE c = altgr_map
  BY <1>1, <1>4, PlainMap DEF altgr_map, Ordinaire, Genres, Speciales, Muette, Muettes16
<1>5. (\A k \in ToutesTouches \ Modifieurs : Ordinaire(ctrl_map[k]))
      /\ (\A k \in Modifieurs : ctrl_map[k] = plain_map[k]) /\ DOMAIN ctrl_map = ToutesTouches
      /\ Muettes16(ctrl_map)
  BY <1>1, PlainMap DEF ctrl_map, Ordinaire, Genres, Speciales, Muette, Muettes16
<1>6. CASE c = altgr_ctrl_map
  BY <1>1, <1>5, <1>6, PlainMap DEF altgr_ctrl_map, Ordinaire, Genres, Speciales, Muette, Muettes16
<1>7. CASE c = alt_map
  BY <1>1, <1>7, PlainMap DEF alt_map, Ordinaire, Genres, Speciales, Muette, Muettes16
<1>8. CASE c = ctrl_alt_map
  BY <1>1, <1>8, PlainMap DEF ctrl_alt_map, Ordinaire, Genres, Speciales, Muette, Muettes16
<1>9. QED
  BY <1>2, <1>3, <1>4, <1>5, <1>6, <1>7, <1>8 DEF Cartes

(* What the letter of key 16 is in each keymap.                            *)
LEMMA Lettre ==
  /\ shift_map[16] = <<"LETTER", 65>> /\ altgr_map[16] = <<"LETTER", 97>>
  /\ ctrl_map[16] = <<"LATIN", 1>> /\ altgr_ctrl_map[16] = <<"LATIN", 1>>
  /\ alt_map[16] = <<"META", 97>> /\ ctrl_alt_map[16] = <<"META", 1>>
<1>1. 16 \in DOMAIN plain_map
  BY PlainMap DEF ToutesTouches
<1>2. QED
  BY <1>1, PlainMap DEF shift_map, altgr_map, ctrl_map, altgr_ctrl_map, alt_map, ctrl_alt_map

(* The seven sets of modifiers that have a keymap.                         *)
LEMMA KeyMaps ==
  /\ DOMAIN key_maps = {{}, {SHIFT}, {ALTGR}, {CTRL}, {ALTGR, CTRL}, {ALT}, {CTRL, ALT}}
  /\ key_maps[{SHIFT}] = shift_map /\ key_maps[{ALTGR}] = altgr_map /\ key_maps[{CTRL}] = ctrl_map
  /\ key_maps[{ALTGR, CTRL}] = altgr_ctrl_map /\ key_maps[{ALT}] = alt_map
  /\ key_maps[{CTRL, ALT}] = ctrl_alt_map
  /\ \A s \in DOMAIN key_maps : key_maps[s] \in Cartes
  /\ {} \in DOMAIN key_maps /\ key_maps[{}] = plain_map
<1>1. DOMAIN key_maps = {{}, {SHIFT}, {ALTGR}, {CTRL}, {ALTGR, CTRL}, {ALT}, {CTRL, ALT}}
  BY DEF key_maps
<1>2. key_maps[{}] = plain_map
  BY DEF key_maps
<1>3. ASSUME NEW s \in DOMAIN key_maps PROVE key_maps[s] \in Cartes
  BY <1>1 DEF key_maps, Cartes
<1>4. /\ key_maps[{SHIFT}] = shift_map /\ key_maps[{ALTGR}] = altgr_map
      /\ key_maps[{CTRL}] = ctrl_map /\ key_maps[{ALTGR, CTRL}] = altgr_ctrl_map
      /\ key_maps[{ALT}] = alt_map /\ key_maps[{CTRL, ALT}] = ctrl_alt_map
  <2>1. ASSUME NEW s \in DOMAIN key_maps
        PROVE  key_maps[s] = CASE s = {}            -> plain_map
                               [] s = {SHIFT}       -> shift_map
                               [] s = {ALTGR}       -> altgr_map
                               [] s = {CTRL}        -> ctrl_map
                               [] s = {ALTGR, CTRL} -> altgr_ctrl_map
                               [] s = {ALT}         -> alt_map
                               [] s = {CTRL, ALT}   -> ctrl_alt_map
    BY DEF key_maps
  <2>2. SHIFT = 0 /\ ALTGR = 1 /\ CTRL = 2 /\ ALT = 3
    BY DEF SHIFT, ALTGR, CTRL, ALT
  <2>3. key_maps[{SHIFT}] = shift_map
    <3>1. PICK s : s = {SHIFT}
      OBVIOUS
    <3>2. SHIFT \in s /\ ALTGR \notin s /\ CTRL \notin s /\ ALT \notin s
      BY <2>2, <3>1
    <3>3. s \in DOMAIN key_maps
      BY <1>1, <3>1
    <3>4. s # {} /\ s # {ALTGR} /\ s # {CTRL} /\ s # {ALTGR, CTRL} /\ s # {ALT} /\ s # {CTRL, ALT}
      BY <2>2, <3>2
    <3>5. key_maps[s] = shift_map
      BY <2>1, <3>1, <3>3, <3>4
    <3>6. QED
      BY <3>1, <3>5
  <2>4. key_maps[{ALTGR}] = altgr_map
    <3>1. PICK s : s = {ALTGR}
      OBVIOUS
    <3>2. SHIFT \notin s /\ ALTGR \in s /\ CTRL \notin s /\ ALT \notin s
      BY <2>2, <3>1
    <3>3. s \in DOMAIN key_maps
      BY <1>1, <3>1
    <3>4. s # {} /\ s # {SHIFT} /\ s # {CTRL} /\ s # {ALTGR, CTRL} /\ s # {ALT} /\ s # {CTRL, ALT}
      BY <2>2, <3>2
    <3>5. key_maps[s] = altgr_map
      BY <2>1, <3>1, <3>3, <3>4
    <3>6. QED
      BY <3>1, <3>5
  <2>5. key_maps[{CTRL}] = ctrl_map
    <3>1. PICK s : s = {CTRL}
      OBVIOUS
    <3>2. SHIFT \notin s /\ ALTGR \notin s /\ CTRL \in s /\ ALT \notin s
      BY <2>2, <3>1
    <3>3. s \in DOMAIN key_maps
      BY <1>1, <3>1
    <3>4. s # {} /\ s # {SHIFT} /\ s # {ALTGR} /\ s # {ALTGR, CTRL} /\ s # {ALT} /\ s # {CTRL, ALT}
      BY <2>2, <3>2
    <3>5. key_maps[s] = ctrl_map
      BY <2>1, <3>1, <3>3, <3>4
    <3>6. QED
      BY <3>1, <3>5
  <2>6. key_maps[{ALTGR, CTRL}] = altgr_ctrl_map
    <3>1. PICK s : s = {ALTGR, CTRL}
      OBVIOUS
    <3>2. SHIFT \notin s /\ ALTGR \in s /\ CTRL \in s /\ ALT \notin s
      BY <2>2, <3>1
    <3>3. s \in DOMAIN key_maps
      BY <1>1, <3>1
    <3>4. s # {} /\ s # {SHIFT} /\ s # {ALTGR} /\ s # {CTRL} /\ s # {ALT} /\ s # {CTRL, ALT}
      BY <2>2, <3>2
    <3>5. key_maps[s] = altgr_ctrl_map
      BY <2>1, <3>1, <3>3, <3>4
    <3>6. QED
      BY <3>1, <3>5
  <2>7. key_maps[{ALT}] = alt_map
    <3>1. PICK s : s = {ALT}
      OBVIOUS
    <3>2. SHIFT \notin s /\ ALTGR \notin s /\ CTRL \notin s /\ ALT \in s
      BY <2>2, <3>1
    <3>3. s \in DOMAIN key_maps
      BY <1>1, <3>1
    <3>4. s # {} /\ s # {SHIFT} /\ s # {ALTGR} /\ s # {CTRL} /\ s # {ALTGR, CTRL} /\ s # {CTRL, ALT}
      BY <2>2, <3>2
    <3>5. key_maps[s] = alt_map
      BY <2>1, <3>1, <3>3, <3>4
    <3>6. QED
      BY <3>1, <3>5
  <2>8. key_maps[{CTRL, ALT}] = ctrl_alt_map
    <3>1. PICK s : s = {CTRL, ALT}
      OBVIOUS
    <3>2. SHIFT \notin s /\ ALTGR \notin s /\ CTRL \in s /\ ALT \in s
      BY <2>2, <3>1
    <3>3. s \in DOMAIN key_maps
      BY <1>1, <3>1
    <3>4. s # {} /\ s # {SHIFT} /\ s # {ALTGR} /\ s # {CTRL} /\ s # {ALTGR, CTRL} /\ s # {ALT}
      BY <2>2, <3>2
    <3>5. key_maps[s] = ctrl_alt_map
      BY <2>1, <3>1, <3>3, <3>4
    <3>6. QED
      BY <3>1, <3>5
  <2>9. QED
    BY <2>3, <2>4, <2>5, <2>6, <2>7, <2>8
<1>5. QED
  BY <1>1, <1>2, <1>3, <1>4

(* The keys of S that mean the modifier m.                                 *)
De(S, m) == {k \in S : plain_map[k] = <<"SHIFT", m>>}

(* Counting the keys of a modifier needs finite sets.                      *)
LEMMA Finies == IsFiniteSet(ToutesTouches) /\ IsFiniteSet(TOUCHES)
<1>1. IsFiniteSet(0..119)
  <2>1. 0 \in Int /\ 119 \in Int
    OBVIOUS
  <2>2. QED
    BY <2>1, FS_Interval
<1>2. ToutesTouches \subseteq 0..119
  BY DEF ToutesTouches
<1>3. QED
  BY <1>1, <1>2, FS_Subset, ClavierAssumption

Champs(c) ==
  c = [prev_scancode |-> c.prev_scancode, key_down |-> c.key_down, k_down |-> c.k_down,
       shift_state |-> c.shift_state, npadch |-> c.npadch, ledflagstate |-> c.ledflagstate,
       ledstate |-> c.ledstate, stopped |-> c.stopped, envoye |-> c.envoye]

(* The modifiers are those of the keys that are down.                      *)
Compte(c) ==
  /\ Champs(c) /\ c.key_down \subseteq TOUCHES
  /\ c.k_down \in [Modificateurs -> Nat] /\ c.shift_state \subseteq Modificateurs
  /\ \A m \in Modificateurs : /\ c.k_down[m] = Cardinality(De(c.key_down, m))
                              /\ m \in c.shift_state <=> De(c.key_down, m) # {}

(* d has the keys, the modifiers and the prefix of c.                      *)
MemesTouches(d, c) ==
  /\ Champs(d)
  /\ d.prev_scancode = c.prev_scancode /\ d.key_down = c.key_down
  /\ d.k_down = c.k_down /\ d.shift_state = c.shift_state

LEMMA DeVide ==
  ASSUME NEW S \in SUBSET TOUCHES, NEW m
  PROVE  /\ Cardinality(De(S, m)) \in Nat
         /\ Cardinality(De(S, m)) > 0 <=> De(S, m) # {}
<1>1. IsFiniteSet(De(S, m))
  BY Finies, FS_Subset DEF De
<1>2. QED
  BY <1>1, FS_EmptySet, FS_CardinalityType

(* compute_shiftstate establishes Compte by itself.                        *)
LEMMA Recompte ==
  ASSUME NEW c, Champs(c), c.key_down \subseteq TOUCHES, NEW d, d = compute_shiftstate(c)
  PROVE  Compte(d) /\ d.key_down = c.key_down /\ d.prev_scancode = c.prev_scancode
<1>1. PICK S \in SUBSET TOUCHES : S = c.key_down
  OBVIOUS
<1>2. PICK n : n = [m \in Modificateurs |-> Cardinality(De(S, m))]
  OBVIOUS
<1>3. PICK t : t = {m \in Modificateurs : De(S, m) # {}}
  OBVIOUS
<1>4. d = [c EXCEPT !.k_down = n, !.shift_state = t]
  BY <1>1, <1>2, <1>3, KeyMaps DEF compute_shiftstate, De
<1>5. n \in [Modificateurs -> Nat] /\ \A m \in Modificateurs : n[m] = Cardinality(De(S, m))
  BY <1>2, DeVide
<1>6. Champs(d) /\ d.k_down = n /\ d.shift_state = t /\ d.key_down = S
      /\ d.prev_scancode = c.prev_scancode
  BY <1>1, <1>4 DEF Champs
<1>7. QED
  BY <1>1, <1>3, <1>5, <1>6 DEF Compte

(* A symbol that is no modifier leaves keys, modifiers and prefix alone.   *)
LEMMA Neutre ==
  ASSUME NEW c, Champs(c), NEW sym, Ordinaire(sym), sym[1] # "LETTER",
         NEW up \in BOOLEAN, NEW rep \in BOOLEAN,
         NEW d, d = key_handler(c, sym, up, rep)
  PROVE  MemesTouches(d, c) \/ d = compute_shiftstate(c)
<1>1. MemesTouches(c, c)
  BY DEF MemesTouches
<1>2. ASSUME NEW s, NEW e, e = keyboard_data(c, s) PROVE MemesTouches(e, c)
  BY <1>2 DEF keyboard_data, MemesTouches, Champs
<1>3. CASE up
  BY <1>1, <1>3 DEF key_handler, Ordinaire, Genres
<1>4. CASE ~up /\ sym[1] = "SPEC"
  <2>1. d = do_spec(c, sym[2], rep) /\ sym[2] \in Speciales
    BY <1>4 DEF key_handler, Ordinaire
  <2>2. PICK v : v = sym[2]
    OBVIOUS
  <2>3. CASE v = 0
    <3>1. do_spec(c, v, rep) = compute_shiftstate(c)
      BY <2>3 DEF do_spec, Muettes
    <3>2. QED
      BY <2>1, <2>2, <3>1
  <2>4. CASE v = 1
    <3>1. do_spec(c, v, rep) = keyboard_data(c, Car(13))
      BY <2>4 DEF do_spec, Muettes, enter, put_queue
    <3>2. QED
      BY <1>2, <2>1, <2>2, <3>1
  <2>5. CASE v \in {7, 8}
    <3>1. do_spec(c, v, rep) = IF rep THEN c ELSE [c EXCEPT !.ledflagstate =
                                                     Bascule(@, IF v = 7 THEN "CAPSLOCK" ELSE "NUMLOCK")]
      BY <2>5 DEF do_spec, Muettes, caps_toggle, num, bare_num, chg_vc_kbd_led
    <3>2. QED
      BY <1>1, <2>1, <2>2, <3>1 DEF MemesTouches, Champs
  <2>6. CASE v = 9
    <3>1. do_spec(c, v, rep) = hold(c, rep)
      BY <2>6 DEF do_spec, Muettes
    <3>2. QED
      <4>1. d = c \/ \E x : d = [c EXCEPT !.stopped = x]
        BY <2>1, <2>2, <3>1 DEF hold, keyboard_start_tty, keyboard_stop_tty
      <4>2. CASE d = c
        BY <1>1, <4>2
      <4>3. CASE \E x : d = [c EXCEPT !.stopped = x]
        BY <4>3 DEF MemesTouches, Champs
      <4>4. QED
        BY <4>1, <4>2, <4>3
  <2>7. CASE v \in {2, 3, 4, 18}
    <3>1. do_spec(c, v, rep) = c
      BY <2>7 DEF do_spec, Muettes
    <3>2. QED
      BY <1>1, <2>1, <2>2, <3>1
  <2>8. QED
    BY <2>1, <2>2, <2>3, <2>4, <2>5, <2>6, <2>7 DEF Speciales
<1>5. CASE ~up /\ sym[1] = "LATIN"
  BY <1>2, <1>5 DEF key_handler, do_self, put_queue
<1>6. CASE ~up /\ sym[1] = "META"
  <2>1. PICK v, e : v = sym[2] /\ e = keyboard_data(c, Car(27))
    OBVIOUS
  <2>2. d = keyboard_data(e, Car(v))
    BY <1>6, <2>1 DEF key_handler, do_meta, put_queue
  <2>3. MemesTouches(e, c)
    BY <1>2, <2>1
  <2>4. MemesTouches(d, e)
    BY <2>2, <2>3 DEF keyboard_data, MemesTouches, Champs
  <2>5. QED
    BY <2>3, <2>4 DEF MemesTouches
<1>7. CASE ~up /\ sym[1] = "PAD"
  <2>1. d = do_pad(c, sym[2])
    BY <1>7 DEF key_handler
  <2>2. QED
    BY <1>1, <1>2, <2>1 DEF do_pad, do_fn, do_cur, applkey, puts_queue, put_queue
<1>8. CASE ~up /\ sym[1] = "CUR"
  BY <1>2, <1>8 DEF key_handler, do_cur, applkey, puts_queue
<1>9. CASE ~up /\ sym[1] = "FN"
  BY <1>1, <1>2, <1>9 DEF key_handler, do_fn, puts_queue
<1>10. CASE ~up /\ sym[1] = "ASCII"
  BY <1>10 DEF key_handler, do_ascii, MemesTouches, Champs
<1>11. QED
  BY <1>3, <1>4, <1>5, <1>6, <1>7, <1>8, <1>9, <1>10 DEF Ordinaire, Genres

-----------------------------------------------------------------------------
(* What Symbole finds: the key's own modifier, or something ordinary.      *)
LEMMA SymboleProp ==
  ASSUME NEW c, c.shift_state \in DOMAIN key_maps, NEW k \in ToutesTouches, NEW s, s = Symbole(c, k)
  PROVE  /\ k \in Modifieurs => s = plain_map[k]
         /\ k \notin Modifieurs => Ordinaire(s) /\ s[1] # "LETTER"
<1>1. PICK r : r = key_maps[c.shift_state][k]
  OBVIOUS
<1>2. k \in Modifieurs => r = plain_map[k]
  BY <1>1, KeyMaps, DansUneCarte
<1>3. k \notin Modifieurs => Ordinaire(r)
  BY <1>1, KeyMaps, DansUneCarte
<1>4. CASE r[1] # "LETTER"
  BY <1>1, <1>2, <1>3, <1>4 DEF Symbole
<1>5. CASE r[1] = "LETTER"
  <2>1. k \notin Modifieurs
    BY <1>2, <1>5, PlainMap
  <2>2. PICK v : s = <<"LATIN", v>>
    BY <1>1, <1>5 DEF Symbole
  <2>3. QED
    BY <2>1, <2>2 DEF Ordinaire, Genres
<1>6. QED
  BY <1>4, <1>5

(* One key more, or less, counts for one modifier at most.                 *)
LEMMA DeAjout ==
  ASSUME NEW S \in SUBSET TOUCHES, NEW k \in TOUCHES, k \notin S, NEW m
  PROVE  /\ Cardinality(De(S, m)) \in Nat
         /\ plain_map[k] = <<"SHIFT", m>> =>
              /\ Cardinality(De(S \cup {k}, m)) = Cardinality(De(S, m)) + 1
              /\ De(S \cup {k}, m) # {}
         /\ plain_map[k] # <<"SHIFT", m>> => De(S \cup {k}, m) = De(S, m)
<1>1. IsFiniteSet(De(S, m))
  BY Finies, FS_Subset DEF De
<1>2. De(S \cup {k}, m) = IF plain_map[k] = <<"SHIFT", m>> THEN De(S, m) \cup {k} ELSE De(S, m)
  BY DEF De
<1>3. k \notin De(S, m)
  BY DEF De
<1>4. QED
  BY <1>1, <1>2, <1>3, FS_AddElement, FS_CardinalityType

(* A key goes up, if it is down, or down, perhaps again.                   *)
ApresTouche(S, k, haut) == IF haut THEN S \ {k} ELSE S \cup {k}

Decale(d, c, k, haut) == d = do_shift(c, plain_map[k][2], haut, FALSE)

Deplace(c, a, k, haut) == c = [a EXCEPT !.key_down = ApresTouche(@, k, haut)]

(* A modifier's key goes up or down: its counter follows.                  *)
LEMMA DoShift ==
  ASSUME NEW a, Compte(a), NEW k \in TOUCHES, k \in Modifieurs, NEW haut \in BOOLEAN,
         haut <=> k \in a.key_down,
         NEW c, Deplace(c, a, k, haut),
         NEW d, Decale(d, c, k, haut)
  PROVE  Compte(d) /\ d.key_down = c.key_down /\ d.prev_scancode = a.prev_scancode
<1>1. PICK m \in Modificateurs : plain_map[k] = <<"SHIFT", m>> /\ plain_map[k][2] = m
  BY PlainMap
<1>2. \A x \in Modificateurs : x # m => plain_map[k] # <<"SHIFT", x>>
  BY <1>1
<1>3. PICK S \in SUBSET TOUCHES, T \in SUBSET TOUCHES : S = a.key_down /\ T = c.key_down
  BY DEF Compte, Champs, ApresTouche, Deplace
<1>4. T = IF haut THEN S \ {k} ELSE S \cup {k}
  BY <1>3 DEF Compte, Champs, ApresTouche, Deplace
<1>5. \A x \in Modificateurs : x # m => De(T, x) = De(S, x)
  BY <1>2, <1>4 DEF De
<1>6. PICK n \in Nat : n = Cardinality(De(T, m))
  BY DeVide
<1>7. n = IF haut THEN (IF a.k_down[m] > 0 THEN a.k_down[m] - 1 ELSE 0) ELSE a.k_down[m] + 1
  <2>1. a.k_down[m] = Cardinality(De(S, m))
    BY <1>3 DEF Compte
  <2>2. CASE haut
    <3>1. S = T \cup {k} /\ k \notin T
      BY <1>3, <1>4, <2>2
    <3>2. Cardinality(De(T \cup {k}, m)) = Cardinality(De(T, m)) + 1
      <4>1. k \notin T /\ plain_map[k] = <<"SHIFT", m>>
        BY <1>1, <3>1
      <4>2. QED
        BY <4>1, DeAjout, Zenon
    <3>3. a.k_down[m] = n + 1
      BY <1>6, <2>1, <3>1, <3>2
    <3>4. QED
      BY <2>2, <3>3
  <2>3. CASE ~haut
    <3>1. k \notin S /\ T = S \cup {k}
      BY <1>3, <1>4, <2>3
    <3>2. Cardinality(De(S \cup {k}, m)) = Cardinality(De(S, m)) + 1
      <4>1. k \in TOUCHES /\ k \notin S /\ plain_map[k] = <<"SHIFT", m>>
        BY <1>1, <3>1
      <4>2. QED
        BY <4>1, DeAjout
    <3>3. n = a.k_down[m] + 1
      BY <1>6, <2>1, <3>1, <3>2
    <3>4. QED
      BY <2>3, <3>3
  <2>4. QED
    BY <2>2, <2>3
<1>8. n > 0 <=> De(T, m) # {}
  BY <1>6, DeVide
<1>9. PICK s : s = IF n > 0 THEN a.shift_state \cup {m} ELSE a.shift_state \ {m}
  OBVIOUS
<1>10. /\ s \subseteq Modificateurs
       /\ \A x \in Modificateurs : x \in s <=> De(T, x) # {}
  BY <1>3, <1>5, <1>8, <1>9 DEF Compte
<1>11. PICK g : g = [a.k_down EXCEPT ![m] = n]
  OBVIOUS
<1>12. /\ g \in [Modificateurs -> Nat]
       /\ \A x \in Modificateurs : g[x] = Cardinality(De(T, x))
  BY <1>3, <1>5, <1>6, <1>11 DEF Compte
<1>13. Champs(c) /\ c.k_down = a.k_down /\ c.shift_state = a.shift_state
       /\ c.prev_scancode = a.prev_scancode
  BY DEF Compte, Champs, Deplace
<1>14. /\ d.k_down = g /\ d.shift_state = s
       /\ d.key_down = T /\ d.prev_scancode = a.prev_scancode /\ Champs(d)
  BY <1>1, <1>3, <1>7, <1>9, <1>11, <1>13 DEF Decale, do_shift, put_queue, keyboard_data, Champs
<1>15. QED
  BY <1>3, <1>10, <1>14, <1>12 DEF Compte

(* Touche when the release of a key follows its press.                     *)
LEMMA ToucheCas ==
  ASSUME NEW a, NEW k, NEW haut \in BOOLEAN, haut => k \in a.key_down,
         NEW c, Deplace(c, a, k, haut), NEW rep \in BOOLEAN, rep <=> (~haut /\ k \in a.key_down),
         NEW d, d = Touche(a, k, haut)
  PROVE  d = IF c.shift_state \in DOMAIN key_maps THEN key_handler(c, Symbole(c, k), haut, rep)
             ELSE compute_shiftstate(c)
<1>1. CASE haut
  BY <1>1 DEF Touche, ApresTouche, Deplace
<1>2. CASE ~haut
  BY <1>2 DEF Touche, ApresTouche, Deplace
<1>3. QED
  BY <1>1, <1>2

(* The keys that are no modifiers count for none.                          *)
LEMMA CompteAutre ==
  ASSUME NEW a, Compte(a), NEW k \in TOUCHES, k \notin Modifieurs, NEW haut \in BOOLEAN,
         NEW c, Champs(c), c.key_down = ApresTouche(a.key_down, k, haut), c.k_down = a.k_down,
         c.shift_state = a.shift_state
  PROVE  Compte(c)
<1>1. \A m \in Modificateurs : plain_map[k] # <<"SHIFT", m>>
  BY PlainMap, ClavierAssumption DEF Ordinaire, Genres
<1>2. c.key_down \subseteq TOUCHES
  BY DEF Compte, ApresTouche
<1>3. \A m \in Modificateurs : De(c.key_down, m) = De(a.key_down, m)
  BY <1>1 DEF De, ApresTouche
<1>4. QED
  BY <1>2, <1>3 DEF Compte

(* A key keeps Compte, whether or not its keymap exists.                   *)
LEMMA ToucheProp ==
  ASSUME NEW a, Compte(a), NEW k \in TOUCHES, NEW haut \in BOOLEAN, haut => k \in a.key_down,
         NEW d, d = Touche(a, k, haut)
  PROVE  /\ Compte(d) /\ d.key_down = ApresTouche(a.key_down, k, haut)
         /\ d.prev_scancode = a.prev_scancode
<1>1. PICK c : c = [a EXCEPT !.key_down = ApresTouche(@, k, haut)] /\ Deplace(c, a, k, haut)
  BY DEF Deplace
<1>2. PICK rep \in BOOLEAN : rep <=> (~haut /\ k \in a.key_down)
  OBVIOUS
<1>3. d = IF c.shift_state \in DOMAIN key_maps THEN key_handler(c, Symbole(c, k), haut, rep)
          ELSE compute_shiftstate(c)
  <2>1. Deplace(c, a, k, haut)
    BY <1>1
  <2>2. QED
    BY <1>2, <2>1, ToucheCas
<1>4. /\ Champs(c) /\ c.key_down = ApresTouche(a.key_down, k, haut) /\ c.k_down = a.k_down
      /\ c.shift_state = a.shift_state /\ c.prev_scancode = a.prev_scancode
      /\ c.key_down \subseteq TOUCHES
  BY <1>1 DEF Compte, Champs, ApresTouche
<1>5. CASE c.shift_state \notin DOMAIN key_maps
  BY <1>3, <1>4, <1>5, Recompte
<1>6. CASE c.shift_state \in DOMAIN key_maps /\ k \in Modifieurs
  <2>1. d = do_shift(c, plain_map[k][2], haut, rep)
    <3>1. Symbole(c, k) = plain_map[k] /\ plain_map[k][1] = "SHIFT"
      BY <1>6, SymboleProp, PlainMap, ClavierAssumption
    <3>2. QED
      BY <1>3, <1>6, <3>1 DEF key_handler
  <2>2. CASE rep
    <3>1. d = c
      BY <2>1, <2>2 DEF do_shift
    <3>2. c.key_down = a.key_down
      BY <1>2, <1>4, <2>2 DEF ApresTouche
    <3>3. QED
      BY <1>4, <3>1, <3>2 DEF Compte
  <2>3. CASE ~rep
    <3>1. (haut <=> k \in a.key_down) /\ k \in Modifieurs
      BY <1>2, <1>6, <2>3
    <3>2. Decale(d, c, k, haut)
      BY <2>1, <2>3 DEF Decale
    <3>3. Compte(d) /\ d.key_down = c.key_down /\ d.prev_scancode = a.prev_scancode
      <4>1. Deplace(c, a, k, haut)
        BY <1>1
      <4>2. QED
        BY <3>1, <3>2, <4>1, DoShift
    <3>4. QED
      BY <1>4, <3>3
  <2>4. QED
    BY <2>2, <2>3
<1>7. CASE c.shift_state \in DOMAIN key_maps /\ k \notin Modifieurs
  <2>1. PICK s : s = Symbole(c, k)
    OBVIOUS
  <2>2. Ordinaire(s) /\ s[1] # "LETTER"
    BY <1>7, <2>1, SymboleProp, ClavierAssumption
  <2>3. Compte(c)
    BY <1>4, <1>7, CompteAutre
  <2>4. d = key_handler(c, s, haut, rep)
    BY <1>3, <1>7, <2>1
  <2>5. MemesTouches(d, c) \/ d = compute_shiftstate(c)
    BY <1>4, <2>2, <2>4, Neutre
  <2>6. CASE MemesTouches(d, c)
    BY <1>4, <2>3, <2>6 DEF MemesTouches, Compte
  <2>7. CASE d = compute_shiftstate(c)
    BY <1>4, <2>7, Recompte
  <2>8. QED
    BY <2>5, <2>6, <2>7
<1>8. QED
  BY <1>5, <1>6, <1>7

-----------------------------------------------------------------------------
(* What a key sends.  A letter is in upper case when this holds.           *)
Majuscule(c) == ("CAPSLOCK" \in c.ledflagstate) # (SHIFT \in c.shift_state)

(* A code typed on the pad is a number, and some modifier is held.         *)
Sobre(c) ==
  /\ c.npadch \in Nat \cup {RIEN} /\ (c.npadch # RIEN => c.shift_state # {})
  /\ c.ledflagstate \subseteq {"CAPSLOCK", "NUMLOCK"}

(* The code of the pad goes out when c becomes d.                          *)
Sorti(d, c) == c.npadch # RIEN /\ d.npadch = RIEN

(* EnvoiJuste of one key k, or of none, in terms of the driver only.       *)
Effet(d, c, k) ==
  /\ Sobre(d)
  /\ <<"car", 65>> \in Range(d.envoye) => Sorti(d, c) \/ (k = 16 /\ Majuscule(c))
  /\ d.envoye = Car(97) /\ c.npadch = RIEN /\ c.shift_state \subseteq {SHIFT} => k = 16 /\ ~Majuscule(c)
  /\ Sorti(d, c) => d.envoye # << >> /\ d.key_down \subseteq c.key_down

Calme(d, c, k) == Effet(d, c, k) /\ ~Sorti(d, c)

LEMMA RangeDe ==
  ASSUME NEW x, NEW y
  PROVE  Range(<< >>) = {} /\ Range(<<x>>) = {x} /\ Range(<<x, y>>) = {x, y}
<1>1. Range(<< >>) = {} /\ Range(<<x>>) = {x}
  BY DEF Range
<1>2. Range(<<x, y>>) = {x, y}
  BY DEF Range
<1>3. QED
  BY <1>1, <1>2

LEMMA RienEnvoye ==
  ASSUME NEW e, e = << >>
  PROVE  /\ <<"car", 65>> \notin Range(e) /\ e # Car(97)
         /\ \A x : e # <<x>>
<1>1. Range(e) = {}
  BY RangeDe
<1>2. \A x : Len(<<x>>) = 1
  OBVIOUS
<1>3. Len(e) = 0
  OBVIOUS
<1>4. \A x : e # <<x>>
  BY <1>2, <1>3
<1>5. QED
  BY <1>1, <1>4 DEF Car

(* Nothing sent, one character sent, two of them: three cases of Effet.    *)
LEMMA Silence ==
  ASSUME NEW c, NEW d, NEW k, Sobre(d), d.envoye = << >>, d.npadch = c.npadch
  PROVE  Calme(d, c, k)
<1>1. <<"car", 65>> \notin Range(d.envoye) /\ d.envoye # Car(97)
  BY RienEnvoye
<1>2. QED
  BY <1>1 DEF Calme, Effet, Sorti

LEMMA Parole ==
  ASSUME NEW c, NEW d, NEW k, NEW x, NEW v, Sobre(d), d.envoye = << <<x, v>> >>, d.npadch = c.npadch,
         x = "car" /\ v = 65 => k = 16 /\ Majuscule(c),
         x = "car" /\ v = 97 /\ c.shift_state \subseteq {SHIFT} => k = 16 /\ ~Majuscule(c)
  PROVE  Calme(d, c, k)
<1>1. Range(d.envoye) = {<<x, v>>}
  BY RangeDe
<1>2. d.envoye = Car(97) => x = "car" /\ v = 97
  BY DEF Car
<1>3. <<"car", 65>> \in Range(d.envoye) => x = "car" /\ v = 65
  BY <1>1
<1>4. QED
  BY <1>2, <1>3 DEF Calme, Effet, Sorti

LEMMA Suites ==
  ASSUME NEW x, NEW y
  PROVE  << >> \o <<x>> = <<x>> /\ <<x>> \o <<y>> = <<x, y>>
<1>1. PICK s, t : s = <<x>> /\ t = <<y>>
  OBVIOUS
<1>2. s \in Seq({x, y}) /\ t \in Seq({x, y}) /\ Len(s) = 1 /\ Len(t) = 1
  BY <1>1
<1>3. << >> \o s = s
  BY <1>2, ConcatEmptySeq
<1>4. PICK u : u = <<x, y>>
  OBVIOUS
<1>5. u \in Seq({x, y}) /\ Len(u) = 2
  BY <1>4
<1>6. /\ s \o t \in Seq({x, y}) /\ Len(s \o t) = Len(s) + Len(t)
      /\ \A i \in 1..Len(s) + Len(t) : (s \o t)[i] = IF i <= Len(s) THEN s[i] ELSE t[i - Len(s)]
  BY <1>2, ConcatProperties
<1>7. Len(s) = 1 /\ Len(s) + Len(t) = 2
  BY <1>2
<1>8. \A i \in 1..2 : (s \o t)[i] = u[i]
  <2>1. (s \o t)[1] = s[1] /\ (s \o t)[2] = t[1]
    BY <1>6, <1>7
  <2>2. s[1] = x /\ t[1] = y /\ u[1] = x /\ u[2] = y
    BY <1>1, <1>4
  <2>3. ASSUME NEW i \in 1..2 PROVE (s \o t)[i] = u[i]
    <3>1. i = 1 \/ i = 2
      OBVIOUS
    <3>2. CASE i = 1
      BY <2>1, <2>2, <3>2
    <3>3. CASE i = 2
      BY <2>1, <2>2, <3>3
    <3>4. QED
      BY <3>1, <3>2, <3>3
  <2>4. QED
    BY <2>3
<1>9. s \o t = u
  BY <1>5, <1>6, <1>7, <1>8, SeqEqual
<1>10. QED
  BY <1>1, <1>3, <1>4, <1>9

(* One character, or one string, goes out.                                 *)
LEMMA Emission ==
  ASSUME NEW c, Champs(c), c.envoye = << >>, NEW x, NEW v, NEW d, d = keyboard_data(c, << <<x, v>> >>)
  PROVE  /\ Champs(d) /\ d.envoye = << <<x, v>> >> /\ d.npadch = c.npadch
         /\ d.shift_state = c.shift_state /\ d.ledflagstate = c.ledflagstate
BY Suites DEF keyboard_data, Champs

(* What a symbol may be, given the key and the state of the driver.        *)
Convient(s, c, k) ==
  /\ Ordinaire(s) /\ s[1] # "LETTER"
  /\ s[1] = "ASCII" => c.shift_state # {}
  /\ s[1] \in {"LATIN", "META"} /\ s[2] = 65 => k = 16 /\ Majuscule(c)
  /\ s[1] = "LATIN" /\ s[2] = 97 /\ c.shift_state \subseteq {SHIFT} => k = 16 /\ ~Majuscule(c)

LEMMA SymboleConvient ==
  ASSUME NEW c, c.shift_state \in DOMAIN key_maps, NEW k \in ToutesTouches \ Modifieurs,
         NEW s, s = Symbole(c, k)
  PROVE  Convient(s, c, k)
<1>1. PICK f : f = c.shift_state
  OBVIOUS
<1>2. PICK r : r = key_maps[f][k]
  OBVIOUS
<1>3. PICK m : m = Bascule(f, SHIFT)
  OBVIOUS
<1>4. s = IF r[1] # "LETTER" THEN r
          ELSE <<"LATIN", IF "CAPSLOCK" \in c.ledflagstate /\ m \in DOMAIN key_maps
                          THEN key_maps[m][k][2] ELSE r[2]>>
  BY <1>1, <1>2, <1>3 DEF Symbole
<1>5. Ordinaire(s) /\ s[1] # "LETTER"
  BY SymboleProp
<1>6. s[1] = "ASCII" => f # {}
  <2>1. CASE f = {}
    <3>1. r[1] # "ASCII"
      BY <1>2, <2>1, KeyMaps, PlainMap
    <3>2. QED
      BY <1>4, <3>1
  <2>2. QED
    BY <2>1
<1>7. CASE k # 16
  <2>1. Muette(r)
    BY <1>1, <1>2, <1>7, KeyMaps, DansUneCarte DEF Muettes16
  <2>2. s = r
    BY <1>4, <2>1 DEF Muette
  <2>3. QED
    BY <1>1, <1>5, <1>6, <2>1, <2>2 DEF Convient, Muette
<1>8. CASE k = 16
  <2>1. CASE f = {}
    <3>1. r = <<"LETTER", 97>> /\ m = {SHIFT}
      BY <1>2, <1>3, <1>8, <2>1, KeyMaps, PlainMap DEF Bascule
    <3>2. m \in DOMAIN key_maps /\ key_maps[m][k][2] = 65
      BY <1>8, <3>1, KeyMaps, Lettre
    <3>3. s = <<"LATIN", IF "CAPSLOCK" \in c.ledflagstate THEN 65 ELSE 97>>
      BY <1>4, <3>1, <3>2
    <3>4. QED
      BY <1>1, <1>5, <1>6, <1>8, <2>1, <3>3 DEF Convient, Majuscule
  <2>2. CASE f = {SHIFT}
    <3>1. r = <<"LETTER", 65>> /\ m = {}
      BY <1>2, <1>3, <1>8, <2>2, KeyMaps, Lettre DEF Bascule
    <3>2. m \in DOMAIN key_maps /\ key_maps[m][k][2] = 97
      BY <1>8, <3>1, KeyMaps, PlainMap
    <3>3. s = <<"LATIN", IF "CAPSLOCK" \in c.ledflagstate THEN 97 ELSE 65>>
      BY <1>4, <3>1, <3>2
    <3>4. QED
      BY <1>1, <1>5, <1>6, <1>8, <2>2, <3>3 DEF Convient, Majuscule
  <2>3. CASE f \notin {{}, {SHIFT}}
    <3>1. SHIFT = 0 /\ ALTGR = 1 /\ CTRL = 2 /\ ALT = 3
      BY DEF SHIFT, ALTGR, CTRL, ALT
    <3>2. CASE f = {ALTGR}
      <4>1. r = <<"LETTER", 97>>
        BY <1>2, <1>8, <3>2, KeyMaps, Lettre
      <4>2. SHIFT \in m /\ ALTGR \in m
        BY <1>3, <3>1, <3>2 DEF Bascule
      <4>3. m \notin DOMAIN key_maps
        BY <3>1, <4>2, KeyMaps
      <4>4. s = <<"LATIN", 97>>
        BY <1>4, <4>1, <4>3
      <4>5. ~(f \subseteq {SHIFT})
        BY <3>1, <3>2
      <4>6. QED
        BY <1>1, <1>5, <1>6, <4>4, <4>5 DEF Convient
    <3>3. CASE f \in {{CTRL}, {ALTGR, CTRL}, {ALT}, {CTRL, ALT}}
      <4>1. r \in {<<"LATIN", 1>>, <<"META", 97>>, <<"META", 1>>}
        <5>1. CASE f \in {{CTRL}, {ALTGR, CTRL}}
          BY <1>2, <1>8, <5>1, KeyMaps, Lettre
        <5>2. CASE f = {ALT}
          BY <1>2, <1>8, <5>2, KeyMaps, Lettre
        <5>3. CASE f = {CTRL, ALT}
          BY <1>2, <1>8, <5>3, KeyMaps, Lettre
        <5>4. QED
          BY <3>3, <5>1, <5>2, <5>3
      <4>2. s = r
        BY <1>4, <4>1
      <4>3. s[2] # 65 /\ (s[1] = "LATIN" => s[2] # 97)
        BY <4>1, <4>2
      <4>4. QED
        BY <1>1, <1>5, <1>6, <4>3 DEF Convient
    <3>4. QED
      BY <1>1, <2>3, <3>2, <3>3, KeyMaps
  <2>4. QED
    BY <2>1, <2>2, <2>3
<1>9. QED
  BY <1>7, <1>8

(* What each kind of symbol sends (do_spec, do_self, do_pad, do_ascii...). *)
LEMMA ManiereEffet ==
  ASSUME NEW c, Champs(c), Sobre(c), Compte(c), c.envoye = << >>, NEW k, NEW s, Convient(s, c, k),
         NEW up \in BOOLEAN, NEW rep \in BOOLEAN, NEW d, d = key_handler(c, s, up, rep)
  PROVE  Calme(d, c, k)
<1>1. PICK y, v : y = s[1] /\ v = s[2]
  OBVIOUS
<1>2. y \in Genres \ {"LETTER"}
  BY <1>1 DEF Convient, Ordinaire
<1>3. Calme(c, c, k)
  BY Silence
<1>4. ASSUME NEW x, NEW w, d = keyboard_data(c, << <<x, w>> >>),
             x = "car" /\ w = 65 => k = 16 /\ Majuscule(c),
             x = "car" /\ w = 97 /\ c.shift_state \subseteq {SHIFT} => k = 16 /\ ~Majuscule(c)
      PROVE  Calme(d, c, k)
  <2>1. /\ d.envoye = << <<x, w>> >> /\ d.npadch = c.npadch
        /\ d.shift_state = c.shift_state /\ d.ledflagstate = c.ledflagstate
    BY <1>4, Emission
  <2>2. Sobre(d)
    BY <2>1 DEF Sobre
  <2>3. QED
    BY <1>4, <2>1, <2>2, Parole
<1>5. CASE up
  <2>1. d = c
    BY <1>1, <1>2, <1>5 DEF key_handler, Genres
  <2>2. QED
    BY <1>3, <2>1
<1>6. CASE ~up /\ y = "SPEC"
  <2>1. d = do_spec(c, v, rep) /\ v \in Speciales
    BY <1>1, <1>6 DEF key_handler, Convient, Ordinaire
  <2>2. CASE v = 0
    <3>1. d = compute_shiftstate(c)
      BY <2>1, <2>2 DEF do_spec, Muettes
    <3>2. d.envoye = << >> /\ d.npadch = c.npadch /\ d.ledflagstate = c.ledflagstate
      BY <3>1 DEF compute_shiftstate, Champs
    <3>3. Compte(d) /\ d.key_down = c.key_down
      BY <3>1, Recompte DEF Compte
    <3>4. d.shift_state = c.shift_state
      BY <3>3 DEF Compte
    <3>5. Sobre(d)
      BY <3>2, <3>4 DEF Sobre
    <3>6. QED
      BY <3>2, <3>5, Silence
  <2>3. CASE v = 1
    <3>1. d = keyboard_data(c, << <<"car", 13>> >>)
      BY <2>1, <2>3 DEF do_spec, Muettes, enter, put_queue, Car
    <3>2. QED
      BY <1>4, <3>1
  <2>4. CASE v \in {7, 8}
    <3>1. PICK e \in {"CAPSLOCK", "NUMLOCK"} : e = IF v = 7 THEN "CAPSLOCK" ELSE "NUMLOCK"
      OBVIOUS
    <3>2. d = IF rep THEN c ELSE [c EXCEPT !.ledflagstate = Bascule(@, e)]
      BY <2>1, <2>4, <3>1 DEF do_spec, Muettes, caps_toggle, num, bare_num, chg_vc_kbd_led
    <3>3. CASE rep
      BY <1>3, <3>2, <3>3
    <3>4. CASE ~rep
      <4>1. /\ d.envoye = << >> /\ d.npadch = c.npadch /\ d.shift_state = c.shift_state
            /\ d.ledflagstate = Bascule(c.ledflagstate, e)
        BY <3>2, <3>4 DEF Champs
      <4>2. Sobre(d)
        BY <4>1 DEF Sobre, Bascule
      <4>3. QED
        BY <4>1, <4>2, Silence
    <3>5. QED
      BY <3>3, <3>4
  <2>5. CASE v = 9
    <3>1. d = hold(c, rep)
      BY <2>1, <2>5 DEF do_spec, Muettes
    <3>2. d = c \/ \E x : d = [c EXCEPT !.stopped = x]
      BY <3>1 DEF hold, keyboard_start_tty, keyboard_stop_tty
    <3>3. CASE d = c
      BY <1>3, <3>3
    <3>4. CASE \E x : d = [c EXCEPT !.stopped = x]
      <4>1. /\ d.envoye = << >> /\ d.npadch = c.npadch /\ d.shift_state = c.shift_state
            /\ d.ledflagstate = c.ledflagstate
        BY <3>4 DEF Champs
      <4>2. Sobre(d)
        BY <4>1 DEF Sobre
      <4>3. QED
        BY <4>1, <4>2, Silence
    <3>5. QED
      BY <3>2, <3>3, <3>4
  <2>6. CASE v \in {2, 3, 4, 18}
    <3>1. d = c
      BY <2>1, <2>6 DEF do_spec, Muettes
    <3>2. QED
      BY <1>3, <3>1
  <2>7. QED
    BY <2>1, <2>2, <2>3, <2>4, <2>5, <2>6 DEF Speciales
<1>7. CASE ~up /\ y = "LATIN"
  <2>1. d = keyboard_data(c, << <<"car", v>> >>)
    BY <1>1, <1>7 DEF key_handler, do_self, put_queue, Car
  <2>2. /\ v = 65 => k = 16 /\ Majuscule(c)
        /\ v = 97 /\ c.shift_state \subseteq {SHIFT} => k = 16 /\ ~Majuscule(c)
    BY <1>1, <1>7 DEF Convient
  <2>3. QED
    BY <1>4, <2>1, <2>2
<1>8. CASE ~up /\ y = "META"
  <2>1. PICK e : e = put_queue(c, 27)
    OBVIOUS
  <2>2. d = put_queue(e, v)
    BY <1>1, <1>8, <2>1 DEF key_handler, do_meta
  <2>3. /\ Champs(e) /\ e.envoye = << <<"car", 27>> >> /\ e.npadch = c.npadch
        /\ e.shift_state = c.shift_state /\ e.ledflagstate = c.ledflagstate
    BY <2>1, Emission DEF put_queue, Car
  <2>4. /\ d.envoye = << <<"car", 27>> >> \o << <<"car", v>> >> /\ d.npadch = c.npadch
        /\ d.shift_state = c.shift_state /\ d.ledflagstate = c.ledflagstate
    BY <2>2, <2>3 DEF put_queue, keyboard_data, Car, Champs
  <2>5. d.envoye = << <<"car", 27>>, <<"car", v>> >>
    BY <2>4, Suites
  <2>6. Range(d.envoye) = {<<"car", 27>>, <<"car", v>>} /\ d.envoye # Car(97)
    <3>1. PICK a, b : a = <<"car", 27>> /\ b = <<"car", v>>
      OBVIOUS
    <3>2. d.envoye = <<a, b>>
      BY <2>5, <3>1
    <3>3. Range(d.envoye) = {a, b}
      BY <3>2, RangeDe
    <3>4. Len(d.envoye) = 2 /\ Len(Car(97)) = 1
      BY <3>2 DEF Car
    <3>5. QED
      BY <3>1, <3>3, <3>4
  <2>7. <<"car", 65>> \in Range(d.envoye) => k = 16 /\ Majuscule(c)
    <3>1. <<"car", 65>> \in Range(d.envoye) => v = 65
      BY <2>6
    <3>2. QED
      BY <1>1, <1>8, <3>1 DEF Convient
  <2>8. QED
    BY <2>4, <2>6, <2>7 DEF Calme, Effet, Sobre, Sorti
<1>9. CASE ~up /\ y = "PAD"
  <2>1. d = do_pad(c, v) /\ v \in {7, 8, 14}
    BY <1>1, <1>9 DEF key_handler, Convient, Ordinaire
  <2>2. PICK w : w = pad_chars[v]
    OBVIOUS
  <2>3. w \in {13, 55, 56}
    BY <2>1, <2>2 DEF pad_chars
  <2>4. \/ d = keyboard_data(c, << <<"car", w>> >>)
        \/ \E n : d = do_fn(c, n)
        \/ \E n : d = keyboard_data(c, << <<"sequence", n>> >>)
    BY <2>1, <2>2 DEF do_pad, do_cur, applkey, puts_queue, put_queue, Car, Sequence
  <2>5. ASSUME NEW n, d = do_fn(c, n) PROVE d = c \/ d = keyboard_data(c, << <<"fonction", n>> >>)
    BY <2>5 DEF do_fn, puts_queue, Fonction
  <2>6. CASE d = keyboard_data(c, << <<"car", w>> >>)
    <3>1. w # 65 /\ w # 97
      BY <2>3
    <3>2. QED
      BY <1>4, <2>6, <3>1
  <2>7. CASE \E n : d = do_fn(c, n)
    BY <1>3, <1>4, <2>5, <2>7
  <2>8. CASE \E n : d = keyboard_data(c, << <<"sequence", n>> >>)
    BY <1>4, <2>8
  <2>9. QED
    BY <2>4, <2>6, <2>7, <2>8
<1>10. CASE ~up /\ y = "CUR"
  <2>1. d = keyboard_data(c, << <<"sequence", v>> >>)
    BY <1>1, <1>10 DEF key_handler, do_cur, applkey, puts_queue, Sequence
  <2>2. QED
    BY <1>4, <2>1
<1>11. CASE ~up /\ y = "FN"
  <2>1. d = c \/ d = keyboard_data(c, << <<"fonction", v>> >>)
    BY <1>1, <1>11 DEF key_handler, do_fn, puts_queue, Fonction
  <2>2. QED
    BY <1>3, <1>4, <2>1
<1>12. CASE ~up /\ y = "ASCII"
  <2>1. d = do_ascii(c, v) /\ v \in Nat /\ c.shift_state # {}
    BY <1>1, <1>12 DEF key_handler, Convient, Ordinaire
  <2>2. PICK n : d = [c EXCEPT !.npadch = n] /\ n \in Nat
    <3>1. PICK base, chiffre : /\ base = (IF v < 10 THEN 10 ELSE 16)
                               /\ chiffre = (IF v < 10 THEN v ELSE v - 10)
      OBVIOUS
    <3>2. base \in Nat /\ chiffre \in Nat
      BY <2>1, <3>1
    <3>3. PICK n : n = IF c.npadch = RIEN THEN chiffre ELSE (c.npadch * base + chiffre) % NPAD
      OBVIOUS
    <3>4. d = [c EXCEPT !.npadch = n]
      BY <2>1, <3>1, <3>3 DEF do_ascii
    <3>5. n \in Nat
      <4>1. CASE c.npadch = RIEN
        BY <3>3, <3>2, <4>1
      <4>2. CASE c.npadch # RIEN
        <5>1. c.npadch \in Nat
          BY <4>2 DEF Sobre
        <5>2. PICK z \in Nat : z = c.npadch * base + chiffre
          BY <3>2, <5>1
        <5>3. n = z % NPAD
          BY <3>3, <4>2, <5>2
        <5>4. QED
          BY <5>3, ClavierAssumption
      <4>3. QED
        BY <4>1, <4>2
    <3>6. QED
      BY <3>4, <3>5
  <2>3. /\ d.envoye = << >> /\ d.npadch = n /\ d.shift_state = c.shift_state
        /\ d.ledflagstate = c.ledflagstate
    BY <2>2 DEF Champs
  <2>4. Sobre(d)
    BY <2>1, <2>2, <2>3 DEF Sobre
  <2>5. n # RIEN
    BY <2>2 DEF RIEN
  <2>6. <<"car", 65>> \notin Range(d.envoye) /\ d.envoye # Car(97)
    BY <2>3, RienEnvoye
  <2>7. QED
    BY <2>3, <2>4, <2>5, <2>6 DEF Calme, Effet, Sorti
<1>13. QED
  BY <1>2, <1>5, <1>6, <1>7, <1>8, <1>9, <1>10, <1>11, <1>12 DEF Genres

(* Modifiers without a keymap are two at least.                            *)
LEMMA DeuxModificateurs ==
  ASSUME NEW f, f \subseteq Modificateurs, f \notin DOMAIN key_maps
  PROVE  \E x, y \in f : x # y
<1>1. \A m \in Modificateurs : {m} \in DOMAIN key_maps
  BY KeyMaps DEF Modificateurs
<1>2. PICK x \in f : TRUE
  BY KeyMaps
<1>3. f # {x}
  BY <1>1
<1>4. QED
  BY <1>2, <1>3

(* A key sends what it should.  Where no keymap exists nothing goes out,   *)
(* and the code of the pad stays: two modifiers were held, one still is.   *)
LEMMA ToucheEffet ==
  ASSUME NEW a, Compte(a), Sobre(a), a.envoye = << >>, NEW k \in TOUCHES, NEW haut \in BOOLEAN,
         haut => k \in a.key_down, NEW d, d = Touche(a, k, haut)
  PROVE  Effet(d, a, k)
<1>1. PICK c : c = [a EXCEPT !.key_down = ApresTouche(@, k, haut)] /\ Deplace(c, a, k, haut)
  BY DEF Deplace
<1>2. PICK rep \in BOOLEAN : rep <=> (~haut /\ k \in a.key_down)
  OBVIOUS
<1>3. d = IF c.shift_state \in DOMAIN key_maps THEN key_handler(c, Symbole(c, k), haut, rep)
          ELSE compute_shiftstate(c)
  <2>1. Deplace(c, a, k, haut)
    BY <1>1
  <2>2. QED
    BY <1>2, <2>1, ToucheCas
<1>4. /\ Champs(c) /\ c.key_down = ApresTouche(a.key_down, k, haut) /\ c.k_down = a.k_down
      /\ c.shift_state = a.shift_state /\ c.npadch = a.npadch /\ c.ledflagstate = a.ledflagstate
      /\ c.envoye = << >> /\ c.key_down \subseteq TOUCHES
  BY <1>1 DEF Compte, Champs, ApresTouche
<1>5. Sobre(c)
  BY <1>4 DEF Sobre
<1>6. CASE c.shift_state \notin DOMAIN key_maps
  <2>1. d = compute_shiftstate(c)
    BY <1>3, <1>6
  <2>2. d.envoye = << >> /\ d.npadch = c.npadch /\ d.ledflagstate = c.ledflagstate
    BY <1>4, <2>1 DEF compute_shiftstate, Champs
  <2>3. Compte(d) /\ d.key_down = c.key_down
    BY <1>4, <2>1, Recompte
  <2>4. PICK x \in a.shift_state, y \in a.shift_state : x # y
    BY <1>4, <1>6, DeuxModificateurs DEF Compte
  <2>5. PICK m \in a.shift_state : plain_map[k] # <<"SHIFT", m>>
    <3>1. <<"SHIFT", x>> # <<"SHIFT", y>>
      BY <2>4
    <3>2. QED
      BY <3>1
  <2>6. m \in Modificateurs /\ De(a.key_down, m) # {}
    BY DEF Compte
  <2>7. De(c.key_down, m) # {}
    <3>1. PICK j : j \in a.key_down /\ plain_map[j] = <<"SHIFT", m>>
      BY <2>6 DEF De
    <3>2. j \in c.key_down
      BY <1>4, <2>5, <3>1 DEF ApresTouche
    <3>3. QED
      BY <3>1, <3>2 DEF De
  <2>8. m \in d.shift_state
    BY <2>3, <2>6, <2>7 DEF Compte
  <2>9. Sobre(d)
    BY <1>5, <2>2, <2>8 DEF Sobre
  <2>10. QED
    BY <1>4, <2>2, <2>9, Silence DEF Calme
<1>7. CASE c.shift_state \in DOMAIN key_maps /\ k \in Modifieurs
  <2>1. PICK m \in Modificateurs : plain_map[k] = <<"SHIFT", m>> /\ plain_map[k][2] = m
    BY <1>7, PlainMap
  <2>2. d = do_shift(c, m, haut, rep)
    <3>1. Symbole(c, k) = plain_map[k] /\ plain_map[k][1] = "SHIFT"
      BY <1>7, SymboleProp, PlainMap, ClavierAssumption
    <3>2. QED
      BY <1>3, <1>7, <2>1, <3>1 DEF key_handler
  <2>3. CASE rep
    <3>1. d = c
      BY <2>2, <2>3 DEF do_shift
    <3>2. QED
      BY <1>4, <1>5, <3>1, Silence DEF Calme
  <2>4. CASE ~rep
    <3>1. PICK n : n = IF haut THEN IF c.k_down[m] > 0 THEN c.k_down[m] - 1 ELSE 0 ELSE c.k_down[m] + 1
      OBVIOUS
    <3>2. PICK s : s = IF n > 0 THEN c.shift_state \cup {m} ELSE c.shift_state \ {m}
      OBVIOUS
    <3>3. ~haut => m \in s
      <4>1. c.k_down[m] \in Nat
        BY <1>4 DEF Compte
      <4>2. QED
        BY <3>1, <3>2, <4>1
    <3>4. PICK e : e = [c EXCEPT !.k_down[m] = n, !.shift_state = s]
      OBVIOUS
    <3>5. d = IF haut /\ s # c.shift_state /\ c.npadch # RIEN
              THEN [put_queue(e, c.npadch % NPAD) EXCEPT !.npadch = RIEN] ELSE e
      BY <2>2, <2>4, <3>1, <3>2, <3>4 DEF do_shift
    <3>6. /\ Champs(e) /\ e.envoye = << >> /\ e.npadch = c.npadch /\ e.shift_state = s
          /\ e.ledflagstate = c.ledflagstate /\ e.key_down = c.key_down
      BY <1>4, <3>4 DEF Champs
    <3>7. CASE haut /\ s # c.shift_state /\ c.npadch # RIEN
      <4>1. PICK z : z = c.npadch % NPAD
        OBVIOUS
      <4>2. PICK g : g = keyboard_data(e, << <<"car", z>> >>)
        OBVIOUS
      <4>3. d = [g EXCEPT !.npadch = RIEN]
        BY <3>5, <3>7, <4>1, <4>2 DEF put_queue, Car
      <4>4. /\ Champs(g) /\ g.envoye = << <<"car", z>> >> /\ g.ledflagstate = e.ledflagstate
        BY <3>6, <4>2, Emission
      <4>5. g.key_down = e.key_down
        BY <3>6, <4>2 DEF keyboard_data, Champs
      <4>6. /\ d.envoye = << <<"car", z>> >> /\ d.npadch = RIEN /\ d.ledflagstate = c.ledflagstate
            /\ d.key_down = c.key_down
        BY <3>6, <4>3, <4>4, <4>5 DEF Champs
      <4>7. Sobre(d)
        BY <1>5, <4>6 DEF Sobre
      <4>8. d.envoye # << >> /\ d.key_down \subseteq a.key_down
        <5>1. d.envoye # << >>
          BY <4>6, RienEnvoye
        <5>2. QED
          BY <1>4, <3>7, <4>6, <5>1 DEF ApresTouche
      <4>9. Sorti(d, a) /\ a.npadch # RIEN
        BY <1>4, <3>7, <4>6 DEF Sorti
      <4>10. QED
        BY <4>7, <4>8, <4>9 DEF Effet
    <3>8. CASE ~(haut /\ s # c.shift_state /\ c.npadch # RIEN)
      <4>1. d = e
        BY <3>5, <3>8
      <4>2. Sobre(d)
        BY <1>5, <3>3, <3>6, <3>8, <4>1 DEF Sobre
      <4>3. QED
        BY <1>4, <3>6, <4>1, <4>2, Silence DEF Calme
    <3>9. QED
      BY <3>7, <3>8
  <2>5. QED
    BY <2>3, <2>4
<1>8. CASE c.shift_state \in DOMAIN key_maps /\ k \notin Modifieurs
  <2>1. PICK s : s = Symbole(c, k)
    OBVIOUS
  <2>2. Convient(s, c, k)
    BY <1>8, <2>1, SymboleConvient, ClavierAssumption
  <2>3. Compte(c)
    BY <1>4, <1>8, CompteAutre
  <2>4. d = key_handler(c, s, haut, rep)
    BY <1>3, <1>8, <2>1
  <2>5. Effet(d, c, k) /\ ~Sorti(d, c)
    BY <1>4, <1>5, <2>2, <2>3, <2>4, ManiereEffet DEF Calme
  <2>6. QED
    BY <1>4, <2>5 DEF Effet, Sorti, Majuscule
<1>9. QED
  BY <1>6, <1>7, <1>8

-----------------------------------------------------------------------------
(* A byte: the prefix it leaves and the keycode it completes, if any.      *)
Lit(prev, octet, suivant, k) ==
  \A e : e.prev_scancode = prev => kbd_translate(e, octet) = Traduit(e, suivant, k)

Recoit(d, c, octet) == d = do_scancode(c, octet)

(* The driver d, with prefix prev, knows of the keys S.                    *)
Issue(d, prev, S) ==
  Compte(d) /\ d.prev_scancode = prev /\ d.ledstate = d.ledflagstate /\ d.key_down = S

(* Before the first byte the lights are unset and nothing is locked.       *)
Muni(c) == Sobre(c) /\ (c.ledstate = INDEFINI => c.ledflagstate = {})

(* do_scancode, once the byte is known.                                    *)
LEMMA Interruption ==
  ASSUME NEW c, Compte(c), Muni(c), NEW octet \in 1..254, NEW suivant, NEW k,
         Lit(c.prev_scancode, octet, suivant, k),
         k = RIEN \/ (k \in TOUCHES /\ (octet >= 128 => k \in c.key_down)),
         NEW d, Recoit(d, c, octet)
  PROVE  /\ Issue(d, suivant, IF k = RIEN THEN c.key_down ELSE
                              IF octet >= 128 THEN c.key_down \ {k} ELSE c.key_down \cup {k})
         /\ Muni(d) /\ Effet(d, c, k)
<1>1. PICK a : a = IF c.ledstate = INDEFINI THEN kbd_init(c) ELSE c
  OBVIOUS
<1>2. d = kbd_bh(handle_scancode(a, octet))
  BY <1>1 DEF do_scancode, Recoit
<1>3. /\ Compte(a) /\ a.prev_scancode = c.prev_scancode /\ a.key_down = c.key_down
      /\ a.npadch = c.npadch /\ a.shift_state = c.shift_state /\ a.ledflagstate = c.ledflagstate
  BY <1>1 DEF kbd_init, keyboard_schedule_tasklet, kbd_bh, getleds, Compte, Champs, Muni
<1>4. PICK b : b = [[a EXCEPT !.envoye = << >>] EXCEPT !.prev_scancode = suivant]
  OBVIOUS
<1>5. Compte(b) /\ b.prev_scancode = suivant /\ b.key_down = c.key_down
  BY <1>3, <1>4 DEF Compte, Champs
<1>6. /\ b.envoye = << >> /\ b.npadch = c.npadch /\ b.shift_state = c.shift_state
      /\ b.ledflagstate = c.ledflagstate /\ Sobre(b)
  BY <1>3, <1>4 DEF Compte, Champs, Muni, Sobre
<1>7. PICK t : t = kbd_translate([a EXCEPT !.envoye = << >>], octet)
  OBVIOUS
<1>8. t.c = b /\ t.keycode = k
  <2>1. PICK e : e = [a EXCEPT !.envoye = << >>]
    OBVIOUS
  <2>2. e.prev_scancode = c.prev_scancode
    BY <1>3, <2>1 DEF Compte, Champs
  <2>3. t = Traduit(e, suivant, k)
    BY <1>7, <2>1, <2>2 DEF Lit
  <2>4. QED
    BY <1>4, <2>1, <2>3 DEF Traduit
<1>9. PICK h : h = handle_scancode(a, octet)
  OBVIOUS
<1>10. h = IF k = RIEN THEN b ELSE Touche(b, k, octet >= 128)
  BY <1>7, <1>8, <1>9 DEF handle_scancode
<1>11. /\ Compte(h) /\ h.prev_scancode = suivant
       /\ h.key_down = IF k = RIEN THEN c.key_down ELSE ApresTouche(c.key_down, k, octet >= 128)
       /\ Effet(h, b, k)
  <2>1. CASE k = RIEN
    BY <1>5, <1>6, <1>10, <2>1, Silence DEF Calme
  <2>2. CASE k # RIEN
    <3>1. PICK haut \in BOOLEAN : haut = (octet >= 128)
      <4>1. (octet >= 128) \in BOOLEAN
        OBVIOUS
      <4>2. QED
        BY <4>1, Zenon
    <3>2. h = Touche(b, k, haut) /\ k \in TOUCHES /\ (haut => k \in b.key_down)
      BY <1>5, <1>10, <2>2, <3>1
    <3>3. /\ Compte(h) /\ h.key_down = ApresTouche(b.key_down, k, haut)
          /\ h.prev_scancode = b.prev_scancode
      BY <1>5, <3>2, ToucheProp
    <3>4. Effet(h, b, k)
      BY <1>5, <1>6, <3>2, ToucheEffet
    <3>5. QED
      BY <1>5, <2>2, <3>1, <3>3, <3>4
  <2>3. QED
    BY <2>1, <2>2
<1>12. d = [h EXCEPT !.ledstate = h.ledflagstate]
  BY <1>2, <1>9 DEF kbd_bh, getleds
<1>13. Issue(d, suivant, IF k = RIEN THEN c.key_down ELSE
                         IF octet >= 128 THEN c.key_down \ {k} ELSE c.key_down \cup {k})
  BY <1>11, <1>12 DEF Compte, Champs, ApresTouche, Issue
<1>14. /\ d.envoye = h.envoye /\ d.npadch = h.npadch /\ d.shift_state = h.shift_state
       /\ d.ledflagstate = h.ledflagstate /\ d.ledstate = h.ledflagstate /\ d.key_down = h.key_down
  BY <1>11, <1>12 DEF Compte, Champs
<1>15. Sobre(h) /\ Sobre(d)
  BY <1>11, <1>14 DEF Effet, Sobre
<1>16. Muni(d)
  <2>1. d.ledstate # INDEFINI
    BY <1>14, <1>15 DEF Sobre, INDEFINI
  <2>2. QED
    BY <1>15, <2>1 DEF Muni
<1>17. (Sorti(d, c) <=> Sorti(h, b)) /\ (Majuscule(b) <=> Majuscule(c))
  BY <1>6, <1>14 DEF Sorti, Majuscule
<1>18. Effet(d, c, k)
  BY <1>5, <1>6, <1>11, <1>14, <1>15, <1>17 DEF Effet
<1>19. QED
  BY <1>13, <1>16, <1>18

(* EnvoiJuste of one byte, for a driver that becomes d, when the user holds *)
(* the keys T.                                                             *)
Juste(d, c, T) ==
  /\ <<"car", 65>> \in Range(d.envoye) /\ ~Sorti(d, c) =>
       ("CAPSLOCK" \in c.ledflagstate) # (De(T, SHIFT) # {})
  /\ d.envoye = Car(97) /\ c.npadch = RIEN /\ c.shift_state \subseteq {SHIFT} =>
       ("CAPSLOCK" \in c.ledflagstate) = (De(T, SHIFT) # {})
  /\ Sorti(d, c) => d.envoye # << >> /\ d.key_down \subseteq c.key_down
  /\ d.npadch # RIEN => d.shift_state # {}

(* Key 16 is read when the driver and the user agree on the shifts.        *)
LEMMA EffetJuste ==
  ASSUME NEW c, Compte(c), NEW d, Muni(d), NEW k, Effet(d, c, k), NEW T,
         k = 16 => De(T, SHIFT) = De(c.key_down, SHIFT)
  PROVE  Juste(d, c, T)
<1>1. SHIFT \in c.shift_state <=> De(c.key_down, SHIFT) # {}
  BY DEF Compte, Modificateurs
<1>2. k = 16 => (Majuscule(c) <=> ("CAPSLOCK" \in c.ledflagstate) # (De(T, SHIFT) # {}))
  BY <1>1 DEF Majuscule
<1>3. QED
  BY <1>2 DEF Effet, Juste, Muni, Sobre

(* After a byte d has prefix prev, knows of the keys S, and sent what it   *)
(* had to.                                                                 *)
Passe(d, c, T, prev, S) == Issue(d, prev, S) /\ Muni(d) /\ Juste(d, c, T)

(* A byte that completes no key, and a byte that completes one.            *)
LEMMA SansTouche ==
  ASSUME NEW c, Compte(c), Muni(c), NEW octet \in 1..254, NEW suivant,
         Lit(c.prev_scancode, octet, suivant, RIEN), NEW d, Recoit(d, c, octet), NEW T
  PROVE  Passe(d, c, T, suivant, c.key_down)
<1>1. Issue(d, suivant, c.key_down) /\ Muni(d) /\ Effet(d, c, RIEN)
  BY Interruption
<1>2. RIEN # 16
  BY DEF RIEN
<1>3. QED
  BY <1>1, <1>2, EffetJuste DEF Passe

LEMMA AvecTouche ==
  ASSUME NEW c, Compte(c), Muni(c), NEW octet \in 1..254, NEW suivant, NEW k \in TOUCHES,
         NEW haut \in BOOLEAN, haut <=> octet >= 128, haut => k \in c.key_down,
         Lit(c.prev_scancode, octet, suivant, k), NEW d, Recoit(d, c, octet), NEW T,
         k = 16 => De(T, SHIFT) = De(c.key_down, SHIFT)
  PROVE  Passe(d, c, T, suivant, ApresTouche(c.key_down, k, haut))
<1>1. k # RIEN
  BY ClavierAssumption DEF ToutesTouches, RIEN
<1>2. /\ Issue(d, suivant, IF k = RIEN THEN c.key_down ELSE
                           IF octet >= 128 THEN c.key_down \ {k} ELSE c.key_down \cup {k})
      /\ Muni(d) /\ Effet(d, c, k)
  BY Interruption
<1>3. Issue(d, suivant, ApresTouche(c.key_down, k, haut))
  BY <1>1, <1>2 DEF ApresTouche
<1>4. QED
  BY <1>2, <1>3, EffetJuste DEF Passe

-----------------------------------------------------------------------------
(* What the keyboard sends, byte by byte.                                  *)
Grises == {96, 97, 100, 103}

Octet(s, haut) == IF haut THEN s + 128 ELSE s

Pause      == <<225, 29, 69, 225, 157, 197>>
MajHaute   == <<224, 170, 224, 72>>
FlecheHaute == <<224, 200, 224, 42>>

(* The grey keys, and the codes that the keyboard sends.                   *)
LEMMA E0Keys ==
  /\ DOMAIN e0_keys = {28, 29, 56, 72}
  /\ e0_keys[28] = 96 /\ e0_keys[29] = 97 /\ e0_keys[56] = 100 /\ e0_keys[72] = 103
  /\ Range(e0_keys) = Grises
<1>1. DOMAIN e0_keys = {28, 29, 56, 72}
  BY DEF e0_keys
<1>2. e0_keys[28] = 96 /\ e0_keys[29] = 97 /\ e0_keys[56] = 100 /\ e0_keys[72] = 103
  BY DEF e0_keys
<1>3. QED
  BY <1>1, <1>2 DEF Range, Grises

LEMMA CodeProp ==
  /\ \A k \in ToutesTouches \ Grises : Code(k) = <<k>>
  /\ \A s \in DOMAIN e0_keys : Code(e0_keys[s]) = <<224, s>>
<1>1. \A k \in ToutesTouches \ Grises : Code(k) = <<k>>
  BY E0Keys DEF Code
<1>2. ASSUME NEW s \in DOMAIN e0_keys PROVE Code(e0_keys[s]) = <<224, s>>
  <2>1. PICK t : t = CHOOSE r \in DOMAIN e0_keys : e0_keys[r] = e0_keys[s]
    OBVIOUS
  <2>2. t \in DOMAIN e0_keys /\ e0_keys[t] = e0_keys[s]
    BY <2>1
  <2>3. t = s
    BY <2>2, E0Keys
  <2>4. e0_keys[s] \in Range(e0_keys)
    BY DEF Range
  <2>5. QED
    BY <2>1, <2>3, <2>4 DEF Code
<1>3. QED
  BY <1>1, <1>2

LEMMA RelacheCode ==
  /\ \A k \in ToutesTouches \ Grises : Relache(Code(k)) = <<Octet(k, TRUE)>>
  /\ \A s \in DOMAIN e0_keys : Relache(Code(e0_keys[s])) = <<224, Octet(s, TRUE)>>
<1>1. ASSUME NEW k \in ToutesTouches \ Grises PROVE Relache(Code(k)) = <<Octet(k, TRUE)>>
  <2>1. k \in Nat /\ Code(k) = <<k>>
    BY CodeProp DEF ToutesTouches
  <2>2. QED
    BY <2>1 DEF Relache, Octet
<1>2. ASSUME NEW s \in DOMAIN e0_keys PROVE Relache(Code(e0_keys[s])) = <<224, Octet(s, TRUE)>>
  <2>1. s \in Nat /\ Code(e0_keys[s]) = <<224, s>>
    BY CodeProp, E0Keys
  <2>2. QED
    BY <2>1 DEF Relache, Octet
<1>3. QED
  BY <1>1, <1>2

Frappe(k, haut, S, T) ==
  k \in TOUCHES \ {119} /\ (haut => k \in S) /\ T = ApresTouche(S, k, haut)

(* The bytes o, after prefix prev, turn the keys S that the driver knows   *)
(* of into the keys T.                                                     *)
AuRepos(prev, o, S, T) == prev = 0 /\ o = << >> /\ T = S

UneTouche(prev, o, S, T) ==
  \E k \in TOUCHES \ Grises, haut \in BOOLEAN :
    Frappe(k, haut, S, T) /\ prev = 0 /\ o = <<Octet(k, haut)>>

UneGrise(prev, o, S, T) ==
  \E s \in DOMAIN e0_keys, haut \in BOOLEAN :
    /\ Frappe(e0_keys[s], haut, S, T)
    /\ \/ prev = 0 /\ o = <<224, Octet(s, haut)>>
       \/ prev = 224 /\ o = <<Octet(s, haut)>>

AvantAppui(prev, o, S, T) ==
  /\ Frappe(103, FALSE, S, T)
  /\ \/ prev = 0 /\ o = MajHaute
     \/ prev = 224 /\ o = <<170, 224, 72>>

AvantRelachement(prev, o, S, T) ==
  /\ Frappe(103, TRUE, S, T)
  /\ \/ prev = 0 /\ o = FlecheHaute
     \/ prev = 224 /\ o = <<200, 224, 42>>

Restitue(prev, o, S, T) ==
  /\ T = S
  /\ \/ prev = 0 /\ o = <<224, 42>>
     \/ prev = 224 /\ o = <<42>>

PauseBas(prev, o, S, T) ==
  /\ 119 \in TOUCHES /\ 119 \notin T /\ T = S
  /\ \/ prev = 0 /\ o = Pause
     \/ prev = 225 /\ o = <<29, 69, 225, 157, 197>>
     \/ prev = 256 /\ o = <<69, 225, 157, 197>>

PauseHaut(prev, o, S, T) ==
  /\ 119 \in S /\ T = S \ {119}
  /\ \/ prev = 0 /\ o = <<225, 157, 197>>
     \/ prev = 225 /\ o = <<157, 197>>
     \/ prev = 256 /\ o = <<197>>

EnAttente(prev, o, S, T) ==
  \/ AuRepos(prev, o, S, T) \/ UneTouche(prev, o, S, T) \/ UneGrise(prev, o, S, T)
  \/ AvantAppui(prev, o, S, T) \/ AvantRelachement(prev, o, S, T) \/ Restitue(prev, o, S, T)
  \/ PauseBas(prev, o, S, T) \/ PauseHaut(prev, o, S, T)

(* kbd_translate of each byte that may come after each prefix.             *)
LEMMA Lectures ==
  /\ \A k \in ToutesTouches \ Grises, haut \in BOOLEAN : Lit(0, Octet(k, haut), 0, k)
  /\ \A s \in DOMAIN e0_keys, haut \in BOOLEAN : Lit(224, Octet(s, haut), 0, e0_keys[s])
  /\ Lit(0, 224, 224, RIEN) /\ Lit(224, 170, 0, RIEN) /\ Lit(224, 42, 0, RIEN)
  /\ Lit(0, 225, 225, RIEN) /\ Lit(225, 29, 256, RIEN) /\ Lit(225, 157, 256, RIEN)
  /\ Lit(256, 69, 0, 119) /\ Lit(256, 197, 0, 119) /\ Lit(224, 200, 0, 103)
<1>1. ASSUME NEW k \in ToutesTouches \ Grises, NEW haut \in BOOLEAN PROVE Lit(0, Octet(k, haut), 0, k)
  <2>1. k \in 0..127 /\ k \notin {96, 97}
    BY DEF ToutesTouches, Grises
  <2>2. Octet(k, haut) % 128 = k /\ Octet(k, haut) \notin {224, 225}
    BY <2>1 DEF Octet
  <2>3. QED
    BY <2>2 DEF Lit, kbd_translate
<1>2. ASSUME NEW s \in DOMAIN e0_keys, NEW haut \in BOOLEAN PROVE Lit(224, Octet(s, haut), 0, e0_keys[s])
  <2>1. s \in 0..95
    BY E0Keys
  <2>2. Octet(s, haut) % 128 = s /\ Octet(s, haut) \notin {224, 225}
    BY <2>1 DEF Octet
  <2>3. QED
    BY <2>2 DEF Lit, kbd_translate
<1>3. Lit(0, 224, 224, RIEN) /\ Lit(0, 225, 225, RIEN)
  BY DEF Lit, kbd_translate
<1>4. Lit(224, 170, 0, RIEN) /\ Lit(224, 42, 0, RIEN)
  <2>1. 170 % 128 = 42 /\ 42 % 128 = 42 /\ 42 \notin DOMAIN e0_keys
    BY E0Keys
  <2>2. QED
    BY <2>1 DEF Lit, kbd_translate
<1>5. Lit(225, 29, 256, RIEN) /\ Lit(225, 157, 256, RIEN)
  BY DEF Lit, kbd_translate
<1>6. Lit(256, 69, 0, 119) /\ Lit(256, 197, 0, 119)
  BY DEF Lit, kbd_translate
<1>7. Lit(224, 200, 0, 103)
  <2>1. 200 % 128 = 72 /\ 72 \in DOMAIN e0_keys /\ e0_keys[72] = 103
    BY E0Keys
  <2>2. QED
    BY <2>1 DEF Lit, kbd_translate
<1>8. QED
  BY <1>1, <1>2, <1>3, <1>4, <1>5, <1>6, <1>7

(* One byte brings the driver one step closer to the keys held.            *)
LEMMA Avance ==
  ASSUME NEW c, Compte(c), Muni(c), NEW o, o # << >>, NEW T, T \subseteq TOUCHES \ {119},
         EnAttente(c.prev_scancode, o, c.key_down, T),
         NEW d, d = do_scancode(c, Head(o))
  PROVE  /\ Compte(d) /\ d.ledstate = d.ledflagstate
         /\ EnAttente(d.prev_scancode, Tail(o), d.key_down, T)
         /\ Muni(d) /\ Juste(d, c, T)
<1>1. PICK prev, S : prev = c.prev_scancode /\ S = c.key_down
  OBVIOUS
<1>2. ASSUME NEW suivant, NEW U, Passe(d, c, T, suivant, U), EnAttente(suivant, Tail(o), U, T)
      PROVE  /\ Compte(d) /\ d.ledstate = d.ledflagstate
             /\ EnAttente(d.prev_scancode, Tail(o), d.key_down, T)
             /\ Muni(d) /\ Juste(d, c, T)
  BY <1>2 DEF Passe, Issue
<1>3. ASSUME NEW octet \in 1..254, Head(o) = octet
      PROVE  Recoit(d, c, octet)
  BY <1>3 DEF Recoit
<1>4. ASSUME NEW octet \in 1..254, Head(o) = octet, NEW suivant, Lit(prev, octet, suivant, RIEN)
      PROVE  Passe(d, c, T, suivant, S)
  BY <1>1, <1>3, <1>4, SansTouche
<1>5. ASSUME NEW octet \in 1..254, Head(o) = octet, NEW suivant, NEW k \in TOUCHES,
             NEW haut \in BOOLEAN, haut <=> octet >= 128, haut => k \in S,
             Lit(prev, octet, suivant, k), k = 16 => De(T, SHIFT) = De(S, SHIFT)
      PROVE  Passe(d, c, T, suivant, ApresTouche(S, k, haut))
  <2>1. Recoit(d, c, octet)
    BY <1>3, <1>5
  <2>2. Lit(c.prev_scancode, octet, suivant, k) /\ (haut => k \in c.key_down)
        /\ (k = 16 => De(T, SHIFT) = De(c.key_down, SHIFT))
    BY <1>1, <1>5
  <2>3. Passe(d, c, T, suivant, ApresTouche(c.key_down, k, haut))
    BY <1>5, <2>1, <2>2, AvecTouche
  <2>4. QED
    BY <1>1, <2>3
<1>6. ASSUME NEW octet \in 1..127, Head(o) = octet, NEW k \in TOUCHES, k # 16, Lit(prev, octet, 0, k)
       PROVE  Passe(d, c, T, 0, S \cup {k})
  <2>1. PICK haut \in BOOLEAN : ~haut
    OBVIOUS
  <2>2. Passe(d, c, T, 0, ApresTouche(S, k, haut))
    <3>1. octet \in 1..254 /\ (haut <=> octet >= 128) /\ (haut => k \in S)
      BY <1>6, <2>1
    <3>2. QED
      BY <1>5, <1>6, <3>1
  <2>3. QED
    BY <2>1, <2>2 DEF ApresTouche
<1>7. ASSUME NEW octet \in 128..254, Head(o) = octet, NEW k \in TOUCHES, k # 16, k \in S,
             Lit(prev, octet, 0, k)
       PROVE  Passe(d, c, T, 0, S \ {k})
  <2>1. PICK haut \in BOOLEAN : haut
    OBVIOUS
  <2>2. Passe(d, c, T, 0, ApresTouche(S, k, haut))
    <3>1. octet \in 1..254 /\ (haut <=> octet >= 128) /\ (haut => k \in S)
      BY <1>7, <2>1
    <3>2. QED
      BY <1>5, <1>7, <3>1
  <2>3. QED
    BY <2>1, <2>2 DEF ApresTouche
<1>8. CASE UneTouche(prev, o, S, T)
  <2>1. PICK k \in TOUCHES \ Grises, haut \in BOOLEAN :
          Frappe(k, haut, S, T) /\ prev = 0 /\ o = <<Octet(k, haut)>>
    BY <1>8 DEF UneTouche
  <2>2. k \in 1..126
    BY ClavierAssumption DEF ToutesTouches
  <2>3. /\ Octet(k, haut) \in 1..254 /\ (haut <=> Octet(k, haut) >= 128)
        /\ Head(o) = Octet(k, haut) /\ Tail(o) = << >>
    BY <2>1, <2>2 DEF Octet
  <2>4. Lit(prev, Octet(k, haut), 0, k)
    BY <2>1, Lectures, ClavierAssumption
  <2>5. (haut => k \in S) /\ T = ApresTouche(S, k, haut)
    BY <2>1 DEF Frappe
  <2>6. k = 16 => De(T, SHIFT) = De(S, SHIFT)
    <3>1. plain_map[16] # <<"SHIFT", SHIFT>>
      BY PlainMap
    <3>2. QED
      BY <2>5, <3>1 DEF De, ApresTouche
  <2>7. Passe(d, c, T, 0, T)
    BY <1>5, <2>3, <2>4, <2>5, <2>6
  <2>8. EnAttente(0, Tail(o), T, T)
    BY <2>3 DEF EnAttente, AuRepos
  <2>9. QED
    BY <1>2, <2>7, <2>8
<1>9. CASE UneGrise(prev, o, S, T)
  <2>1. PICK s \in DOMAIN e0_keys, haut \in BOOLEAN :
          /\ Frappe(e0_keys[s], haut, S, T)
          /\ \/ prev = 0 /\ o = <<224, Octet(s, haut)>>
             \/ prev = 224 /\ o = <<Octet(s, haut)>>
    BY <1>9 DEF UneGrise
  <2>2. CASE prev = 0 /\ o = <<224, Octet(s, haut)>>
    <3>1. Head(o) = 224 /\ Tail(o) = <<Octet(s, haut)>>
      BY <2>2
    <3>2. Passe(d, c, T, 224, S)
      BY <1>4, <2>2, <3>1, Lectures
    <3>3. EnAttente(224, Tail(o), S, T)
      BY <2>1, <3>1 DEF EnAttente, UneGrise
    <3>4. QED
      BY <1>2, <3>2, <3>3
  <2>3. CASE prev = 224 /\ o = <<Octet(s, haut)>>
    <3>1. PICK k \in TOUCHES : k = e0_keys[s]
      BY <2>1 DEF Frappe
    <3>2. /\ Octet(s, haut) \in 1..254 /\ (haut <=> Octet(s, haut) >= 128)
          /\ Head(o) = Octet(s, haut) /\ Tail(o) = << >>
      BY <2>3, E0Keys DEF Octet
    <3>3. Lit(prev, Octet(s, haut), 0, k)
      BY <2>3, <3>1, Lectures
    <3>4. (haut => k \in S) /\ T = ApresTouche(S, k, haut)
      BY <2>1, <3>1 DEF Frappe
    <3>5. Passe(d, c, T, 0, T)
      <4>1. k # 16
        BY <3>1, E0Keys
      <4>2. QED
        BY <1>5, <3>2, <3>3, <3>4, <4>1
    <3>6. EnAttente(0, Tail(o), T, T)
      BY <3>2 DEF EnAttente, AuRepos
    <3>7. QED
      BY <1>2, <3>5, <3>6
  <2>4. QED
    BY <2>1, <2>2, <2>3
<1>10. CASE AvantAppui(prev, o, S, T)
  <2>1. 72 \in DOMAIN e0_keys /\ e0_keys[72] = 103 /\ Frappe(103, FALSE, S, T)
    BY <1>10, E0Keys DEF AvantAppui
  <2>2. CASE prev = 0 /\ o = MajHaute
    <3>1. Head(o) = 224 /\ Tail(o) = <<170, 224, 72>>
      BY <2>2 DEF MajHaute
    <3>2. Passe(d, c, T, 224, S)
      BY <1>4, <2>2, <3>1, Lectures
    <3>3. EnAttente(224, Tail(o), S, T)
      BY <2>1, <3>1 DEF EnAttente, AvantAppui
    <3>4. QED
      BY <1>2, <3>2, <3>3
  <2>3. CASE prev = 224 /\ o = <<170, 224, 72>>
    <3>1. Head(o) = 170 /\ Tail(o) = <<224, 72>>
      BY <2>3
    <3>2. Passe(d, c, T, 0, S)
      <4>1. prev = 224 /\ Head(o) = 170 /\ 170 \in 1..254
        BY <2>3, <3>1
      <4>2. QED
        BY <1>4, <4>1, Lectures
    <3>3. UneGrise(0, Tail(o), S, T)
      <4>1. Tail(o) = <<224, Octet(72, FALSE)>>
        BY <3>1 DEF Octet
      <4>2. QED
        BY <2>1, <4>1 DEF UneGrise
    <3>4. QED
      BY <1>2, <3>2, <3>3 DEF EnAttente
  <2>4. QED
    BY <1>10, <2>2, <2>3 DEF AvantAppui
<1>11. CASE AvantRelachement(prev, o, S, T)
  <2>1. 103 \in TOUCHES /\ 103 \in S /\ T = ApresTouche(S, 103, TRUE) /\ Frappe(103, TRUE, S, T)
    BY <1>11 DEF AvantRelachement, Frappe
  <2>2. CASE prev = 0 /\ o = FlecheHaute
    <3>1. Head(o) = 224 /\ Tail(o) = <<200, 224, 42>>
      BY <2>2 DEF FlecheHaute
    <3>2. Passe(d, c, T, 224, S)
      BY <1>4, <2>2, <3>1, Lectures
    <3>3. EnAttente(224, Tail(o), S, T)
      BY <2>1, <3>1 DEF EnAttente, AvantRelachement
    <3>4. QED
      BY <1>2, <3>2, <3>3
  <2>3. CASE prev = 224 /\ o = <<200, 224, 42>>
    <3>1. Head(o) = 200 /\ Tail(o) = <<224, 42>>
      BY <2>3
    <3>2. Passe(d, c, T, 0, S \ {103})
      <4>1. prev = 224 /\ Head(o) = 200 /\ 103 \in TOUCHES /\ 103 \in S
        BY <2>1, <2>3, <3>1
      <4>2. 200 \in 128..254 /\ 103 # 16
        OBVIOUS
      <4>3. Lit(prev, 200, 0, 103)
        BY <4>1, Lectures
      <4>4. PICK octet, k : octet = 200 /\ k = 103
        OBVIOUS
      <4>5. /\ octet \in 128..254 /\ Head(o) = octet /\ k \in TOUCHES /\ k # 16 /\ k \in S
            /\ Lit(prev, octet, 0, k)
        BY <4>1, <4>2, <4>3, <4>4
      <4>6. Passe(d, c, T, 0, S \ {k})
        BY <1>7, <4>5
      <4>7. QED
        BY <4>4, <4>6
    <3>3. T = S \ {103}
      BY <2>1 DEF ApresTouche
    <3>4. EnAttente(0, Tail(o), T, T)
      <4>1. Restitue(0, Tail(o), T, T)
        BY <3>1 DEF Restitue
      <4>2. QED
        BY <4>1 DEF EnAttente
    <3>5. QED
      BY <1>2, <3>2, <3>3, <3>4
  <2>4. QED
    BY <1>11, <2>2, <2>3 DEF AvantRelachement
<1>12. CASE Restitue(prev, o, S, T)
  <2>1. T = S
    BY <1>12 DEF Restitue
  <2>2. CASE prev = 0 /\ o = <<224, 42>>
    <3>1. Head(o) = 224 /\ Tail(o) = <<42>>
      BY <2>2
    <3>2. Passe(d, c, T, 224, S)
      BY <1>4, <2>2, <3>1, Lectures
    <3>3. EnAttente(224, Tail(o), S, T)
      BY <2>1, <3>1 DEF EnAttente, Restitue
    <3>4. QED
      BY <1>2, <3>2, <3>3
  <2>3. CASE prev = 224 /\ o = <<42>>
    <3>1. Head(o) = 42 /\ Tail(o) = << >>
      BY <2>3
    <3>2. Passe(d, c, T, 0, S)
      BY <1>4, <2>3, <3>1, Lectures
    <3>3. EnAttente(0, Tail(o), S, T)
      BY <2>1, <3>1 DEF EnAttente, AuRepos
    <3>4. QED
      BY <1>2, <3>2, <3>3
  <2>4. QED
    BY <1>12, <2>2, <2>3 DEF Restitue
<1>13. CASE PauseBas(prev, o, S, T)
  <2>1. 119 \in TOUCHES /\ 119 \notin T /\ T = S
    BY <1>13 DEF PauseBas
  <2>2. CASE prev = 0 /\ o = Pause
    <3>1. Head(o) = 225 /\ Tail(o) = <<29, 69, 225, 157, 197>>
      BY <2>2 DEF Pause
    <3>2. Passe(d, c, T, 225, S)
      BY <1>4, <2>2, <3>1, Lectures
    <3>3. EnAttente(225, Tail(o), S, T)
      BY <2>1, <3>1 DEF EnAttente, PauseBas
    <3>4. QED
      BY <1>2, <3>2, <3>3
  <2>3. CASE prev = 225 /\ o = <<29, 69, 225, 157, 197>>
    <3>1. Head(o) = 29 /\ Tail(o) = <<69, 225, 157, 197>>
      BY <2>3
    <3>2. Passe(d, c, T, 256, S)
      BY <1>4, <2>3, <3>1, Lectures
    <3>3. EnAttente(256, Tail(o), S, T)
      BY <2>1, <3>1 DEF EnAttente, PauseBas
    <3>4. QED
      BY <1>2, <3>2, <3>3
  <2>4. CASE prev = 256 /\ o = <<69, 225, 157, 197>>
    <3>1. Head(o) = 69 /\ Tail(o) = <<225, 157, 197>>
      BY <2>4
    <3>2. Passe(d, c, T, 0, S \cup {119})
      BY <1>6, <2>1, <2>4, <3>1, Lectures
    <3>3. EnAttente(0, Tail(o), S \cup {119}, T)
      BY <2>1, <3>1 DEF EnAttente, PauseHaut
    <3>4. QED
      BY <1>2, <3>2, <3>3
  <2>5. QED
    BY <1>13, <2>2, <2>3, <2>4 DEF PauseBas
<1>14. CASE PauseHaut(prev, o, S, T)
  <2>1. 119 \in S /\ T = S \ {119} /\ 119 \in TOUCHES
    BY <1>1, <1>14 DEF PauseHaut, Compte
  <2>2. CASE prev = 0 /\ o = <<225, 157, 197>>
    <3>1. Head(o) = 225 /\ Tail(o) = <<157, 197>>
      BY <2>2
    <3>2. Passe(d, c, T, 225, S)
      BY <1>4, <2>2, <3>1, Lectures
    <3>3. EnAttente(225, Tail(o), S, T)
      BY <2>1, <3>1 DEF EnAttente, PauseHaut
    <3>4. QED
      BY <1>2, <3>2, <3>3
  <2>3. CASE prev = 225 /\ o = <<157, 197>>
    <3>1. Head(o) = 157 /\ Tail(o) = <<197>>
      BY <2>3
    <3>2. Passe(d, c, T, 256, S)
      BY <1>4, <2>3, <3>1, Lectures
    <3>3. EnAttente(256, Tail(o), S, T)
      BY <2>1, <3>1 DEF EnAttente, PauseHaut
    <3>4. QED
      BY <1>2, <3>2, <3>3
  <2>4. CASE prev = 256 /\ o = <<197>>
    <3>1. Head(o) = 197 /\ Tail(o) = << >>
      BY <2>4
    <3>2. Passe(d, c, T, 0, S \ {119})
      BY <1>7, <2>1, <2>4, <3>1, Lectures
    <3>3. EnAttente(0, Tail(o), S \ {119}, T)
      BY <2>1, <3>1 DEF EnAttente, AuRepos
    <3>4. QED
      BY <1>2, <3>2, <3>3
  <2>5. QED
    BY <1>14, <2>2, <2>3, <2>4 DEF PauseHaut
<1>15. ~AuRepos(prev, o, S, T)
  BY DEF AuRepos
<1>16. QED
  BY <1>1, <1>8, <1>9, <1>10, <1>11, <1>12, <1>13, <1>14, <1>15 DEF EnAttente

(* Two sequences of two bytes.                                             *)
LEMMA Bout ==
  ASSUME NEW a \in Nat, NEW b \in Nat, NEW c \in Nat, NEW d \in Nat
  PROVE  <<a, b>> \o <<c, d>> = <<a, b, c, d>>
<1>1. PICK s, t, u : s = <<a, b>> /\ t = <<c, d>> /\ u = <<a, b, c, d>>
  OBVIOUS
<1>2. s \in Seq(Nat) /\ t \in Seq(Nat) /\ u \in Seq(Nat) /\ Len(s) = 2 /\ Len(t) = 2 /\ Len(u) = 4
  BY <1>1
<1>3. /\ s \o t \in Seq(Nat) /\ Len(s \o t) = 4
      /\ \A i \in 1..4 : (s \o t)[i] = IF i <= 2 THEN s[i] ELSE t[i-2]
  <2>1. /\ s \o t \in Seq(Nat) /\ Len(s \o t) = Len(s) + Len(t)
        /\ \A i \in 1..Len(s) + Len(t) : (s \o t)[i] = IF i <= Len(s) THEN s[i] ELSE t[i - Len(s)]
    BY <1>2, ConcatProperties
  <2>2. Len(s) = 2 /\ Len(s) + Len(t) = 4
    BY <1>2
  <2>3. QED
    BY <2>1, <2>2
<1>4. \A i \in 1..4 : (s \o t)[i] = u[i]
  BY <1>1, <1>3
<1>5. s \o t = u
  BY <1>2, <1>3, <1>4, SeqEqual
<1>6. QED
  BY <1>1, <1>5

(* What is left to read after a key goes down, or up.                      *)
LEMMA Enfoncee ==
  ASSUME NEW S, S \subseteq TOUCHES \ {119}, NEW k \in TOUCHES
  PROVE  EnAttente(0, Appui(k, S), S, IF k = 119 THEN S ELSE S \cup {k})
<1>1. CASE k = 119
  <2>1. Appui(k, S) = Pause
    BY <1>1 DEF Appui, Envoi, Pause
  <2>2. PauseBas(0, Pause, S, S)
    BY <1>1 DEF PauseBas
  <2>3. QED
    BY <1>1, <2>1, <2>2 DEF EnAttente
<1>2. CASE k # 119
  <2>1. \A haut \in BOOLEAN : ~haut => Frappe(k, haut, S, S \cup {k})
    BY <1>2 DEF Frappe, ApresTouche
  <2>2. PICK haut \in BOOLEAN : ~haut
    OBVIOUS
  <2>3. Envoi(k) = Code(k)
    BY <1>2 DEF Envoi
  <2>4. CASE k = 103 /\ 42 \in S
    <3>1. Relache(FausseMajuscule) = <<224, 170>>
      BY DEF Relache, FausseMajuscule
    <3>2. Code(k) = <<224, 72>>
      BY <2>4, E0Keys, CodeProp
    <3>3. Appui(k, S) = MajHaute
      <4>1. Appui(k, S) = Relache(FausseMajuscule) \o Code(k)
        BY <2>3, <2>4 DEF Appui
      <4>2. <<224, 170>> \o <<224, 72>> = <<224, 170, 224, 72>>
        <5>1. 224 \in Nat /\ 170 \in Nat /\ 72 \in Nat
          OBVIOUS
        <5>2. QED
          BY <5>1, Bout
      <4>3. QED
        BY <3>1, <3>2, <4>1, <4>2 DEF MajHaute
    <3>4. AvantAppui(0, MajHaute, S, S \cup {k})
      BY <2>1, <2>4 DEF AvantAppui
    <3>5. QED
      BY <1>2, <3>3, <3>4 DEF EnAttente
  <2>5. CASE ~(k = 103 /\ 42 \in S) /\ k \in Grises
    <3>1. PICK t \in DOMAIN e0_keys : e0_keys[t] = k
      BY <2>5, E0Keys DEF Grises
    <3>2. Appui(k, S) = <<224, Octet(t, haut)>>
      BY <2>2, <2>3, <2>5, <3>1, CodeProp DEF Appui, Octet
    <3>3. UneGrise(0, Appui(k, S), S, S \cup {k})
      BY <2>1, <2>2, <3>1, <3>2 DEF UneGrise
    <3>4. QED
      BY <1>2, <3>3 DEF EnAttente
  <2>6. CASE ~(k = 103 /\ 42 \in S) /\ k \notin Grises
    <3>1. Appui(k, S) = <<Octet(k, haut)>>
      BY <2>2, <2>3, <2>6, CodeProp, ClavierAssumption DEF Appui, Octet
    <3>2. UneTouche(0, Appui(k, S), S, S \cup {k})
      BY <2>1, <2>2, <2>6, <3>1 DEF UneTouche
    <3>3. QED
      BY <1>2, <3>2 DEF EnAttente
  <2>7. QED
    BY <2>4, <2>5, <2>6
<1>3. QED
  BY <1>1, <1>2

LEMMA Relachee ==
  ASSUME NEW S, S \subseteq TOUCHES \ {119}, NEW k \in S
  PROVE  EnAttente(0, Relachement(k, S), S, S \ {k})
<1>1. \A haut \in BOOLEAN : haut => Frappe(k, haut, S, S \ {k})
  BY DEF Frappe, ApresTouche
<1>2. PICK haut \in BOOLEAN : haut
  OBVIOUS
<1>3. CASE k = 103 /\ 42 \in S
  <2>1. Relache(Code(k)) = <<224, 200>>
    BY <1>3, E0Keys, RelacheCode DEF Octet
  <2>2. Relachement(k, S) = FlecheHaute
    <3>1. Relachement(k, S) = Relache(Code(k)) \o <<224, 42>>
      BY <1>3 DEF Relachement, FausseMajuscule
    <3>2. <<224, 200>> \o <<224, 42>> = <<224, 200, 224, 42>>
      <4>1. 224 \in Nat /\ 200 \in Nat /\ 42 \in Nat
        OBVIOUS
      <4>2. QED
        BY <4>1, Bout
    <3>3. QED
      BY <2>1, <3>1, <3>2 DEF FlecheHaute
  <2>3. AvantRelachement(0, FlecheHaute, S, S \ {k})
    BY <1>1, <1>3 DEF AvantRelachement
  <2>4. QED
    BY <2>2, <2>3 DEF EnAttente
<1>4. CASE ~(k = 103 /\ 42 \in S) /\ k \in Grises
  <2>1. PICK t \in DOMAIN e0_keys : e0_keys[t] = k
    BY <1>4, E0Keys DEF Grises
  <2>2. Relachement(k, S) = <<224, Octet(t, haut)>>
    BY <1>2, <1>4, <2>1, RelacheCode DEF Relachement, Octet
  <2>3. UneGrise(0, Relachement(k, S), S, S \ {k})
    BY <1>1, <1>2, <2>1, <2>2 DEF UneGrise
  <2>4. QED
    BY <2>3 DEF EnAttente
<1>5. CASE ~(k = 103 /\ 42 \in S) /\ k \notin Grises
  <2>1. Relachement(k, S) = <<Octet(k, haut)>>
    BY <1>2, <1>5, RelacheCode, ClavierAssumption DEF Relachement, Octet
  <2>2. UneTouche(0, Relachement(k, S), S, S \ {k})
    BY <1>1, <1>2, <1>5, <2>1 DEF UneTouche
  <2>3. QED
    BY <2>2 DEF EnAttente
<1>6. QED
  BY <1>3, <1>4, <1>5

-----------------------------------------------------------------------------
(* The driver counts its modifiers, the lights are those of the locks, and *)
(* the bytes left lead from the driver's keys to the user's.               *)
IInvClavier ==
  /\ Compte(pilote) /\ Muni(pilote) /\ pilote.ledstate \in {INDEFINI, pilote.ledflagstate}
  /\ tenues \subseteq TOUCHES \ {119}
  /\ EnAttente(pilote.prev_scancode, octets, pilote.key_down, tenues)

(* With nothing left to read no key is on its way.                         *)
LEMMA Repos ==
  ASSUME NEW prev, NEW S, NEW T, EnAttente(prev, << >>, S, T)
  PROVE  prev = 0 /\ S = T
<1>1. ~UneTouche(prev, << >>, S, T) /\ ~UneGrise(prev, << >>, S, T)
  BY DEF UneTouche, UneGrise
<1>2. ~AvantAppui(prev, << >>, S, T) /\ ~AvantRelachement(prev, << >>, S, T)
  BY DEF AvantAppui, AvantRelachement, MajHaute, FlecheHaute
<1>3. ~Restitue(prev, << >>, S, T)
  BY DEF Restitue
<1>4. ~PauseBas(prev, << >>, S, T) /\ ~PauseHaut(prev, << >>, S, T)
  BY DEF PauseBas, PauseHaut, Pause
<1>5. QED
  BY <1>1, <1>2, <1>3, <1>4 DEF EnAttente, AuRepos

LEMMA InitIInvClavier == Init => IInvClavier
<1>1. SUFFICES ASSUME Init PROVE IInvClavier
  OBVIOUS
<1>2. \A m \in Modificateurs : De({}, m) = {} /\ Cardinality(De({}, m)) = 0
  BY FS_EmptySet DEF De
<1>3. /\ Champs(pilote) /\ pilote.key_down = {} /\ pilote.prev_scancode = 0
      /\ pilote.shift_state = {} /\ pilote.ledstate = INDEFINI
      /\ pilote.k_down = [m \in Modificateurs |-> 0]
  BY <1>1 DEF Init, PiloteInitial, Champs
<1>4. Compte(pilote)
  BY <1>2, <1>3 DEF Compte
<1>5. Muni(pilote)
  BY <1>1, <1>2 DEF Init, PiloteInitial, Muni, Sobre
<1>6. EnAttente(0, octets, {}, tenues)
  BY <1>1 DEF Init, EnAttente, AuRepos
<1>7. QED
  BY <1>1, <1>3, <1>4, <1>6, <1>5 DEF Init, IInvClavier

LEMMA IInvClavierStable == IInvClavier /\ [Next]_vars => IInvClavier'
<1>1. SUFFICES ASSUME IInvClavier, [Next]_vars PROVE IInvClavier'
  OBVIOUS
<1>2. PICK S, T : S = pilote.key_down /\ T = tenues
  OBVIOUS
<1>3. T \subseteq TOUCHES \ {119}
  BY <1>1, <1>2 DEF IInvClavier
<1>4. ASSUME octets = << >>, UNCHANGED pilote, tenues' \subseteq TOUCHES \ {119},
             EnAttente(0, octets', tenues, tenues')
      PROVE  IInvClavier'
  <2>1. pilote.prev_scancode = 0 /\ pilote.key_down = tenues
    BY <1>1, <1>4, Repos DEF IInvClavier
  <2>2. QED
    BY <1>1, <1>4, <2>1 DEF IInvClavier
<1>5. CASE \E k \in TOUCHES : Presser(k)
  <2>1. PICK k \in TOUCHES : Presser(k)
    BY <1>5
  <2>2. EnAttente(0, Appui(k, T), T, IF k = 119 THEN T ELSE T \cup {k})
    BY <1>3, Enfoncee
  <2>3. QED
    BY <1>1, <1>2, <1>4, <2>1, <2>2 DEF Presser, IInvClavier
<1>6. CASE \E k \in tenues : Repeter(k)
  <2>1. PICK k \in T : Repeter(k)
    BY <1>2, <1>6
  <2>2. EnAttente(0, Appui(k, T), T, IF k = 119 THEN T ELSE T \cup {k})
    BY <1>3, Enfoncee
  <2>3. (IF k = 119 THEN T ELSE T \cup {k}) = T
    OBVIOUS
  <2>4. QED
    BY <1>1, <1>2, <1>4, <2>1, <2>2, <2>3 DEF Repeter, IInvClavier
<1>7. CASE \E k \in tenues : Lacher(k)
  <2>1. PICK k \in T : Lacher(k)
    BY <1>2, <1>7
  <2>2. EnAttente(0, Relachement(k, T), T, T \ {k})
    BY <1>3, Relachee
  <2>3. QED
    BY <1>1, <1>2, <1>4, <2>1, <2>2 DEF Lacher, IInvClavier
<1>8. CASE traitant_clavier
  <2>1. PICK c, o, d : c = pilote /\ o = octets /\ d = pilote'
    OBVIOUS
  <2>2. /\ Compte(c) /\ Muni(c) /\ o # << >> /\ T \subseteq TOUCHES \ {119}
        /\ EnAttente(c.prev_scancode, o, c.key_down, T) /\ d = do_scancode(c, Head(o))
    BY <1>1, <1>2, <1>8, <2>1 DEF IInvClavier, traitant_clavier
  <2>3. /\ Compte(d) /\ Muni(d) /\ d.ledstate = d.ledflagstate
        /\ EnAttente(d.prev_scancode, Tail(o), d.key_down, T)
    BY <2>2, Avance
  <2>4. octets' = Tail(o) /\ tenues' = T
    BY <1>2, <1>8, <2>1 DEF traitant_clavier
  <2>5. QED
    BY <2>1, <2>2, <2>3, <2>4 DEF IInvClavier
<1>9. CASE UNCHANGED vars
  BY <1>1, <1>9 DEF vars, IInvClavier
<1>10. QED
  BY <1>1, <1>5, <1>6, <1>7, <1>8, <1>9 DEF Next

LEMMA InvEtatFidele == IInvClavier => EtatFidele
<1>1. SUFFICES ASSUME IInvClavier, octets = << >> PROVE EtatFidele
  BY DEF EtatFidele
<1>2. pilote.prev_scancode = 0 /\ pilote.key_down = tenues
  BY <1>1, Repos DEF IInvClavier
<1>3. \A m \in Modificateurs : Tenues(m) = De(tenues, m)
  BY <1>1, KeyMaps DEF IInvClavier, Tenues, De
<1>4. \A m \in Modificateurs : /\ pilote.k_down[m] = Cardinality(Tenues(m))
                               /\ m \in pilote.shift_state <=> Tenues(m) # {}
  BY <1>1, <1>2, <1>3 DEF IInvClavier, Compte
<1>5. pilote.shift_state = {m \in Modificateurs : Tenues(m) # {}}
  BY <1>1, <1>4 DEF IInvClavier, Compte
<1>6. QED
  BY <1>1, <1>2, <1>4, <1>5 DEF IInvClavier, EtatFidele

(* Once its bytes are read, the driver knows exactly the keys that are     *)
(* held, and counts each modifier as often as it is held, whatever the     *)
(* keys and their number: keyboard.c and scancode.c never lose track, not  *)
(* even where no keymap exists for the modifiers held.                     *)
THEOREM EtatFideleCorrect == Spec => []EtatFidele
  BY InitIInvClavier, IInvClavierStable, InvEtatFidele, PTL DEF Spec

LEMMA OctetJuste == IInvClavier /\ traitant_clavier => Juste(pilote', pilote, tenues)
<1>1. SUFFICES ASSUME IInvClavier, traitant_clavier PROVE Juste(pilote', pilote, tenues)
  OBVIOUS
<1>2. PICK c, o, d, T : c = pilote /\ o = octets /\ d = pilote' /\ T = tenues
  OBVIOUS
<1>3. /\ Compte(c) /\ Muni(c) /\ o # << >> /\ T \subseteq TOUCHES \ {119}
      /\ EnAttente(c.prev_scancode, o, c.key_down, T) /\ d = do_scancode(c, Head(o))
  BY <1>1, <1>2 DEF IInvClavier, traitant_clavier
<1>4. Juste(d, c, T)
  BY <1>3, Avance
<1>5. QED
  BY <1>2, <1>4

(* Whatever the keys held and the code typed on the pad, a byte sends a    *)
(* letter in the case that Shift and CapsLock call for, the code goes out  *)
(* at the release of a modifier only, and none is left behind once no      *)
(* modifier is down (do_self, do_shift, do_ascii).                         *)
THEOREM EnvoiJusteCorrect == Spec => EnvoiJuste
<1>1. IInvClavier /\ traitant_clavier =>
        LET e == pilote'.envoye
            sorti == pilote.npadch # RIEN /\ pilote'.npadch = RIEN
        IN /\ <<"car", 65>> \in Range(e) /\ ~sorti =>
                ("CAPSLOCK" \in pilote.ledflagstate) # (Tenues(SHIFT) # {})
           /\ e = Car(97) /\ pilote.npadch = RIEN /\ pilote.shift_state \subseteq {SHIFT} =>
                ("CAPSLOCK" \in pilote.ledflagstate) = (Tenues(SHIFT) # {})
           /\ sorti => e # << >> /\ pilote'.key_down \subseteq pilote.key_down
           /\ pilote'.npadch # RIEN => pilote'.shift_state # {}
  <2>1. SUFFICES ASSUME IInvClavier, traitant_clavier
                 PROVE  /\ Juste(pilote', pilote, tenues)
                        /\ Tenues(SHIFT) = De(tenues, SHIFT)
    BY DEF Juste, Sorti
  <2>2. Tenues(SHIFT) = De(tenues, SHIFT)
    BY <2>1, KeyMaps DEF IInvClavier, Tenues, De, Modificateurs
  <2>3. QED
    BY <2>1, <2>2, OctetJuste
<1>2. QED
  BY <1>1, InitIInvClavier, IInvClavierStable, PTL DEF Spec, EnvoiJuste
=============================================================================
