------------------------------ MODULE Clavier ------------------------------
(***************************************************************************)
(* The keyboard driver: kbd-linux/keyboard.c and scancode.c with the glue  *)
(* of the kernel, from the bytes of the keyboard, one per interrupt, to    *)
(* the strings given to keyboard_data.  One console, in mode VC_XLATE with *)
(* KBD_DEFMODE, which nothing changes; the default keymaps hold no dead    *)
(* key, no lock and no sticky modifier.                                    *)
(*                                                                         *)
(* The driver is a record c; its fields have the names of the source.      *)
(*                                                                         *)
(* Definitions named X_... are mutated forms of X, used only to check that *)
(* the properties would notice such a slip.                                *)
(***************************************************************************)
EXTENDS Integers, Sequences, SequencesExt, FiniteSets, TLC

(***************************************************************************)
(* The tables of the keyboard driver: the symbols of a few keys in the     *)
(* seven keymaps (defkeymap.c), the scancodes with a prefix (scancode.c),  *)
(* and what a PC keyboard sends for a key, which is external.              *)
(***************************************************************************)

SHIFT == 0
ALTGR == 1
CTRL  == 2
ALT   == 3

Modificateurs == {SHIFT, ALTGR, CTRL, ALT}

(* The keymaps, for a few keys: keycode -> kind of symbol and value.        *)
ToutesTouches == {15, 16, 28, 29, 42, 54, 56, 58, 69, 70, 71, 72, 96, 97, 100, 103, 119}

plain_map ==
  [k \in ToutesTouches |->
     CASE k \in {42, 54} -> <<"SHIFT", SHIFT>>
       [] k \in {29, 97} -> <<"SHIFT", CTRL>>
       [] k = 56  -> <<"SHIFT", ALT>>   [] k = 100 -> <<"SHIFT", ALTGR>>
       [] k = 15  -> <<"LATIN", 9>>     [] k = 16  -> <<"LETTER", 97>>
       [] k = 28  -> <<"SPEC", 1>>      [] k = 58  -> <<"SPEC", 7>>
       [] k = 69  -> <<"SPEC", 8>>      [] k = 70  -> <<"SPEC", 9>>
       [] k = 71  -> <<"PAD", 7>>       [] k = 72  -> <<"PAD", 8>>
       [] k = 96  -> <<"PAD", 14>>      [] k = 103 -> <<"CUR", 3>>
       [] k = 119 -> <<"FN", 29>>]

shift_map == [plain_map EXCEPT ![16] = <<"LETTER", 65>>, ![70] = <<"SPEC", 3>>]

altgr_map ==
  [plain_map EXCEPT ![15] = <<"SPEC", 0>>, ![69] = <<"ASCII", 20>>, ![70] = <<"SPEC", 2>>,
                    ![71] = <<"ASCII", 17>>, ![72] = <<"ASCII", 18>>, ![96] = <<"ASCII", 25>>]

ctrl_map == [plain_map EXCEPT ![15] = <<"SPEC", 0>>, ![16] = <<"LATIN", 1>>, ![70] = <<"SPEC", 4>>]

altgr_ctrl_map == [ctrl_map EXCEPT ![70] = <<"SPEC", 0>>]

alt_map ==
  [plain_map EXCEPT ![15] = <<"META", 9>>, ![16] = <<"META", 97>>, ![28] = <<"META", 13>>,
                    ![71] = <<"ASCII", 7>>, ![72] = <<"ASCII", 8>>, ![103] = <<"SPEC", 18>>]

ctrl_alt_map == [plain_map EXCEPT ![15] = <<"SPEC", 0>>, ![16] = <<"META", 1>>, ![70] = <<"SPEC", 0>>]

(* The sets of modifiers that have a keymap.                               *)
key_maps ==
  [s \in {{}, {SHIFT}, {ALTGR}, {CTRL}, {ALTGR, CTRL}, {ALT}, {CTRL, ALT}} |->
     CASE s = {}            -> plain_map
       [] s = {SHIFT}       -> shift_map
       [] s = {ALTGR}       -> altgr_map
       [] s = {CTRL}        -> ctrl_map
       [] s = {ALTGR, CTRL} -> altgr_ctrl_map
       [] s = {ALT}         -> alt_map
       [] s = {CTRL, ALT}   -> ctrl_alt_map]

(* The function keys that have a string; the texts of func_buf are left    *)
(* out, a string is named by its number.                                   *)
func_table == 0..25

(* After the prefix e0.                                                    *)
e0_keys ==
  [s \in {28, 29, 56, 72} |-> CASE s = 28 -> 96 [] s = 29 -> 97 [] s = 56 -> 100 [] s = 72 -> 103]

SC_LIM == 89

-----------------------------------------------------------------------------
(* The keyboard.  The grey arrow first cancels a shift that is held, and   *)
(* restores it when it is released; Pause sends its release at once.       *)
Code(k) ==
  IF k \in Range(e0_keys) THEN <<224, CHOOSE s \in DOMAIN e0_keys : e0_keys[s] = k>> ELSE <<k>>

Envoi(k) == IF k = 119 THEN <<225, 29, 69, 225, 157, 197>> ELSE Code(k)

Relache(s) == [s EXCEPT ![Len(s)] = @ + 128]

FausseMajuscule == <<224, 42>>

Appui(k, tenues) ==
  IF k = 103 /\ 42 \in tenues THEN Relache(FausseMajuscule) \o Envoi(k) ELSE Envoi(k)

Relachement(k, tenues) ==
  IF k = 103 /\ 42 \in tenues THEN Relache(Code(k)) \o FausseMajuscule ELSE Relache(Code(k))

-----------------------------------------------------------------------------


CONSTANTS
  TOUCHES,     \* the keys of the keyboard, by keycode
  MAX_TENUES,  \* bound: keys held at once
  NPAD         \* npadch counts modulo this (only its low byte is sent)

ASSUME ClavierAssumption == TOUCHES \subseteq ToutesTouches /\ NPAD \in Nat /\ NPAD > 16

INDEFINI == {"INDEFINI"}

RIEN == -1

(* What one call of keyboard_data receives: a character, one of the        *)
(* strings of the function keys, or an escape sequence.                    *)
Car(n)  == << <<"car", n>> >>
Fonction(n) == << <<"fonction", n>> >>
Sequence(n) == << <<"sequence", n>> >>

keyboard_data(c, s) == [c EXCEPT !.envoye = @ \o s]
put_queue(c, n)  == keyboard_data(c, Car(n))
puts_queue(c, s) == keyboard_data(c, s)
applkey(c, n)    == puts_queue(c, Sequence(n))

-----------------------------------------------------------------------------
(* kbd_translate: the driver with prev_scancode up to date, and the        *)
(* keycode, or RIEN.                                                       *)
Traduit(c, prev, k) == [c |-> [c EXCEPT !.prev_scancode = prev], keycode |-> k]

kbd_translate_SansFausses(c, octet) ==
  LET s == octet % 128
  IN IF octet \in {224, 225} THEN Traduit(c, octet, RIEN)
     ELSE IF c.prev_scancode = 225 THEN Traduit(c, IF s = 29 THEN 256 ELSE 0, RIEN)
     ELSE IF c.prev_scancode = 256 THEN Traduit(c, 0, IF s = 69 THEN 119 ELSE RIEN)
     ELSE IF c.prev_scancode = 224
     THEN Traduit(c, 0, IF s \in DOMAIN e0_keys THEN e0_keys[s] ELSE s)
     ELSE Traduit(c, c.prev_scancode, s)

kbd_translate(c, octet) ==
  LET s == octet % 128
  IN IF octet \in {224, 225} THEN Traduit(c, octet, RIEN)
     ELSE IF c.prev_scancode = 225 THEN Traduit(c, IF s = 29 THEN 256 ELSE 0, RIEN)
     ELSE IF c.prev_scancode = 256 THEN Traduit(c, 0, IF s = 69 THEN 119 ELSE RIEN)
     ELSE IF c.prev_scancode = 224
     THEN Traduit(c, 0, IF s \in DOMAIN e0_keys THEN e0_keys[s] ELSE RIEN)
     ELSE Traduit(c, c.prev_scancode, s)

kbd_unexpected_up(k) == ~(k >= SC_LIM \/ k = 85)

-----------------------------------------------------------------------------
(* Modifiers: counted, then recomputed from the keys that are down.        *)
compute_shiftstate(c) ==
  LET tenues(m) == {k \in c.key_down : key_maps[{}][k] = <<"SHIFT", m>>}
  IN [c EXCEPT !.k_down = [m \in Modificateurs |-> Cardinality(tenues(m))],
               !.shift_state = {m \in Modificateurs : tenues(m) # {}}]

(* The code typed on the pad goes out when a modifier is released.         *)
do_shift_SansCode(c, m, up, rep) ==
  LET n == IF up THEN IF c.k_down[m] > 0 THEN c.k_down[m] - 1 ELSE 0 ELSE c.k_down[m] + 1
      s == IF n > 0 THEN c.shift_state \cup {m} ELSE c.shift_state \ {m}
  IN IF rep THEN c ELSE [c EXCEPT !.k_down[m] = n, !.shift_state = s]

do_shift(c, m, up, rep) ==
  LET n == IF up THEN IF c.k_down[m] > 0 THEN c.k_down[m] - 1 ELSE 0 ELSE c.k_down[m] + 1
      s == IF n > 0 THEN c.shift_state \cup {m} ELSE c.shift_state \ {m}
      d == [c EXCEPT !.k_down[m] = n, !.shift_state = s]
  IN IF rep THEN c
     ELSE IF up /\ s # c.shift_state /\ c.npadch # RIEN
     THEN [put_queue(d, c.npadch % NPAD) EXCEPT !.npadch = RIEN]
     ELSE d

do_ascii(c, v) ==
  LET base    == IF v < 10 THEN 10 ELSE 16
      chiffre == IF v < 10 THEN v ELSE v - 10
  IN [c EXCEPT !.npadch = IF @ = RIEN THEN chiffre ELSE (@ * base + chiffre) % NPAD]

Bascule(S, e) == IF e \in S THEN S \ {e} ELSE S \cup {e}

chg_vc_kbd_led(c, led) == [c EXCEPT !.ledflagstate = Bascule(@, led)]

enter(c) == put_queue(c, 13)
caps_toggle(c, rep) == IF rep THEN c ELSE chg_vc_kbd_led(c, "CAPSLOCK")
bare_num(c, rep)    == IF rep THEN c ELSE chg_vc_kbd_led(c, "NUMLOCK")
num(c, rep)         == bare_num(c, rep)

(* ScrollLock stops the terminal or starts it again; nothing else looks at *)
(* it, and the light is not changed.                                       *)
keyboard_stop_tty(c)  == [c EXCEPT !.stopped = TRUE]
keyboard_start_tty(c) == [c EXCEPT !.stopped = FALSE]
hold(c, rep) == IF rep THEN c ELSE IF c.stopped THEN keyboard_start_tty(c) ELSE keyboard_stop_tty(c)

(* The specials that end in an empty function of the kernel's glue: listing *)
(* of the state, another console, scrolling, interruption, reboot.         *)
Muettes == {2, 3, 4, 5, 6, 10, 11, 12, 15, 16, 17, 18}

do_spec(c, v, rep) ==
  CASE v = 0 -> compute_shiftstate(c)
    [] v = 1 -> enter(c)
    [] v = 7 -> caps_toggle(c, rep)
    [] v = 8 -> num(c, rep)
    [] v = 9 -> hold(c, rep)
    [] v \in Muettes -> c

do_fn(c, v)   == IF v \in func_table THEN puts_queue(c, Fonction(v)) ELSE c
do_cur(c, v)  == applkey(c, v)
do_self(c, v) == put_queue(c, v)
do_meta(c, v) == put_queue(put_queue(c, 27), v)

(* Without NumLock the digits of the pad move or edit.                     *)
Editions == 0 :> 21 @@ 1 :> 23 @@ 3 :> 25 @@ 7 :> 20 @@ 9 :> 24
Fleches  == 2 :> 0 @@ 4 :> 1 @@ 6 :> 2 @@ 8 :> 3
pad_chars == [v \in 0..9 \cup {14} |-> IF v = 14 THEN 13 ELSE 48 + v]
do_pad(c, v) ==
  IF "NUMLOCK" \in c.ledflagstate \/ v = 14 THEN put_queue(c, pad_chars[v])
  ELSE IF v \in DOMAIN Editions THEN do_fn(c, Editions[v])
  ELSE IF v \in DOMAIN Fleches THEN do_cur(c, Fleches[v])
  ELSE applkey(c, 4)                      \* the 5: the letter G after B, D, C, A

(* CapsLock is one more shift, for letters, where that keymap exists.      *)
Symbole(c, k) ==
  LET s == key_maps[c.shift_state][k]
      m == Bascule(c.shift_state, SHIFT)
  IN IF s[1] # "LETTER" THEN s
     ELSE <<"LATIN", IF "CAPSLOCK" \in c.ledflagstate /\ m \in DOMAIN key_maps THEN key_maps[m][k][2] ELSE s[2]>>

key_handler(c, sym, up, rep) ==
  IF sym[1] = "SHIFT" THEN do_shift(c, sym[2], up, rep)
  ELSE IF up THEN c
  ELSE CASE sym[1] = "SPEC"  -> do_spec(c, sym[2], rep)
         [] sym[1] = "LATIN" -> do_self(c, sym[2])
         [] sym[1] = "META"  -> do_meta(c, sym[2])
         [] sym[1] = "PAD"   -> do_pad(c, sym[2])
         [] sym[1] = "CUR"   -> do_cur(c, sym[2])
         [] sym[1] = "FN"    -> do_fn(c, sym[2])
         [] sym[1] = "ASCII" -> do_ascii(c, sym[2])

(* A key k goes up or down.  Where no keymap exists the modifiers are      *)
(* recomputed and the key is lost.                                         *)
Touche(c, k, haut) ==
  LET up  == haut /\ (k \in c.key_down \/ kbd_unexpected_up(k))
      rep == ~haut /\ k \in c.key_down
      d   == [c EXCEPT !.key_down = IF haut THEN @ \ {k} ELSE @ \cup {k}]
  IN IF d.shift_state \in DOMAIN key_maps THEN key_handler(d, Symbole(d, k), up, rep)
     ELSE compute_shiftstate(d)

handle_scancode(c, octet) ==
  LET t == kbd_translate([c EXCEPT !.envoye = << >>], octet)
  IN IF t.keycode = RIEN THEN t.c ELSE Touche(t.c, t.keycode, octet >= 128)

(* kbd_bh: the lights follow the flags; the tasklet runs it at once.       *)
getleds(c) == c.ledflagstate
kbd_bh(c)  == [c EXCEPT !.ledstate = getleds(c)]
keyboard_schedule_tasklet(c) == kbd_bh(c)

kbd_init(c) == keyboard_schedule_tasklet([c EXCEPT !.ledflagstate = {}])

do_scancode(c, octet) ==
  LET d == IF c.ledstate = INDEFINI THEN kbd_init(c) ELSE c
  IN IF octet \in {0, 255} THEN d ELSE kbd_bh(handle_scancode(d, octet))

-----------------------------------------------------------------------------
VARIABLES
  pilote,    \* the driver
  octets,    \* bytes of the keyboard that no interrupt has brought yet
  tenues     \* keys that the user holds

vars == <<pilote, octets, tenues>>

PiloteInitial ==
  [prev_scancode |-> 0, key_down |-> {}, k_down |-> [m \in Modificateurs |-> 0],
   shift_state |-> {}, npadch |-> RIEN, ledflagstate |-> {}, ledstate |-> INDEFINI,
   stopped |-> FALSE, envoye |-> << >>]

Init == pilote = PiloteInitial /\ octets = << >> /\ tenues = {}

(* The user: a key sends all its bytes at once, a held key repeats.        *)
Presser(k) ==
  /\ octets = << >> /\ k \notin tenues /\ Cardinality(tenues) < MAX_TENUES
  /\ octets' = Appui(k, tenues)
  /\ tenues' = IF k = 119 THEN tenues ELSE tenues \cup {k}
  /\ UNCHANGED pilote

Repeter(k) ==
  /\ octets = << >>
  /\ octets' = Appui(k, tenues)
  /\ UNCHANGED <<pilote, tenues>>

Lacher(k) ==
  /\ octets = << >>
  /\ octets' = Relachement(k, tenues)
  /\ tenues' = tenues \ {k}
  /\ UNCHANGED pilote

(* The interrupt of the keyboard brings one byte.                          *)
traitant_clavier ==
  /\ octets # << >>
  /\ pilote' = do_scancode(pilote, Head(octets))
  /\ octets' = Tail(octets)
  /\ UNCHANGED tenues

Next ==
  \/ \E k \in TOUCHES : Presser(k)
  \/ \E k \in tenues : Repeter(k) \/ Lacher(k)
  \/ traitant_clavier

Spec == Init /\ [][Next]_vars
=============================================================================
