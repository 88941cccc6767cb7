------------------------------ MODULE MCPages ------------------------------
(***************************************************************************)
(* The pages for TLC: pages of two bytes, tables of four entries, and      *)
(* directories of 32, whose first 7 map the kernel.                        *)
(***************************************************************************)
EXTENDS PagesProp

MesSections ==
  [_start |-> 4, _text_start |-> 5, _text_end |-> 6, _multiboot_start |-> 6,
   _multiboot_end |-> 7, _bootstrap_stack_start |-> 7, _bootstrap_stack_end |-> 8,
   _rodata_start |-> 8, _rodata_end |-> 9, _data_start |-> 9, _data_end |-> 10,
   _bss_start |-> 10, _bss_end |-> 11, _end |-> 11, mem_end |-> 28]
=============================================================================
