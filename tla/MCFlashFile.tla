----------------------------- MODULE MCFlashFile -----------------------------
(* A sector of 28 bytes with words of two bytes: two files of six bytes with
   some MRUs behind one another, then it is full. *)
EXTENDS FlashFile
=============================================================================
