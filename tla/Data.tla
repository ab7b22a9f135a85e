-------------------------------- MODULE Data --------------------------------
(***************************************************************************)
(* The arithmetic helper of data/data.c that the rest of the program       *)
(* sizes its buffers with.                                                 *)
(***************************************************************************)
EXTENDS Integers

(* Mutant: rounds down. *)
rtonmDown(number, multiple) ==
  IF multiple = 0 THEN number ELSE number - (number % multiple)

(* rtonm(): the smallest multiple of "multiple" that is >= number, except *)
(* that 0 is rounded up to one whole multiple and that a zero multiple     *)
(* leaves the number alone.                                                *)
rtonm(number, multiple) ==
  IF number = 0 THEN multiple
  ELSE IF multiple = 0 THEN number
  ELSE IF number % multiple = 0 THEN number
  ELSE (number + multiple) - (number % multiple)
=============================================================================
