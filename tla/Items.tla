-------------------------------- MODULE Items --------------------------------
(***************************************************************************)
(* Values that code of the crate owns by hand, in a union or in memory     *)
(* that it allocated: the compiler does not drop them, so that a mistake   *)
(* drops one twice or never.                                               *)
(*                                                                         *)
(* They are numbered as they come into being.  What no value was written   *)
(* to holds no number, so that a read of it shows itself.                  *)
(***************************************************************************)
EXTENDS Integers, FiniteSets, Bags

CONSTANT ItemsMax  \* bound: how many values there are over time

VARIABLES
  made,  \* history: how many values there have been
  gone   \* history: the values moved out or dropped, each as often as it was

Junk == 0

\* How often a value was moved out or dropped.
TimesGone(n) == IF BagIn(n, gone) THEN gone[n] ELSE 0

=============================================================================
