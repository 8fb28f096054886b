------------------------------ MODULE LockModes ------------------------------
(***************************************************************************)
(* The lock classes of the SIX semaphore and the two constant tables of    *)
(* six_lock.c that decide everything about them: which class may join which *)
(* held classes, and which class an upgrade asks for.                       *)
(***************************************************************************)

\* enum fusion_sixsem_lock_t (six_lock.h).
LOCK_NULL == "NULL"

Modes == {"NULL", "IS", "IX", "S", "SIX", "U", "X"}

\* COMPAT_MASK_*: the classes that may already be held when this one is asked
\* for.  The table is not symmetric: U may join S, S may not join U.
COMPAT_MASK ==
  [NULL |-> Modes,
   IS   |-> {"NULL", "S", "IS", "IX", "SIX"},
   IX   |-> {"NULL", "IS", "IX"},
   S    |-> {"NULL", "S", "IS"},
   SIX  |-> {"NULL", "IS"},
   U    |-> {"NULL", "S"},
   X    |-> {"NULL"}]

\* upgrade_conversion[new_mode][old_mode]: the class an upgrade really requests.
\* One row per requested class; the columns are the class already held.
ConversionRow(null, is, ix, s, six, u, x) ==
  [NULL |-> null, IS |-> is, IX |-> ix, S |-> s, SIX |-> six, U |-> u, X |-> x]

upgrade_conversion ==
  [NULL |-> ConversionRow("NULL", "IS",  "IX",  "S",   "SIX", "U",   "X"),
   IS   |-> ConversionRow("IS",   "IS",  "IX",  "S",   "SIX", "U",   "X"),
   IX   |-> ConversionRow("IX",   "IX",  "IX",  "SIX", "SIX", "X",   "X"),
   S    |-> ConversionRow("S",    "S",   "SIX", "S",   "SIX", "U",   "X"),
   SIX  |-> ConversionRow("SIX",  "SIX", "SIX", "SIX", "SIX", "SIX", "X"),
   U    |-> ConversionRow("U",    "U",   "X",   "U",   "SIX", "U",   "X"),
   X    |-> ConversionRow("X",    "X",   "X",   "X",   "X",   "X",   "X")]
=============================================================================
