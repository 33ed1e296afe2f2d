---------------------------- MODULE MCHolidaySync -----------------------------
(* Small instances of HolidaySync for TLC.                                   *)
EXTENDS HolidayInvariant, TLC

BothModes == {"preview", "sync"}
OnlySync == {"sync"}
OnlyPreview == {"preview"}

(* Jobs are ordered; everything else is drawn.                               *)
Symmetry ==
  Permutations(CalendarIds) \cup Permutations(Digests) \cup Permutations(Workers)
    \cup Permutations(Operators) \cup Permutations(Years)
===============================================================================
