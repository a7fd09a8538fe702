---------------------------- MODULE AtomicUpdate ----------------------------
(***************************************************************************)
(* What the firmware update promises, with no flash pages, no bootloader   *)
(* and no power cuts.  A device has the image it runs, at most one image   *)
(* staged to replace it, and a factory copy.  A staged image replaces the  *)
(* active one in a single step or not at all.  Only the operator's factory *)
(* menu may leave the device without a runnable image.                     *)
(***************************************************************************)
CONSTANTS
  Images,    \* the firmware builds
  NoImage,   \* no complete image in this place
  NotOlder   \* the pairs <<v, w>> in which build w may replace build v

VARIABLES
  active,    \* the image the device runs, or NoImage
  staged,    \* the verified image waiting to replace it, or NoImage
  fallback   \* the image in the factory area, or NoImage

vars == <<active, staged, fallback>>

TypeOK ==
  /\ active \in Images \cup {NoImage}
  /\ staged \in Images \cup {NoImage}
  /\ fallback \in Images \cup {NoImage}

Init ==
  /\ active \in Images
  /\ staged = NoImage
  /\ fallback = NoImage

\* A running image stages a build that is not older than itself.
Stage(w) ==
  /\ staged = NoImage
  /\ <<active, w>> \in NotOlder
  /\ staged' = w
  /\ UNCHANGED <<active, fallback>>

\* The staged image becomes the active one, atomically.
Commit ==
  /\ staged # NoImage
  /\ active' = staged
  /\ staged' = NoImage
  /\ UNCHANGED fallback

\* The operator overwrites the application area with the factory copy.
RestoreBegins ==
  /\ staged = NoImage
  /\ active' = NoImage
  /\ UNCHANGED <<staged, fallback>>

RestoreEnds ==
  /\ staged = NoImage
  /\ active = NoImage
  /\ active' = fallback
  /\ UNCHANGED <<staged, fallback>>

\* The operator erases the factory area, or replaces it by the active image.
FactoryLost ==
  /\ staged = NoImage
  /\ fallback' = NoImage
  /\ UNCHANGED <<active, staged>>

FactoryFilled ==
  /\ staged = NoImage
  /\ fallback = NoImage
  /\ fallback' = active
  /\ UNCHANGED <<active, staged>>

Next ==
  \/ \E w \in Images : Stage(w)
  \/ Commit
  \/ RestoreBegins
  \/ RestoreEnds
  \/ FactoryLost
  \/ FactoryFilled

Spec == Init /\ [][Next]_vars
=============================================================================
