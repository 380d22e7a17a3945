----------------------------- MODULE AtomicStore -----------------------------
(***************************************************************************)
(* What the state file promises: whoever reads it finds one whole snapshot *)
(* of Stats, or no file, and no snapshot comes back once a newer one was   *)
(* there.  Two saves that meet suspend that promise (the file may be torn, *)
(* or an older snapshot return) until a save that meets no other has gone  *)
(* through; but nothing older returns than what the file held before they  *)
(* met.  Snapshots are numbered in the order in which Stats had them.      *)
(***************************************************************************)
EXTENDS Naturals

CONSTANT Torn   \* stands for a file that holds no whole snapshot

VARIABLES
  latest,   \* the number of the state Stats is in
  stored,   \* the number of the stored snapshot, 0 when there is none, or Torn
  sound,    \* does the promise stand?
  floor     \* the last snapshot stored while it did

Init == latest = 0 /\ stored = 0 /\ sound = TRUE /\ floor = 0

Change == /\ latest' = latest + 1
          /\ UNCHANGED <<stored, sound, floor>>

(* A save that meets no other goes through. *)
Commit == /\ stored' \in floor .. latest
          /\ floor' = stored' /\ sound' = TRUE
          /\ UNCHANGED latest

(* One of two saves that meet leaves something. *)
Meet    == sound' = FALSE /\ UNCHANGED <<latest, stored, floor>>
Disturb == /\ ~sound /\ stored' \in floor .. latest \cup {Torn}
           /\ UNCHANGED <<latest, sound, floor>>

Next == Change \/ Commit \/ Meet \/ Disturb

Spec == Init /\ [][Next]_<<latest, stored, sound, floor>>
=============================================================================
