------------------------------ MODULE StateFile ------------------------------
(***************************************************************************)
(* SaveState and LoadState step by step: the snapshot under Stats.mu, then *)
(* os.WriteFile of path+".tmp" (open with truncation, write, close) and    *)
(* os.Rename, by the two goroutines of main.go that save: the periodic     *)
(* saver and the final save on the way out.  A write goes through the file *)
(* descriptor to an inode, whatever name that inode has by then.           *)
(*                                                                         *)
(* A snapshot is its number; a file is a sequence of blocks, each marked   *)
(* with the snapshot it came from, and snapshots differ in length.  Data   *)
(* that a process wrote outlives the process (the machine itself does not  *)
(* crash here).  Nothing keeps the two savers apart.                       *)
(***************************************************************************)
EXTENDS Naturals, Sequences

CONSTANTS
  MaxSnapshot,   \* bound on the changes of Stats
  Blocks,        \* the length of a snapshot's file
  MaxStarts      \* bound on the restarts

Saver == {"periodic", "final"}
Inode == 1 .. 4       \* the names and the descriptors refer to at most four
None  == 0            \* no inode, no snapshot
NoSnapshot == MaxSnapshot + 1   \* a block nobody wrote, a file that is torn

ASSUME StateFileAssumption ==
  /\ MaxSnapshot \in Nat /\ MaxStarts \in Nat
  /\ Blocks \in [0 .. MaxSnapshot -> Nat \ {0}]

VARIABLES
  current,   \* the number of the state Stats is in
  phase,     \* of the process: "up", "stopping" (the server is gone), "down"
  starts,    \* restarts so far
  content,   \* inode -> blocks
  path, tmp, \* the inodes of the two names
  step,      \* saver -> "idle", "open", "write", "rename" or "done"
  snap,      \* saver -> the snapshot it saves
  fd,        \* saver -> the inode it writes to
  offset,    \* saver -> blocks written
  met,       \* history: has the save under way, or the last one, met another?
  sound,     \* history: has a save gone through since two of them met?
  floor      \* history: the snapshot of the last save that met no other

disk  == <<content, path, tmp>>
saves == <<step, snap, fd, offset>>
history == <<met, sound, floor>>
vars  == <<current, phase, starts, disk, saves, history>>

Init ==
  /\ current = 0 /\ phase = "up" /\ starts = 0
  /\ content = [i \in Inode |-> <<>>] /\ path = None /\ tmp = None
  /\ step = [s \in Saver |-> "idle"] /\ snap = [s \in Saver |-> None]
  /\ fd = [s \in Saver |-> None] /\ offset = [s \in Saver |-> 0]
  /\ met = FALSE /\ sound = TRUE /\ floor = 0

-----------------------------------------------------------------------------
(* A file that holds one whole snapshot, and which one. *)
WholeOf(v, blocks) == blocks = [i \in 1 .. Blocks[v] |-> v]
Whole(blocks)      == \E v \in 0 .. MaxSnapshot : WholeOf(v, blocks)
Stored == IF path = None THEN 0
          ELSE IF Whole(content[path])
          THEN CHOOSE v \in 0 .. MaxSnapshot : WholeOf(v, content[path])
          ELSE NoSnapshot

(* A block written beyond the end of the file leaves a hole. *)
Put(blocks, i, v) ==
  [j \in 1 .. (IF i <= Len(blocks) THEN Len(blocks) ELSE i) |->
     IF j = i THEN v ELSE IF j <= Len(blocks) THEN blocks[j] ELSE NoSnapshot]

(* Traffic, seeding and pruning change Stats until the process is gone. *)
Change ==
  /\ phase # "down" /\ current < MaxSnapshot
  /\ current' = current + 1
  /\ UNCHANGED <<phase, starts, disk, saves, history>>

(* SIGTERM, or the server fails: ListenAndServe returns. *)
Signal ==
  /\ phase = "up"
  /\ phase' = "stopping"
  /\ UNCHANGED <<current, starts, disk, saves, history>>

(* The periodic saver's select takes a tick, and even with ctx done it     *)
(* may, when both channels are ready; the final save begins once the       *)
(* server is gone, and looks at no other.                                  *)
MayBegin(s) == IF s = "periodic" THEN phase # "down" ELSE phase = "stopping"

Active(s) == step[s] \in {"open", "write", "rename"}

(* The maps are copied under the lock. *)
Snapshot(s) ==
  /\ step[s] = "idle" /\ MayBegin(s)
  /\ step' = [step EXCEPT ![s] = "open"]
  /\ snap' = [snap EXCEPT ![s] = current]
  /\ met' = (\E r \in Saver : Active(r)) /\ sound' = (sound /\ ~met')
  /\ UNCHANGED <<current, phase, starts, disk, fd, offset, floor>>

FreeInode == CHOOSE i \in Inode : i \notin {path, tmp} \cup {fd[s] : s \in Saver}

(* Slip: the temporary file is created without O_TRUNC. *)
OpenTmp_noTruncation(s) ==
  /\ step[s] = "open"
  /\ LET i == IF tmp = None THEN FreeInode ELSE tmp IN
     /\ tmp' = i /\ UNCHANGED path
     /\ content' = IF tmp = None THEN [content EXCEPT ![i] = <<>>] ELSE content
     /\ fd' = [fd EXCEPT ![s] = i]
  /\ offset' = [offset EXCEPT ![s] = 0]
  /\ step' = [step EXCEPT ![s] = "write"]
  /\ UNCHANGED <<current, phase, starts, snap, history>>

(* os.WriteFile opens the temporary name, creating or truncating it. *)
OpenTmp(s) ==
  /\ step[s] = "open"
  /\ LET i == IF tmp = None THEN FreeInode ELSE tmp IN
     /\ tmp' = i /\ UNCHANGED path
     /\ content' = [content EXCEPT ![i] = <<>>]
     /\ fd' = [fd EXCEPT ![s] = i]
  /\ offset' = [offset EXCEPT ![s] = 0]
  /\ step' = [step EXCEPT ![s] = "write"]
  /\ UNCHANGED <<current, phase, starts, snap, history>>

(* It writes at its own offset into the inode it has open. *)
WriteBlock(s) ==
  /\ step[s] = "write" /\ offset[s] < Blocks[snap[s]]
  /\ content' = [content EXCEPT ![fd[s]] = Put(@, offset[s] + 1, snap[s])]
  /\ offset' = [offset EXCEPT ![s] = @ + 1]
  /\ UNCHANGED <<current, phase, starts, path, tmp, step, snap, fd, history>>

CloseTmp(s) ==
  /\ step[s] = "write" /\ offset[s] = Blocks[snap[s]]
  /\ fd' = [fd EXCEPT ![s] = None]
  /\ step' = [step EXCEPT ![s] = "rename"]
  /\ UNCHANGED <<current, phase, starts, disk, snap, offset, history>>

(* A save that returned: the periodic saver waits for its next tick, the   *)
(* final one is over.                                                      *)
Over(s) == IF s = "periodic" THEN "idle" ELSE "done"

(* Opening or writing fails (no space, no directory): SaveState returns    *)
(* the error and leaves whatever the temporary file has by then.           *)
SaveFails(s) ==
  /\ step[s] \in {"open", "write"}
  /\ step' = [step EXCEPT ![s] = Over(s)]
  /\ fd' = [fd EXCEPT ![s] = None]
  /\ UNCHANGED <<current, phase, starts, disk, snap, offset, history>>

(* Slip: a link instead of a rename leaves both names on the inode. *)
Rename_link(s) ==
  /\ step[s] = "rename" /\ tmp # None
  /\ path' = tmp
  /\ step' = [step EXCEPT ![s] = Over(s)]
  /\ sound' = (sound \/ ~met) /\ floor' = IF met THEN floor ELSE snap[s]
  /\ UNCHANGED <<current, phase, starts, content, tmp, snap, fd, offset, met>>

(* The temporary name, whatever inode it has by now, becomes the state     *)
(* file.                                                                   *)
Rename(s) ==
  /\ step[s] = "rename" /\ tmp # None
  /\ path' = tmp /\ tmp' = None
  /\ step' = [step EXCEPT ![s] = Over(s)]
  /\ sound' = (sound \/ ~met) /\ floor' = IF met THEN floor ELSE snap[s]
  /\ UNCHANGED <<current, phase, starts, content, snap, fd, offset, met>>

(* The other saver has renamed it already, or the file system refuses. *)
RenameFails(s) ==
  /\ step[s] = "rename"
  /\ step' = [step EXCEPT ![s] = Over(s)]
  /\ UNCHANGED <<current, phase, starts, disk, snap, fd, offset, history>>

(* The process is gone, and with it the savers' places and descriptors. *)
Gone ==
  /\ phase' = "down"
  /\ step' = [s \in Saver |-> "idle"] /\ snap' = [s \in Saver |-> None]
  /\ fd' = [s \in Saver |-> None] /\ offset' = [s \in Saver |-> 0]
  /\ UNCHANGED <<current, starts, disk, history>>

(* main returns once the final save has; nothing waits for the other one. *)
Exit  == phase = "stopping" /\ step["final"] = "done" /\ Gone
Crash == phase # "down" /\ Gone

(* The next process loads what the file holds, or starts empty.  Its Stats *)
(* is a later state than any before, whichever of the two it is.           *)
Start ==
  /\ phase = "down" /\ starts < MaxStarts
  /\ phase' = "up" /\ starts' = starts + 1
  /\ UNCHANGED <<current, disk, saves, history>>

Save(s) == \/ Snapshot(s) \/ OpenTmp(s) \/ WriteBlock(s) \/ CloseTmp(s)
           \/ SaveFails(s) \/ Rename(s) \/ RenameFails(s)

Next == Change \/ Signal \/ (\E s \in Saver : Save(s)) \/ Exit \/ Crash \/ Start

Spec == Init /\ [][Next]_vars

-----------------------------------------------------------------------------
(* Properties *)

(* Names and descriptors refer to inodes, the two names never to the same  *)
(* one, and a saver has a descriptor exactly while it writes.              *)
TypeInv ==
  /\ current \in 0 .. MaxSnapshot /\ starts \in 0 .. MaxStarts
  /\ phase \in {"up", "stopping", "down"}
  /\ content \in [Inode -> Seq(0 .. NoSnapshot)]
  /\ path \in Inode \cup {None} /\ tmp \in Inode \cup {None}
  /\ path # None => path # tmp
  /\ step \in [Saver -> {"idle", "open", "write", "rename", "done"}]
  /\ snap \in [Saver -> 0 .. MaxSnapshot]
  /\ \A s \in Saver : /\ fd[s] \in Inode \cup {None}
                      /\ step[s] = "write" <=> fd[s] # None
  /\ offset \in [Saver -> Nat]
  /\ met \in BOOLEAN /\ sound \in BOOLEAN /\ floor \in 0 .. MaxSnapshot

(* The state file is an atomic store, whatever fails or is killed, except  *)
(* where the final save and a periodic one meet: then it may be torn or go *)
(* back, but to nothing older than what it held before, and the next save  *)
(* that meets no other, of this process or a later one, makes it whole.    *)
Store == INSTANCE AtomicStore WITH latest <- current, stored <- Stored,
                                   Torn <- NoSnapshot
StoreIsAtomic == Store!Spec

(* SaveState "atomically writes": the state file, whenever there is one,   *)
(* holds one whole snapshot (state.go:61).  The code does not keep this    *)
(* while the final save meets a periodic one.                              *)
FileWhole == path # None => Whole(content[path])

(* The state file never goes back to an older snapshot: the final save is  *)
(* there because "the periodic saver races process exit" (main.go:259).    *)
(* The code does not keep this either: they race each other.               *)
NeverOlder == [][Stored = NoSnapshot \/ Stored' >= Stored]_vars
=============================================================================
