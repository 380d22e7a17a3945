--------------------------- MODULE StateFileProofs ---------------------------
(***************************************************************************)
(* Proofs about StateFile, for every number and every length of the        *)
(* snapshots and every number of restarts, and whoever saves when.  That   *)
(* the file is an atomic store rests on SInv: a save that has met no other *)
(* has the temporary file to itself, and what it wrote is a part of its    *)
(* snapshot (Alone); and whatever met, no block that could come to the     *)
(* state file is older than the last save that met no other (Recent).      *)
(***************************************************************************)
EXTENDS StateFile, TLAPS

Steps == {"idle", "open", "write", "rename", "done"}

(* TypeInv, and that fd is a function. *)
Types == TypeInv /\ fd \in [Saver -> Inode \cup {None}]

LEMMA InitTypes == Init => Types
<1> SUFFICES ASSUME Init PROVE Types
  OBVIOUS
<1>1. met \in BOOLEAN /\ sound \in BOOLEAN
  BY DEF Init
<1> QED
  BY <1>1, StateFileAssumption DEF Init, Types, TypeInv, Saver, Inode, None, NoSnapshot

(* Three of the four inodes may be in use before one is needed. *)
LEMMA FreeInodeFree ==
  ASSUME Types, NEW s \in Saver, step[s] = "open", tmp = None
  PROVE  /\ FreeInode \in Inode /\ FreeInode # path
         /\ \A r \in Saver : fd[r] # FreeInode
<1>1. fd[s] = None
  BY DEF Types, TypeInv
<1>2. PICK r \in Saver : \A q \in Saver : q = s \/ q = r
  BY DEF Saver
<1>3. \E i \in {1, 2, 3} : i # path /\ i # fd[r]
  OBVIOUS
<1>4. PICK i \in {1, 2, 3} : i # path /\ i # fd[r]
  BY <1>3
<1>5. i \in Inode /\ i \notin {path, tmp} \cup {fd[q] : q \in Saver}
  BY <1>1, <1>2, <1>4 DEF Inode, None
<1>6. FreeInode \in Inode /\ FreeInode \notin {path, tmp} \cup {fd[q] : q \in Saver}
  BY <1>5 DEF FreeInode
<1> QED
  BY <1>6

(* A block more, or another one, in a file. *)
LEMMA PutFacts ==
  ASSUME NEW b \in Seq(0 .. NoSnapshot), NEW n \in Nat, NEW v \in 0 .. MaxSnapshot
  PROVE  /\ Put(b, n + 1, v) \in Seq(0 .. NoSnapshot)
         /\ Len(Put(b, n + 1, v)) = IF n + 1 <= Len(b) THEN Len(b) ELSE n + 1
         /\ \A j \in 1 .. Len(Put(b, n + 1, v)) :
              Put(b, n + 1, v)[j] = IF j = n + 1 THEN v
                                    ELSE IF j <= Len(b) THEN b[j] ELSE NoSnapshot
<1> DEFINE l == IF n + 1 <= Len(b) THEN Len(b) ELSE n + 1
<1> DEFINE F(j) == IF j = n + 1 THEN v ELSE IF j <= Len(b) THEN b[j] ELSE NoSnapshot
<1>1. l \in Nat /\ Put(b, n + 1, v) = [j \in 1 .. l |-> F(j)]
  BY DEF Put
<1>2. \A j \in 1 .. l : F(j) \in 0 .. NoSnapshot
  BY StateFileAssumption DEF NoSnapshot
<1> HIDE DEF F, l
<1>3. [j \in 1 .. l |-> F(j)] \in Seq(0 .. NoSnapshot) /\ Len([j \in 1 .. l |-> F(j)]) = l
  BY <1>1, <1>2
<1>4. \A j \in 1 .. Len(Put(b, n + 1, v)) : Put(b, n + 1, v)[j] = F(j)
  BY <1>1, <1>3
<1> QED
  BY <1>1, <1>3, <1>4 DEF l, F

LEMMA OpenTypes ==
  ASSUME Types, NEW s \in Saver, OpenTmp(s)
  PROVE  Types' /\ tmp' # None /\ fd' = [fd EXCEPT ![s] = tmp'] /\ (tmp = None \/ tmp' = tmp)
<1>1. tmp' \in Inode /\ tmp' # path /\ (tmp = None \/ tmp' = tmp)
  BY FreeInodeFree DEF OpenTmp, Types, TypeInv, None
<1>2. /\ content' = [content EXCEPT ![tmp'] = <<>>] /\ path' = path
      /\ fd' = [fd EXCEPT ![s] = tmp']
      /\ step' = [step EXCEPT ![s] = "write"] /\ offset' = [offset EXCEPT ![s] = 0]
      /\ UNCHANGED <<current, phase, starts, snap, history>>
  BY DEF OpenTmp
<1>3. 0 \notin Inode
  BY DEF Inode
<1>4. content' \in [Inode -> Seq(0 .. NoSnapshot)]
  BY <1>1, <1>2 DEF Types, TypeInv
<1> QED
  BY <1>1, <1>2, <1>3, <1>4 DEF Types, TypeInv, None, history

LEMMA NextTypes == Types /\ [Next]_vars => Types'
<1> SUFFICES ASSUME Types, [Next]_vars PROVE Types'
  OBVIOUS
<1> USE StateFileAssumption DEF history
<1>1. CASE Change
  BY <1>1 DEF Change, Types, TypeInv, disk, saves
<1>2. CASE Signal
  BY <1>2 DEF Signal, Types, TypeInv, disk, saves
<1>3. ASSUME NEW s \in Saver, Snapshot(s) PROVE Types'
  <2>1. met' \in BOOLEAN /\ sound' \in BOOLEAN
    BY <1>3 DEF Snapshot
  <2> QED
    BY <1>3, <2>1 DEF Snapshot, Types, TypeInv, disk
<1>4. ASSUME NEW s \in Saver, OpenTmp(s) PROVE Types'
  BY <1>4, OpenTypes
<1>5. ASSUME NEW s \in Saver, WriteBlock(s) PROVE Types'
  <2>1. /\ fd[s] \in Inode /\ content[fd[s]] \in Seq(0 .. NoSnapshot)
        /\ offset[s] \in Nat /\ snap[s] \in 0 .. MaxSnapshot
    BY <1>5 DEF WriteBlock, Types, TypeInv
  <2>2. content' \in [Inode -> Seq(0 .. NoSnapshot)]
    <3>1. Put(content[fd[s]], offset[s] + 1, snap[s]) \in Seq(0 .. NoSnapshot)
      BY <2>1, PutFacts
    <3> QED
      BY <1>5, <3>1 DEF WriteBlock, Types, TypeInv
  <2>3. offset' \in [Saver -> Nat]
    BY <1>5, <2>1 DEF WriteBlock, Types, TypeInv
  <2> QED
    BY <1>5, <2>2, <2>3 DEF WriteBlock, Types, TypeInv
<1>6. ASSUME NEW s \in Saver, CloseTmp(s) PROVE Types'
  BY <1>6 DEF CloseTmp, Types, TypeInv, disk
<1>7. ASSUME NEW s \in Saver, SaveFails(s) PROVE Types'
  BY <1>7 DEF SaveFails, Over, Types, TypeInv, disk
<1>8. ASSUME NEW s \in Saver, Rename(s) PROVE Types'
  <2>1. met' \in BOOLEAN /\ sound' \in BOOLEAN /\ floor' \in 0 .. MaxSnapshot
    BY <1>8 DEF Rename, Types, TypeInv
  <2> QED
    BY <1>8, <2>1 DEF Rename, Over, Types, TypeInv
<1>9. ASSUME NEW s \in Saver, RenameFails(s) PROVE Types'
  BY <1>9 DEF RenameFails, Over, Types, TypeInv, disk
<1>10. CASE Exit \/ Crash
  <2>1. /\ phase' = "down" /\ step' = [s \in Saver |-> "idle"]
        /\ snap' = [s \in Saver |-> None] /\ fd' = [s \in Saver |-> None]
        /\ offset' = [s \in Saver |-> 0]
        /\ UNCHANGED <<current, starts, content, path, tmp, met, sound, floor>>
    BY <1>10 DEF Exit, Crash, Gone, disk
  <2>2. None \in 0 .. MaxSnapshot /\ 0 \in Nat
    BY DEF None
  <2> QED
    BY <2>1, <2>2 DEF Types, TypeInv
<1>11. CASE Start
  BY <1>11 DEF Start, Types, TypeInv, disk, saves, None
<1>12. CASE UNCHANGED vars
  BY <1>12 DEF vars, disk, saves, Types, TypeInv
<1> QED
  BY <1>1, <1>2, <1>3, <1>4, <1>5, <1>6, <1>7, <1>8, <1>9, <1>10, <1>11, <1>12 DEF Next, Save

(* Whether or not the savers overlap: an inode is free when one is needed, *)
(* the names never share one, and only a saver that writes has one open.   *)
THEOREM StateTypeCorrect == Spec => []TypeInv
<1>1. Types => TypeInv
  BY DEF Types
<1> QED
  BY <1>1, InitTypes, NextTypes, PTL DEF Spec

-----------------------------------------------------------------------------
(* The inductive invariant *)

(* What a saver wrote so far is a part of its snapshot, in the temporary   *)
(* file; once it closed it, all of it.                                     *)
Written(s) ==
  /\ step[s] = "write" =>
       /\ fd[s] = tmp /\ offset[s] <= Blocks[snap[s]] /\ Len(content[tmp]) = offset[s]
       /\ \A i \in 1 .. offset[s] : content[tmp][i] = snap[s]
  /\ step[s] = "rename" => tmp # None /\ WholeOf(snap[s], content[tmp])

(* A save that has met no other is the only one, and finds what it wrote.  *)
Alone ==
  /\ met => ~sound
  /\ ~met => /\ \A s, r \in Saver : Active(s) /\ Active(r) => s = r
             /\ \A s \in Saver : Written(s)

(* Every block was written for a snapshot since the floor. *)
Fresh(blocks) ==
  \A i \in 1 .. Len(blocks) : blocks[i] \in floor .. current \cup {NoSnapshot}

(* So is every block in the state file, in the files being written, and in *)
(* the one a rename may find under the temporary name.                     *)
Recent ==
  /\ floor <= current
  /\ \A s \in Saver : Active(s) => floor <= snap[s] /\ snap[s] <= current
  /\ IF path = None THEN floor = 0 ELSE Fresh(content[path])
  /\ \A s \in Saver :
       /\ step[s] = "write" => Fresh(content[fd[s]])
       /\ step[s] \in {"write", "rename"} /\ tmp # None => Fresh(content[tmp])

(* Unless two savers met since, the state file is that of the floor. *)
Sound == sound /\ path # None => WholeOf(floor, content[path])

SInv == Types /\ Alone /\ Recent /\ Sound

(* A file's blocks tell which snapshot it holds. *)
LEMMA OneSnapshot ==
  ASSUME NEW v \in 0 .. MaxSnapshot, NEW w \in 0 .. MaxSnapshot, NEW b,
         WholeOf(v, b), WholeOf(w, b)
  PROVE  v = w
<1>1. 1 \in 1 .. Blocks[v] /\ 1 \in 1 .. Blocks[w]
  BY StateFileAssumption
<1>2. b[1] = v /\ b[1] = w
  BY <1>1 DEF WholeOf
<1> QED
  BY <1>2

LEMMA StoredIs ==
  ASSUME path # None, NEW v \in 0 .. MaxSnapshot, WholeOf(v, content[path])
  PROVE  Stored = v
<1>1. Stored \in 0 .. MaxSnapshot /\ WholeOf(Stored, content[path])
  BY DEF Stored, Whole
<1> QED
  BY <1>1, OneSnapshot

(* What the state file holds, if anything, is not older than the floor; if *)
(* no two savers met since, it is the floor.                               *)
Since == Stored \in floor .. current \cup {NoSnapshot} /\ (sound => Stored = floor)

LEMMA StoredSince == SInv => Since
<1> SUFFICES ASSUME SInv PROVE Since
  OBVIOUS
<1> USE DEF Since
<1>1. floor \in 0 .. MaxSnapshot /\ current \in 0 .. MaxSnapshot /\ floor <= current
  BY DEF SInv, Types, TypeInv, Recent
<1>2. CASE path = None
  BY <1>1, <1>2 DEF SInv, Recent, Stored
<1>3. CASE path # None /\ ~Whole(content[path])
  <2>1. Stored = NoSnapshot
    BY <1>3 DEF Stored
  <2>2. ~sound
    BY <1>1, <1>3 DEF SInv, Sound, Whole
  <2> QED
    BY <2>1, <2>2
<1>4. CASE path # None /\ Whole(content[path])
  <2>1. Stored \in 0 .. MaxSnapshot /\ WholeOf(Stored, content[path])
    BY <1>4 DEF Stored, Whole
  <2>2. 1 \in 1 .. Blocks[Stored] /\ Blocks[Stored] \in Nat
    BY <2>1, StateFileAssumption
  <2>3. Len(content[path]) = Blocks[Stored] /\ content[path][1] = Stored
    BY <2>1, <2>2 DEF WholeOf
  <2>4. Fresh(content[path])
    BY <1>4 DEF SInv, Recent
  <2>5. Stored \in floor .. current \cup {NoSnapshot}
    BY <2>2, <2>3, <2>4 DEF Fresh
  <2>6. sound => Stored = floor
    BY <1>1, <1>4, <2>1, OneSnapshot DEF SInv, Sound
  <2> QED
    BY <2>5, <2>6
<1> QED
  BY <1>2, <1>3, <1>4

(* The state file and what it holds stay as they are. *)
LEMMA SameStored ==
  ASSUME path' = path, path # None => content'[path] = content[path]
  PROVE  Stored' = Stored
  BY DEF Stored, Whole, WholeOf

LEMMA InitSInv == Init => SInv
<1> SUFFICES ASSUME Init PROVE SInv
  OBVIOUS
<1>1. Types
  BY InitTypes
<1>2. /\ met = FALSE /\ sound = TRUE /\ floor = 0 /\ current = 0 /\ path = None
      /\ \A s \in Saver : step[s] = "idle"
  BY DEF Init
<1>3. Alone
  BY <1>2 DEF Alone, Active, Written
<1> QED
  BY <1>1, <1>2, <1>3 DEF SInv, Recent, Sound, Active

-----------------------------------------------------------------------------
(* Every step keeps it.  A saver that writes while none has met another    *)
(* writes to the temporary file, and is the only one.                      *)
LEMMA LoneSaver ==
  ASSUME SInv, ~met, NEW s \in Saver, Active(s)
  PROVE  /\ Written(s)
         /\ \A r \in Saver \ {s} : ~Active(r)
  BY DEF SInv, Alone

(* A file that loses nothing, or everything, stays fresh. *)
LEMMA FreshStays ==
  ASSUME NEW b, Fresh(b), floor' = floor, current' \in {current, current + 1},
         current \in Nat, floor \in Nat, floor <= current
  PROVE  Fresh(b)'
  BY DEF Fresh

(* Steps that leave the files alone, and each saver as it was or idle.     *)
LEMMA QuietStep ==
  ASSUME SInv, Types', current' \in {current, current + 1},
         UNCHANGED <<content, path, tmp, met, sound, floor>>,
         \A s \in Saver : \/ ~Active(s)'
                          \/ /\ step'[s] = step[s] /\ snap'[s] = snap[s]
                             /\ fd'[s] = fd[s] /\ offset'[s] = offset[s]
  PROVE  SInv'
<1>1. current \in Nat /\ floor \in Nat /\ floor <= current
  BY DEF SInv, Types, TypeInv, Recent
<1>2. \A b : Fresh(b) => Fresh(b)'
  BY <1>1, FreshStays
<1>3. Alone'
  <2>1. \A s \in Saver : ~met /\ Active(s)' => Active(s) /\ Written(s)
    BY DEF SInv, Alone, Active
  <2>2. ASSUME NEW s \in Saver, ~met PROVE Written(s)'
    <3>1. CASE Active(s)'
      <4>1. /\ step'[s] = step[s] /\ snap'[s] = snap[s]
            /\ fd'[s] = fd[s] /\ offset'[s] = offset[s] /\ Written(s)
        BY <2>1, <2>2, <3>1
      <4> QED
        BY <4>1 DEF Written, WholeOf
    <3>2. CASE ~Active(s)'
      BY <3>2 DEF Active, Written
    <3> QED
      BY <3>1, <3>2
  <2>3. met' => ~sound'
    BY DEF SInv, Alone
  <2>4. ASSUME ~met, NEW s \in Saver, NEW r \in Saver, Active(s)', Active(r)' PROVE s = r
    BY <2>1, <2>4 DEF SInv, Alone
  <2> QED
    BY <2>2, <2>3, <2>4 DEF Alone
<1>4. Recent'
  <2>1. floor' <= current'
    BY <1>1
  <2>2. ASSUME NEW s \in Saver, Active(s)' PROVE floor' <= snap'[s] /\ snap'[s] <= current'
    <3>1. snap'[s] = snap[s] /\ Active(s) /\ snap[s] \in Nat
      BY <2>2 DEF Active, SInv, Types, TypeInv
    <3> QED
      BY <1>1, <3>1 DEF SInv, Recent
  <2>3. IF path' = None THEN floor' = 0 ELSE Fresh(content[path])'
    BY <1>2 DEF SInv, Recent
  <2>4. ASSUME NEW s \in Saver
        PROVE  /\ step'[s] = "write" => Fresh(content[fd[s]])'
               /\ step'[s] \in {"write", "rename"} /\ tmp' # None => Fresh(content[tmp])'
    <3>1. CASE ~Active(s)'
      BY <3>1 DEF Active
    <3>2. CASE step'[s] = step[s] /\ fd'[s] = fd[s]
      BY <1>2, <3>2 DEF SInv, Recent
    <3> QED
      BY <3>1, <3>2
  <2> QED
    BY <2>1, <2>2, <2>3, <2>4 DEF Recent
<1>5. Sound'
  BY DEF SInv, Sound, WholeOf
<1> QED
  BY <1>3, <1>4, <1>5 DEF SInv

(* Ranges that the steps below use. *)
LEMMA Ranges ==
  ASSUME SInv
  PROVE  /\ current \in 0 .. MaxSnapshot /\ floor \in 0 .. MaxSnapshot /\ MaxSnapshot \in Nat
         /\ \A s \in Saver : snap[s] \in 0 .. MaxSnapshot /\ offset[s] \in Nat
                             /\ Blocks[snap[s]] \in Nat \ {0}
         /\ path # None => path \in Inode /\ content[path] \in Seq(0 .. NoSnapshot)
         /\ tmp # None => tmp \in Inode /\ content[tmp] \in Seq(0 .. NoSnapshot)
         /\ path # None => path # tmp
BY StateFileAssumption DEF SInv, Types, TypeInv

LEMMA SnapshotStep == ASSUME SInv, Types', NEW s \in Saver, Snapshot(s) PROVE SInv'
<1>1. /\ step[s] = "idle" /\ step' = [step EXCEPT ![s] = "open"]
      /\ snap' = [snap EXCEPT ![s] = current]
      /\ met' = (\E r \in Saver : Active(r)) /\ sound' = (sound /\ ~met')
      /\ UNCHANGED <<current, content, path, tmp, fd, offset, floor>>
  BY DEF Snapshot, disk
<1>2. /\ step'[s] = "open" /\ snap'[s] = current
      /\ \A r \in Saver \ {s} : step'[r] = step[r] /\ snap'[r] = snap[r]
  BY <1>1 DEF SInv, Types, TypeInv
<1>3. Alone'
  <2>1. met' => ~sound'
    BY <1>1
  <2>2. ~met' => \A r \in Saver : ~Active(r)
    BY <1>1
  <2>3. ~met' => \A r \in Saver \ {s} : step'[r] \notin {"open", "write", "rename"}
    BY <1>2, <2>2 DEF Active
  <2> QED
    BY <1>2, <2>1, <2>3 DEF Alone, Active, Written
<1>4. Recent'
  <2>1. floor <= current /\ current \in Nat
    BY Ranges DEF SInv, Recent
  <2>2. \A r \in Saver : Active(r)' => floor' <= snap'[r] /\ snap'[r] <= current'
    BY <1>1, <1>2, <2>1 DEF SInv, Recent, Active
  <2>3. IF path' = None THEN floor' = 0 ELSE Fresh(content[path])'
    BY <1>1 DEF SInv, Recent, Fresh
  <2>4. ASSUME NEW r \in Saver
        PROVE  /\ step'[r] = "write" => Fresh(content[fd[r]])'
               /\ step'[r] \in {"write", "rename"} /\ tmp' # None => Fresh(content[tmp])'
    <3>1. CASE r = s
      BY <1>2, <3>1
    <3>2. CASE r # s
      BY <1>1, <1>2, <3>2 DEF SInv, Recent, Fresh
    <3> QED
      BY <3>1, <3>2
  <2> QED
    BY <1>1, <2>1, <2>2, <2>3, <2>4 DEF Recent
<1>5. Sound'
  BY <1>1 DEF SInv, Sound, WholeOf
<1> QED
  BY <1>3, <1>4, <1>5 DEF SInv

LEMMA OpenStep == ASSUME SInv, Types', NEW s \in Saver, OpenTmp(s) PROVE SInv'
<1>1. /\ step[s] = "open" /\ step' = [step EXCEPT ![s] = "write"]
      /\ path' = path /\ content' = [content EXCEPT ![tmp'] = <<>>]
      /\ offset' = [offset EXCEPT ![s] = 0] /\ fd' = [fd EXCEPT ![s] = tmp']
      /\ tmp' # None /\ tmp' \in Inode
      /\ UNCHANGED <<current, snap, met, sound, floor>>
  <2>1. Types
    BY DEF SInv
  <2>2. tmp' # None /\ fd' = [fd EXCEPT ![s] = tmp']
    BY <2>1, OpenTypes
  <2> QED
    BY <2>2 DEF OpenTmp, Types, TypeInv, history
<1>2. /\ step'[s] = "write" /\ fd'[s] = tmp' /\ offset'[s] = 0 /\ content'[tmp'] = <<>>
      /\ \A r \in Saver \ {s} : /\ step'[r] = step[r] /\ fd'[r] = fd[r]
      /\ path # None => path # tmp' /\ content'[path] = content[path]
  BY <1>1 DEF SInv, Types, TypeInv
<1>3. \A i \in Inode : content'[i] = IF i = tmp' THEN <<>> ELSE content[i]
  BY <1>1 DEF SInv, Types, TypeInv
<1>4. \A i \in Inode : Fresh(content[i]) => Fresh(content[i])'
  <2> SUFFICES ASSUME NEW i \in Inode, Fresh(content[i]) PROVE Fresh(content[i])'
    OBVIOUS
  <2>1. floor' = floor /\ current' = current /\ content'[i] \in {<<>>, content[i]}
    BY <1>1, <1>3
  <2> QED
    BY <2>1 DEF Fresh
<1>5. Fresh(content[tmp])'
  BY <1>2 DEF Fresh
<1>6. Alone'
  <2>1. met' => ~sound'
    BY <1>1 DEF SInv, Alone
  <2>2. ASSUME ~met
        PROVE  /\ \A r \in Saver \ {s} : ~Active(r)' /\ Written(r)'
               /\ Written(s)'
    <3>1. \A r \in Saver \ {s} : ~Active(r)
      BY <1>1, <2>2, LoneSaver DEF Active
    <3>2. \A r \in Saver \ {s} : ~Active(r)' /\ Written(r)'
      BY <1>2, <3>1 DEF Active, Written
    <3>3. Blocks[snap[s]] \in Nat
      BY Ranges
    <3>4. Written(s)'
      BY <1>1, <1>2, <3>3 DEF Written
    <3> QED
      BY <3>2, <3>4
  <2> QED
    BY <1>1, <2>1, <2>2 DEF Alone
<1>7. Recent'
  <2>1. \A r \in Saver : Active(r)' => floor' <= snap'[r] /\ snap'[r] <= current'
    BY <1>1, <1>2 DEF SInv, Recent, Active
  <2>2. IF path' = None THEN floor' = 0 ELSE Fresh(content[path])'
    BY <1>1, <1>4, Ranges DEF SInv, Recent
  <2>3. ASSUME NEW r \in Saver, step'[r] = "write" PROVE Fresh(content[fd[r]])'
    <3>1. CASE r = s
      BY <1>2, <1>5, <3>1
    <3>2. CASE r # s
      <4>1. step[r] = "write" /\ fd'[r] = fd[r] /\ fd[r] \in Inode
        BY <1>2, <2>3, <3>2 DEF SInv, Types, TypeInv
      <4> QED
        BY <1>4, <4>1 DEF SInv, Recent
    <3> QED
      BY <3>1, <3>2
  <2> QED
    BY <1>1, <1>5, <2>1, <2>2, <2>3 DEF SInv, Recent
<1>8. Sound'
  BY <1>1, <1>2 DEF SInv, Sound, WholeOf
<1> QED
  BY <1>6, <1>7, <1>8 DEF SInv

LEMMA CloseStep == ASSUME SInv, Types', NEW s \in Saver, CloseTmp(s) PROVE SInv'
<1>1. /\ step[s] = "write" /\ offset[s] = Blocks[snap[s]]
      /\ step' = [step EXCEPT ![s] = "rename"] /\ fd' = [fd EXCEPT ![s] = None]
      /\ UNCHANGED <<current, content, path, tmp, snap, offset, met, sound, floor>>
  BY DEF CloseTmp, disk, history
<1>2. /\ step'[s] = "rename"
      /\ \A r \in Saver \ {s} : step'[r] = step[r] /\ fd'[r] = fd[r]
  BY <1>1 DEF SInv, Types, TypeInv
<1>3. Alone'
  <2>1. met' => ~sound'
    BY <1>1 DEF SInv, Alone
  <2>2. ASSUME ~met
        PROVE  /\ \A r \in Saver \ {s} : ~Active(r)' /\ Written(r)'
               /\ Written(s)'
    <3>1. Written(s) /\ \A r \in Saver \ {s} : ~Active(r)
      BY <1>1, <2>2, LoneSaver DEF Active
    <3>2. \A r \in Saver \ {s} : ~Active(r)' /\ Written(r)'
      BY <1>2, <3>1 DEF Active, Written
    <3>3. tmp \in Inode /\ content[tmp] \in Seq(0 .. NoSnapshot)
      <4>1. fd[s] = tmp /\ fd[s] # None
        BY <1>1, <3>1 DEF Written, SInv, Types, TypeInv
      <4> QED
        BY <4>1, Ranges
    <3>4. WholeOf(snap[s], content[tmp]) /\ tmp # None
      BY <1>1, <3>1, <3>3 DEF Written, WholeOf, Inode, None
    <3>5. Written(s)'
      BY <1>1, <1>2, <3>4 DEF Written, WholeOf
    <3> QED
      BY <3>2, <3>5
  <2> QED
    BY <1>1, <2>1, <2>2 DEF Alone
<1>4. Recent'
  <2>1. \A r \in Saver : Active(r)' => Active(r)
    BY <1>1, <1>2 DEF Active
  <2>2. ASSUME NEW r \in Saver
        PROVE  /\ step'[r] = "write" => Fresh(content[fd[r]])'
               /\ step'[r] \in {"write", "rename"} /\ tmp' # None => Fresh(content[tmp])'
    BY <1>1, <1>2 DEF SInv, Recent, Fresh
  <2>3. IF path' = None THEN floor' = 0 ELSE Fresh(content[path])'
    BY <1>1 DEF SInv, Recent, Fresh
  <2> QED
    BY <1>1, <2>1, <2>2, <2>3 DEF SInv, Recent
<1>5. Sound'
  BY <1>1 DEF SInv, Sound, WholeOf
<1> QED
  BY <1>3, <1>4, <1>5 DEF SInv

(* The block goes to the file that the saver has open: the temporary one,  *)
(* or, where two met, perhaps the state file.                              *)
LEMMA WriteStep == ASSUME SInv, Types', NEW s \in Saver, WriteBlock(s) PROVE SInv'
<1>1. /\ step[s] = "write" /\ offset[s] < Blocks[snap[s]]
      /\ content' = [content EXCEPT ![fd[s]] = Put(@, offset[s] + 1, snap[s])]
      /\ offset' = [offset EXCEPT ![s] = @ + 1]
      /\ UNCHANGED <<current, path, tmp, step, snap, fd, met, sound, floor>>
  BY DEF WriteBlock, history
<1>2. /\ fd[s] \in Inode /\ content[fd[s]] \in Seq(0 .. NoSnapshot)
      /\ offset[s] \in Nat /\ snap[s] \in 0 .. MaxSnapshot
      /\ Blocks[snap[s]] \in Nat
  BY <1>1, Ranges DEF SInv, Types, TypeInv
<1>3. /\ content'[fd[s]] = Put(content[fd[s]], offset[s] + 1, snap[s])
      /\ \A i \in Inode : i # fd[s] => content'[i] = content[i]
      /\ offset'[s] = offset[s] + 1
  BY <1>1, <1>2 DEF SInv, Types, TypeInv
<1>4. floor <= snap[s] /\ snap[s] <= current /\ Fresh(content[fd[s]])
  BY <1>1 DEF SInv, Recent, Active
<1>5. \A i \in Inode : Fresh(content[i]) => Fresh(content[i])'
  <2> SUFFICES ASSUME NEW i \in Inode, Fresh(content[i]) PROVE Fresh(content[i])'
    OBVIOUS
  <2>1. CASE i # fd[s]
    BY <1>1, <1>3, <2>1 DEF Fresh
  <2>2. CASE i = fd[s]
    <3> DEFINE b == content[fd[s]]
               c == Put(b, offset[s] + 1, snap[s])
    <3>1. \A j \in 1 .. Len(c) : c[j] = IF j = offset[s] + 1 THEN snap[s]
                                        ELSE IF j <= Len(b) THEN b[j] ELSE NoSnapshot
      BY <1>2, PutFacts
    <3>2. \A j \in 1 .. Len(b) : b[j] \in floor .. current \cup {NoSnapshot}
      BY <1>4 DEF Fresh
    <3>3. snap[s] \in floor .. current /\ Len(b) \in Nat
      BY <1>2, <1>4, Ranges
    <3> HIDE DEF b, c
    <3>4. \A j \in 1 .. Len(c) : c[j] \in floor .. current \cup {NoSnapshot}
      <4> TAKE j \in 1 .. Len(c)
      <4>1. j \in Nat \ {0}
        OBVIOUS
      <4>2. j <= Len(b) => b[j] \in floor .. current \cup {NoSnapshot}
        BY <3>2, <3>3, <4>1
      <4> QED
        BY <3>1, <3>3, <4>2
    <3>5. content'[i] = c
      BY <1>3, <2>2 DEF b, c
    <3> QED
      BY <1>1, <3>4, <3>5 DEF Fresh
  <2> QED
    BY <2>1, <2>2
<1>6. Alone' /\ (~met => fd[s] = tmp)
  <2>1. met' => ~sound'
    BY <1>1 DEF SInv, Alone
  <2>2. ASSUME ~met
        PROVE  /\ fd[s] = tmp /\ Written(s)'
               /\ \A r \in Saver \ {s} : ~Active(r)' /\ Written(r)'
    <3>1. Written(s) /\ \A r \in Saver \ {s} : ~Active(r)
      BY <1>1, <2>2, LoneSaver DEF Active
    <3>2. \A r \in Saver \ {s} : ~Active(r)' /\ Written(r)'
      BY <1>1, <3>1 DEF Active, Written
    <3>3. /\ fd[s] = tmp /\ Len(content[tmp]) = offset[s]
          /\ \A i \in 1 .. offset[s] : content[tmp][i] = snap[s]
      BY <1>1, <3>1 DEF Written
    <3> DEFINE b == content[tmp]
               c == Put(b, offset[s] + 1, snap[s])
    <3>4. /\ Len(c) = offset[s] + 1
          /\ \A j \in 1 .. Len(c) : c[j] = IF j = offset[s] + 1 THEN snap[s]
                                            ELSE IF j <= Len(b) THEN b[j] ELSE NoSnapshot
      <4>1. b \in Seq(0 .. NoSnapshot) /\ Len(b) = offset[s] /\ offset[s] \in Nat
        BY <1>2, <3>3
      <4> HIDE DEF b
      <4>2. /\ Len(c) = IF offset[s] + 1 <= Len(b) THEN Len(b) ELSE offset[s] + 1
            /\ \A j \in 1 .. Len(c) : c[j] = IF j = offset[s] + 1 THEN snap[s]
                                              ELSE IF j <= Len(b) THEN b[j] ELSE NoSnapshot
        BY <1>2, <4>1, PutFacts
      <4> QED
        BY <4>1, <4>2
    <3> HIDE DEF c
    <3>5. ASSUME NEW j \in 1 .. offset[s] + 1 PROVE c[j] = snap[s]
      <4>1. Len(c) = offset[s] + 1 /\ Len(b) = offset[s] /\ j \in 1 .. Len(c)
        BY <3>3, <3>4
      <4>2. CASE j = offset[s] + 1
        BY <3>4, <4>1, <4>2
      <4>3. CASE j # offset[s] + 1
        <5>1. j \in 1 .. offset[s] /\ j <= Len(b)
          BY <1>2, <4>1, <4>3
        <5> QED
          BY <3>3, <3>4, <4>1, <4>3, <5>1
      <4> QED
        BY <4>2, <4>3
    <3>6. content'[tmp] = c /\ offset[s] + 1 <= Blocks[snap[s]]
      BY <1>1, <1>2, <1>3, <3>3 DEF c
    <3>7. Written(s)'
      BY <1>1, <1>3, <3>3, <3>4, <3>5, <3>6 DEF Written
    <3> QED
      BY <3>2, <3>3, <3>7
  <2> QED
    BY <1>1, <2>1, <2>2 DEF Alone
<1>7. Recent'
  <2>1. IF path' = None THEN floor' = 0 ELSE Fresh(content[path])'
    BY <1>1, <1>5, Ranges DEF SInv, Recent
  <2>2. ASSUME NEW r \in Saver
        PROVE  /\ step'[r] = "write" => Fresh(content[fd[r]])'
               /\ step'[r] \in {"write", "rename"} /\ tmp' # None => Fresh(content[tmp])'
    <3>1. step[r] = "write" => fd[r] \in Inode
      BY DEF SInv, Types, TypeInv
    <3> QED
      BY <1>1, <1>5, <3>1, Ranges DEF SInv, Recent
  <2> QED
    BY <1>1, <2>1, <2>2 DEF SInv, Recent, Active
<1>8. Sound'
  <2>1. ASSUME sound, path # None PROVE content'[path] = content[path]
    BY <1>3, <1>6, <2>1, Ranges DEF SInv, Alone
  <2> QED
    BY <1>1, <2>1 DEF SInv, Sound, WholeOf
<1> QED
  BY <1>6, <1>7, <1>8 DEF SInv

LEMMA RenameStep == ASSUME SInv, Types', NEW s \in Saver, Rename(s) PROVE SInv'
<1>1. /\ step[s] = "rename" /\ tmp # None /\ path' = tmp /\ tmp' = None
      /\ step' = [step EXCEPT ![s] = Over(s)]
      /\ sound' = (sound \/ ~met) /\ floor' = (IF met THEN floor ELSE snap[s])
      /\ UNCHANGED <<current, content, snap, fd, offset, met>>
  BY DEF Rename
<1>2. /\ ~Active(s)'
      /\ \A r \in Saver \ {s} : step'[r] = step[r]
  BY <1>1 DEF Over, Active, SInv, Types, TypeInv
<1>3. CASE met
  <2>1. ~sound /\ floor' = floor /\ ~sound'
    BY <1>1, <1>3 DEF SInv, Alone
  <2>2. \A b : Fresh(b) => Fresh(b)'
    BY <1>1, <2>1 DEF Fresh
  <2>3. Recent'
    <3>1. \A r \in Saver : Active(r)' => Active(r)
      BY <1>2 DEF Active
    <3>2. path' # None /\ Fresh(content[path])'
      <4>1. Fresh(content[tmp])
        BY <1>1 DEF SInv, Recent
      <4> QED
        BY <1>1, <2>1, <4>1 DEF Fresh
    <3>3. \A r \in Saver : step'[r] = "write" => Fresh(content[fd[r]])'
      <4>1. \A r \in Saver : step'[r] = "write" => step[r] = "write"
        BY <1>2 DEF Active
      <4> QED
        BY <1>1, <2>1, <4>1 DEF SInv, Recent, Fresh
    <3> QED
      BY <1>1, <2>1, <3>1, <3>2, <3>3 DEF SInv, Recent
  <2> QED
    BY <1>1, <1>3, <2>1, <2>3 DEF SInv, Alone, Sound
<1>4. CASE ~met
  <2>1. Written(s) /\ \A r \in Saver \ {s} : ~Active(r)
    BY <1>1, <1>4, LoneSaver DEF Active
  <2>2. WholeOf(snap[s], content[tmp]) /\ floor' = snap[s]
    BY <1>1, <1>4, <2>1 DEF Written
  <2>3. \A r \in Saver : ~Active(r)'
    BY <1>2, <2>1 DEF Active
  <2>4. Sound' /\ path' # None
    BY <1>1, <2>2 DEF Sound, WholeOf
  <2>5. snap[s] \in Nat /\ snap[s] <= current /\ current \in Nat /\ Blocks[snap[s]] \in Nat
    BY <1>1, Ranges DEF SInv, Recent, Active
  <2>6. Fresh(content[path])'
    <3>1. Len(content'[path']) = Blocks[snap[s]]
      BY <1>1, <2>2, <2>5 DEF WholeOf
    <3>2. \A i \in 1 .. Blocks[snap[s]] : content'[path'][i] = snap[s]
      BY <1>1, <2>2 DEF WholeOf
    <3>3. snap[s] \in floor' .. current'
      BY <1>1, <2>2, <2>5
    <3> QED
      BY <3>1, <3>2, <3>3 DEF Fresh
  <2>7. Recent'
    BY <1>1, <2>2, <2>3, <2>4, <2>5, <2>6 DEF Recent, Active
  <2>8. Alone'
    BY <1>1, <1>4, <2>3 DEF Alone, Active, Written
  <2> QED
    BY <2>4, <2>7, <2>8 DEF SInv
<1> QED
  BY <1>3, <1>4

LEMMA NextSInv == SInv /\ [Next]_vars => SInv'
<1> SUFFICES ASSUME SInv, [Next]_vars PROVE SInv'
  OBVIOUS
<1>1. Types'
  BY NextTypes DEF SInv
<1>2. CASE Change \/ Signal \/ Start \/ UNCHANGED vars
  <2>1. /\ current' \in {current, current + 1}
        /\ UNCHANGED <<content, path, tmp, met, sound, floor, step, snap, fd, offset>>
    BY <1>2 DEF Change, Signal, Start, vars, disk, saves, history
  <2> QED
    BY <1>1, <2>1, QuietStep
<1>3. CASE Exit \/ Crash
  <2>1. /\ UNCHANGED <<current, content, path, tmp, met, sound, floor>>
        /\ \A s \in Saver : ~Active(s)'
    BY <1>3 DEF Exit, Crash, Gone, disk, history, Active
  <2> QED
    BY <1>1, <2>1, QuietStep
<1>4. ASSUME NEW s \in Saver, SaveFails(s) \/ RenameFails(s) PROVE SInv'
  <2>1. /\ step' = [step EXCEPT ![s] = Over(s)]
        /\ fd' = [fd EXCEPT ![s] = None] \/ fd' = fd
        /\ UNCHANGED <<current, content, path, tmp, met, sound, floor, snap, offset>>
    BY <1>4 DEF SaveFails, RenameFails, disk, history
  <2>2. \A r \in Saver : ~Active(r)' \/ (step'[r] = step[r] /\ fd'[r] = fd[r])
    BY <2>1 DEF Over, Active, SInv, Types, TypeInv
  <2> QED
    BY <1>1, <2>1, <2>2, QuietStep
<1> QED
  BY <1>1, <1>2, <1>3, <1>4, SnapshotStep, OpenStep, WriteStep, CloseStep, RenameStep
  DEF Next, Save

LEMMA SInvCorrect == Spec => []SInv
  BY InitSInv, NextSInv, PTL DEF Spec

(* Unless two savers met since, the file holds exactly the last save that  *)
(* met no other; if they did, then whatever it holds whole is not older.   *)
THEOREM SinceCorrect == Spec => []Since
<1>1. SInv => Since
  BY StoredSince
<1> QED
  BY <1>1, SInvCorrect, PTL

-----------------------------------------------------------------------------
(* The refinement *)

(* A change of Stats is a Change, the rename of a save that met no other a *)
(* Commit, the begin of one that meets another a Meet.  Whatever else a    *)
(* step does to the state file, it does after two savers met: a Disturb.   *)
LEMMA StoreStep ==
  SInv /\ SInv' /\ [Next]_vars => [Store!Next]_<<current, Stored, sound, floor>>
<1> SUFFICES ASSUME SInv, SInv', [Next]_vars
             PROVE  [Store!Next]_<<current, Stored, sound, floor>>
  OBVIOUS
<1>1. CASE Change
  <2>1. current' = current + 1 /\ UNCHANGED <<path, content, sound, floor>>
    BY <1>1 DEF Change, disk, history
  <2>2. Stored' = Stored
    BY <2>1, SameStored
  <2> QED
    BY <2>1, <2>2 DEF Store!Next, Store!Change
<1>2. ASSUME NEW s \in Saver, Snapshot(s) PROVE [Store!Next]_<<current, Stored, sound, floor>>
  <2>1. UNCHANGED <<current, path, content, floor>> /\ sound' = (sound /\ ~met')
    BY <1>2 DEF Snapshot, disk
  <2>2. Stored' = Stored
    BY <2>1, SameStored
  <2>3. CASE met'
    BY <2>1, <2>2, <2>3 DEF Store!Next, Store!Meet
  <2>4. CASE ~met'
    <3>1. sound \in BOOLEAN
      BY DEF SInv, Types, TypeInv
    <3>2. sound' = sound
      BY <2>1, <2>4, <3>1
    <3> QED
      BY <2>1, <2>2, <3>2
  <2> QED
    BY <2>3, <2>4
<1>3. ASSUME NEW s \in Saver, Rename(s), ~met PROVE Store!Commit
  <2>1. /\ step[s] = "rename" /\ floor' = snap[s]
        /\ sound' = (sound \/ ~met) /\ current' = current
    BY <1>3 DEF Rename
  <2>2. sound' = TRUE
    BY <1>3, <2>1
  <2>3. Stored' = floor'
    <3>1. SInv' => Since'
      BY StoredSince, PTL
    <3> QED
      BY <2>2, <3>1 DEF Since
  <2>4. snap[s] \in floor .. current
    BY <2>1, Ranges DEF SInv, Recent, Active
  <2> QED
    BY <2>1, <2>2, <2>3, <2>4 DEF Store!Commit
<1>4. ASSUME UNCHANGED <<current, sound, floor>>, sound => Stored' = Stored
      PROVE  [Store!Next]_<<current, Stored, sound, floor>>
  <2>1. Stored' \in floor .. current \cup {NoSnapshot}
    <3>1. SInv' => Since'
      BY StoredSince, PTL
    <3> QED
      BY <1>4, <3>1 DEF Since
  <2> QED
    BY <1>4, <2>1 DEF Store!Next, Store!Disturb
<1>5. ASSUME NEW s \in Saver, OpenTmp(s) PROVE [Store!Next]_<<current, Stored, sound, floor>>
  <2>1. /\ path' = path /\ content' = [content EXCEPT ![tmp'] = <<>>]
        /\ UNCHANGED <<current, sound, floor>>
    BY <1>5 DEF OpenTmp, history
  <2>2. path # None => content'[path] = content[path]
    BY <2>1 DEF SInv, Types, TypeInv
  <2> QED
    BY <1>4, <2>1, <2>2, SameStored
<1>6. ASSUME NEW s \in Saver, WriteBlock(s)
      PROVE  [Store!Next]_<<current, Stored, sound, floor>>
  <2>1. /\ path' = path /\ step[s] = "write"
        /\ content' = [content EXCEPT ![fd[s]] = Put(@, offset[s] + 1, snap[s])]
        /\ UNCHANGED <<current, sound, floor>>
    BY <1>6 DEF WriteBlock, history
  <2>2. sound => fd[s] = tmp
    BY <2>1, LoneSaver DEF Active, Written, SInv, Alone
  <2>3. sound /\ path # None => content'[path] = content[path]
    BY <2>1, <2>2 DEF SInv, Types, TypeInv
  <2> QED
    BY <1>4, <2>1, <2>3, SameStored
<1>7. ASSUME NEW s \in Saver, Rename(s), met
      PROVE  [Store!Next]_<<current, Stored, sound, floor>>
  <2>1. ~sound
    BY <1>7 DEF SInv, Alone
  <2>2. UNCHANGED <<current, floor>> /\ ~sound' /\ sound' \in BOOLEAN /\ sound \in BOOLEAN
    BY <1>7, <2>1 DEF Rename, SInv, Types, TypeInv
  <2> QED
    BY <1>4, <2>1, <2>2
<1>8. CASE \/ Signal \/ Exit \/ Crash \/ Start \/ UNCHANGED vars
           \/ \E s \in Saver : CloseTmp(s) \/ SaveFails(s) \/ RenameFails(s)
  <2>1. UNCHANGED <<current, path, content, sound, floor>>
    BY <1>8 DEF Signal, Exit, Crash, Gone, Start, CloseTmp, SaveFails, RenameFails,
                vars, disk, history
  <2> QED
    BY <1>4, <2>1, SameStored
<1> QED
  BY <1>1, <1>2, <1>3, <1>5, <1>6, <1>7, <1>8 DEF Next, Save, Store!Next

(* Whatever fails, is killed or restarted, and wherever the savers are:    *)
(* every step of SaveState is a step of the store it promises, or one that *)
(* no reader of the file sees.                                             *)
THEOREM StoreCorrect == Spec => StoreIsAtomic
<1>1. Init => Store!Init
  BY DEF Init, Stored, Store!Init
<1>2. SInv /\ SInv' /\ [Next]_vars => [Store!Next]_<<current, Stored, sound, floor>>
  BY StoreStep
<1>3. Spec => []SInv
  BY SInvCorrect
<1> QED
  BY <1>1, <1>2, <1>3, PTL DEF Spec, StoreIsAtomic, Store!Spec

=============================================================================
