---------------------------- MODULE LogTailProofs ----------------------------
(***************************************************************************)
(* Proofs about LogTail, for every number of lines, rotations and          *)
(* truncations.  The types hold whatever the log does.  OnlyWholeLines     *)
(* holds when truncations find the tailer at rest (Calms); FedOnce when,   *)
(* besides, the log that is opened again is not smaller than os.Stat said  *)
(* (Once).  Both are conditions on what happens to the log between two     *)
(* steps of the tailer, are stated as action formulas next to Spec, and    *)
(* hold of CalmSpec; TLC shows that neither can be dropped.                *)
(***************************************************************************)
EXTENDS MCLogTail, SequenceTheorems, TLAPS

(* The variables have their types. *)
Types ==
  /\ content \in [Inode -> Seq(Half)] /\ path \in Inode \cup {None}
  /\ readable \in [Inode -> BOOLEAN] /\ inodes \in Inode /\ wfd \in Inode
  /\ written \in 0 .. 2 * MaxLines /\ truncations \in 0 .. MaxTruncations
  /\ enabled \in BOOLEAN
  /\ pc \in {"down", "opening", "wait", "read", "stat", "compare"}
  /\ f \in Inode \cup {None} /\ size \in Nat /\ off \in Nat
  /\ partial \in Seq(Half) /\ fed \in Seq(Seq(Half))
  /\ fi \in [inode : Inode \cup {None}, size : Nat]
  /\ joined \in [inode : Inode \cup {None}, at : Nat]

(* The log's name is the newest file's, nginx writes to no newer one, and  *)
(* what nginx wrote last ends its file.                                    *)
Files ==
  /\ IF path = None THEN inodes <= MaxRotations ELSE path = inodes
  /\ wfd <= inodes
  /\ \A i \in Inode : i > wfd => content[i] = <<>>
  /\ content[wfd] = <<>> => written % 2 = 0
  /\ content[wfd] # <<>> => content[wfd][Len(content[wfd])] = written

(* A file holds consecutive halves, from the first half of a line on, and  *)
(* an older file older ones.                                               *)
Numbered ==
  \A i \in Inode : \A k \in 1 .. Len(content[i]) :
    /\ content[i][k] % 2 = k % 2 /\ content[i][k] <= written
    /\ \A l \in 1 .. Len(content[i]) : content[i][k] + l = content[i][l] + k
    /\ \A j \in Inode : i < j =>
         \A l \in 1 .. Len(content[j]) : content[i][k] < content[j][l]

(* The fragment held is the first half of a line, the last half read. *)
Held ==
  /\ f = None => off = 0 /\ partial = <<>>
  /\ partial # <<>> => Len(partial) = 1 /\ partial[1] % 2 = 1 /\ off % 2 = 1

Log == Types /\ Files /\ Numbered /\ Held

-----------------------------------------------------------------------------
(* A truncation that has left the offset beyond the end found the tailer   *)
(* at rest, and the comparison will show it.                               *)
Waits ==
  Unseen =>
    /\ off = size /\ off % 2 = 0 /\ partial = <<>>
    /\ pc = "compare" => Moved

(* Before it has opened the log, the tailer has read nothing.  After that, *)
(* what it holds is the half before its offset; when it holds nothing      *)
(* there, it stands where it joined.                                       *)
Reads ==
  /\ pc \in {"down", "opening"} => f = None /\ fed = <<>>
  /\ partial # <<>> => partial[1] = content[f][off]
  /\ f # None /\ partial = <<>> /\ off % 2 = 1 =>
       fed = <<>> /\ content[f][off] = joined.at

-----------------------------------------------------------------------------
(* The open file was truncated, and the tailer has still to act on it: its *)
(* offset is beyond the end, or os.Stat has just shown it a smaller file.  *)
Emptied == f # None /\ (Unseen \/ (pc = "compare" /\ f = fi.inode /\ fi.size < size))

(* The size kept is not larger than the open file, nor what os.Stat gave   *)
(* than the file it looked at, which is not older than the open one.       *)
Sized ==
  /\ f # None => f <= inodes /\ (~Emptied => size <= Len(content[f]))
  /\ pc = "compare" =>
       /\ fi.inode # None /\ f <= fi.inode /\ fi.inode <= inodes
       /\ fi.size <= Len(content[fi.inode])

(* Half k of inode i is still to be read, by a tailer that has no file     *)
(* open if it is of the newest file.                                       *)
Unread(i, k) ==
  \/ f = None /\ i >= inodes
  \/ f # None /\ (i > f \/ (i = f /\ (k > off \/ Emptied)))

(* All that is held or still to be read was written after half x. *)
Past(x) ==
  /\ x <= written
  /\ partial # <<>> => x < partial[1]
  /\ \A i \in Inode : \A k \in 1 .. Len(content[i]) : Unread(i, k) => x < content[i][k]

Fresh ==
  pc \notin {"down", "opening"} =>
    Past(joined.at) /\ \A i \in DOMAIN fed : Past(fed[i][1])

-----------------------------------------------------------------------------
(* What a write adds, what a read finds and what a reading takes.          *)
LEMMA Lasts ==
  ASSUME NEW s \in Seq(Half), NEW h \in Half
  PROVE  /\ Append(s, h) \in Seq(Half) /\ Len(Append(s, h)) = Len(s) + 1
         /\ \A k \in 1 .. Len(s) : Append(s, h)[k] = s[k]
         /\ Append(s, h)[Len(s) + 1] = h
         /\ Append(s, h) # <<>>
  OBVIOUS

LEMMA Writes ==
  ASSUME Types, Write
  PROVE  /\ written + 1 \in Half /\ written' = written + 1
         /\ content' \in [Inode -> Seq(Half)]
         /\ \A i \in Inode : i # wfd => content'[i] = content[i]
         /\ Len(content'[wfd]) = Len(content[wfd]) + 1
         /\ \A k \in 1 .. Len(content[wfd]) : content'[wfd][k] = content[wfd][k]
         /\ content'[wfd][Len(content[wfd]) + 1] = written + 1
         /\ content'[wfd] # <<>>
<1>1. written + 1 \in Half
  BY LogTailAssumption DEF Types, Write, Half
<1>2. content[wfd] \in Seq(Half)
  BY DEF Types
<1>3. content' = [content EXCEPT ![wfd] = Append(content[wfd], written + 1)]
  BY DEF Write
<1>4. /\ content' \in [Inode -> Seq(Half)]
      /\ content'[wfd] = Append(content[wfd], written + 1)
      /\ \A i \in Inode : i # wfd => content'[i] = content[i]
  BY <1>1, <1>2, <1>3, Lasts DEF Types
<1> QED
  BY <1>1, <1>2, <1>4, Lasts DEF Write

LEMMA RestFound ==
  ASSUME Types
  PROVE  /\ Rest \in Seq(Half)
         /\ Rest # <<>> => f \in Inode /\ off < Len(content[f])
         /\ f \in Inode /\ off < Len(content[f]) =>
              /\ Len(Rest) = Len(content[f]) - off
              /\ \A i \in 1 .. Len(Rest) : Rest[i] = content[f][off + i]
<1>1. CASE f = None \/ off >= Len(content[f])
  <2>1. Rest = <<>>
    BY <1>1 DEF Rest
  <2> QED
    BY <1>1, <2>1 DEF Types, Inode, None
<1>2. CASE f # None /\ off < Len(content[f])
  <2>1. f \in Inode /\ content[f] \in Seq(Half) /\ off \in Nat /\ Len(content[f]) \in Nat
    BY <1>2 DEF Types
  <2>2. Rest = SubSeq(content[f], off + 1, Len(content[f]))
    BY <1>2, <2>1 DEF Rest
  <2>3. \A i \in off + 1 .. Len(content[f]) : content[f][i] \in Half
    BY <2>1, ElementOfSeq
  <2>4. /\ Rest \in Seq(Half) /\ Len(Rest) = Len(content[f]) - off
        /\ \A i \in 1 .. Len(content[f]) - off : Rest[i] = content[f][off + i]
    <3> DEFINE c == content[f]
               n == Len(content[f])
    <3>1. \A i \in off + 1 .. n : c[i] \in Half
      BY <2>3
    <3>2. off + 1 \in Int /\ n \in Int /\ off + 1 <= n
      BY <1>2, <2>1
    <3> HIDE DEF c, n
    <3>3. /\ SubSeq(c, off + 1, n) \in Seq(Half)
          /\ Len(SubSeq(c, off + 1, n)) = n - (off + 1) + 1
          /\ \A i \in 1 .. n - (off + 1) + 1 :
               SubSeq(c, off + 1, n)[i] = c[off + 1 + i - 1]
      BY <3>1, <3>2, SubSeqProperties
    <3> QED
      BY <2>1, <2>2, <3>2, <3>3 DEF c, n
  <2> QED
    BY <1>2, <2>1, <2>4
<1> QED
  BY <1>1, <1>2 DEF Types

LEMMA Alternates ==
  ASSUME NEW n \in Nat
  PROVE  /\ n % 2 \in {0, 1}
         /\ n % 2 = 0 => (n + 1) % 2 = 1
         /\ n % 2 = 1 => (n + 1) % 2 = 0
  OBVIOUS

(* Where the line ends in what is still to be read. *)
LEMMA EndFound ==
  ASSUME Log, f \in Inode, off < Len(content[f])
  PROVE  /\ off % 2 = 1 => 1 \in LineEnds /\ FirstEnd = 1
         /\ off % 2 = 0 => 1 \notin LineEnds
         /\ off % 2 = 0 /\ off + 1 < Len(content[f]) => 2 \in LineEnds /\ FirstEnd = 2
         /\ LineEnds \subseteq 1 .. Len(content[f]) - off
<1>1. off \in Nat /\ content[f] \in Seq(Half) /\ Len(content[f]) \in Nat
  BY DEF Log, Types
<1>2. /\ Len(Rest) = Len(content[f]) - off
      /\ \A i \in 1 .. Len(Rest) : Rest[i] = content[f][off + i]
  BY RestFound DEF Log
<1>3. \A i \in 1 .. Len(Rest) : Rest[i] % 2 = (off + i) % 2
  <2> SUFFICES ASSUME NEW i \in 1 .. Len(Rest)
               PROVE  Rest[i] % 2 = (off + i) % 2
    OBVIOUS
  <2>1. PICK k \in 1 .. Len(content[f]) : k = off + i
    BY <1>1, <1>2
  <2>2. content[f][k] % 2 = k % 2
    BY DEF Log, Numbered
  <2> QED
    BY <1>2, <2>1, <2>2
<1>4. LineEnds = {i \in 1 .. Len(Rest) : (off + i) % 2 = 0}
  BY <1>3 DEF LineEnds, EndsLine
<1>5. off % 2 = 1 => 1 \in LineEnds
  BY <1>1, <1>2, <1>4, Alternates
<1>6. off % 2 = 0 => 1 \notin LineEnds
  BY <1>1, <1>2, <1>4, Alternates
<1>7. off % 2 = 0 /\ off + 1 < Len(content[f]) => 2 \in LineEnds
  <2>1. off % 2 = 0 => (off + 2) % 2 = 0
    BY <1>1
  <2> QED
    BY <1>1, <1>2, <1>4, <2>1
<1>8. LineEnds \subseteq 1 .. Len(content[f]) - off
  BY <1>2 DEF LineEnds
<1>9. off % 2 = 1 => FirstEnd = 1
  <2> SUFFICES ASSUME off % 2 = 1
               PROVE  FirstEnd = 1
    OBVIOUS
  <2>1. 1 \in LineEnds /\ \A j \in LineEnds : 1 <= j
    BY <1>1, <1>5, <1>8
  <2>2. \A i \in LineEnds : i \in Int /\ ((\A j \in LineEnds : i <= j) => i = 1)
    BY <1>1, <1>8, <2>1
  <2> QED
    BY <2>1, <2>2 DEF FirstEnd
<1>10. off % 2 = 0 /\ off + 1 < Len(content[f]) => FirstEnd = 2
  <2> SUFFICES ASSUME off % 2 = 0, off + 1 < Len(content[f])
               PROVE  FirstEnd = 2
    OBVIOUS
  <2>1. 2 \in LineEnds /\ \A j \in LineEnds : 2 <= j
    BY <1>1, <1>6, <1>7, <1>8
  <2>2. \A i \in LineEnds : i \in Int /\ ((\A j \in LineEnds : i <= j) => i = 2)
    BY <1>1, <1>8, <2>1
  <2> QED
    BY <2>1, <2>2 DEF FirstEnd
<1> QED
  BY <1>5, <1>6, <1>7, <1>8, <1>9, <1>10

LEMMA Listed ==
  ASSUME NEW s \in Seq(Half)
  PROVE  /\ Len(s) = 1 => s = <<s[1]>>
         /\ Len(s) = 2 => s = <<s[1], s[2]>>
  OBVIOUS

LEMMA Joins ==
  ASSUME NEW x \in Half, NEW y \in Half
  PROVE  <<x>> \o <<y>> = <<x, y>>
<1> DEFINE s == <<x>>
           t == <<y>>
<1>1. s \in Seq(Half) /\ t \in Seq(Half) /\ Len(s) = 1 /\ Len(t) = 1 /\ s[1] = x /\ t[1] = y
  OBVIOUS
<1> HIDE DEF s, t
<1>2. /\ s \o t \in Seq(Half) /\ Len(s \o t) = Len(s) + Len(t)
      /\ \A i \in 1 .. Len(s) + Len(t) :
           (s \o t)[i] = IF i <= Len(s) THEN s[i] ELSE t[i - Len(s)]
  BY <1>1, ConcatProperties
<1>3. Len(s \o t) = 2 /\ (s \o t)[1] = x /\ (s \o t)[2] = y
  BY <1>1, <1>2
<1>4. s \o t = <<(s \o t)[1], (s \o t)[2]>>
  BY <1>2, <1>3, Listed
<1> QED
  BY <1>3, <1>4 DEF s, t

LEMMA FirstOne ==
  ASSUME NEW s \in Seq(Half), 1 <= Len(s)
  PROVE  SubSeq(s, 1, 1) = <<s[1]>>
<1>1. \A i \in 1 .. 1 : s[i] \in Half
  BY ElementOfSeq
<1>2. /\ SubSeq(s, 1, 1) \in Seq(Half) /\ Len(SubSeq(s, 1, 1)) = 1
      /\ SubSeq(s, 1, 1)[1] = s[1]
  BY <1>1, SubSeqProperties
<1>3. SubSeq(s, 1, 1) = <<SubSeq(s, 1, 1)[1]>>
  BY <1>2, Listed
<1> QED
  BY <1>2, <1>3

LEMMA FirstTwo ==
  ASSUME NEW s \in Seq(Half), 2 <= Len(s)
  PROVE  SubSeq(s, 1, 2) = <<s[1], s[2]>>
<1>1. \A i \in 1 .. 2 : s[i] \in Half
  BY ElementOfSeq
<1>2. /\ SubSeq(s, 1, 2) \in Seq(Half) /\ Len(SubSeq(s, 1, 2)) = 2
      /\ SubSeq(s, 1, 2)[1] = s[1] /\ SubSeq(s, 1, 2)[2] = s[2]
  BY <1>1, SubSeqProperties
<1>3. SubSeq(s, 1, 2) = <<SubSeq(s, 1, 2)[1], SubSeq(s, 1, 2)[2]>>
  BY <1>2, Listed
<1> QED
  BY <1>2, <1>3

(* What a call of ReadString that ends at a newline hands to Ingest: a     *)
(* line, the second half of one to the first half held, or the second half *)
(* alone.                                                                  *)
LineRead ==
  \/ /\ off % 2 = 0 /\ partial = <<>> /\ off + 2 <= Len(content[f]) /\ off' = off + 2
     /\ fed' = Append(fed, <<content[f][off + 1], content[f][off + 2]>>)
  \/ /\ off % 2 = 1 /\ partial = <<>> /\ off' = off + 1
     /\ fed' = Append(fed, <<content[f][off + 1]>>)
  \/ /\ off % 2 = 1 /\ Len(partial) = 1 /\ off' = off + 1
     /\ fed' = Append(fed, <<partial[1], content[f][off + 1]>>)

LEMMA ReadsLine ==
  ASSUME Log, ReadLine
  PROVE  f \in Inode /\ off < Len(content[f]) /\ partial' = <<>> /\ LineRead
<1>1. Rest # <<>>
  BY DEF ReadLine, LineEnds
<1>2. f \in Inode /\ off < Len(content[f])
  BY <1>1, RestFound DEF Log
<1>3. /\ off \in Nat /\ content[f] \in Seq(Half) /\ Len(content[f]) \in Nat
      /\ partial \in Seq(Half) /\ Rest \in Seq(Half)
      /\ Len(Rest) = Len(content[f]) - off
      /\ \A i \in 1 .. Len(Rest) : Rest[i] = content[f][off + i]
  BY <1>2, RestFound DEF Log, Types
<1>4. /\ fed' = Append(fed, partial \o SubSeq(Rest, 1, FirstEnd))
      /\ off' = off + FirstEnd /\ partial' = <<>> /\ LineEnds # {}
  BY DEF ReadLine
<1>5. CASE off % 2 = 0
  <2>1. partial = <<>>
    BY <1>5 DEF Log, Held
  <2>2. off + 1 < Len(content[f])
    BY <1>2, <1>3, <1>4, <1>5, EndFound
  <2>3. FirstEnd = 2
    BY <1>2, <1>5, <2>2, EndFound
  <2>4. SubSeq(Rest, 1, 2) = <<content[f][off + 1], content[f][off + 2]>>
    BY <1>3, <2>2, FirstTwo
  <2>5. SubSeq(Rest, 1, 2) \in Seq(Half)
    BY <1>3, <2>2, <2>4
  <2>6. partial \o SubSeq(Rest, 1, 2) = SubSeq(Rest, 1, 2)
    BY <2>1, <2>5, ConcatEmptySeq
  <2> QED
    BY <1>2, <1>3, <1>4, <1>5, <2>1, <2>2, <2>3, <2>4, <2>6 DEF LineRead
<1>6. CASE off % 2 = 1
  <2>1. FirstEnd = 1
    BY <1>2, <1>6, EndFound
  <2>2. SubSeq(Rest, 1, 1) = <<content[f][off + 1]>>
    BY <1>2, <1>3, FirstOne
  <2>3. CASE partial = <<>>
    <3>1. partial \o SubSeq(Rest, 1, 1) = <<content[f][off + 1]>>
      BY <2>2, <2>3
    <3> QED
      BY <1>2, <1>4, <1>6, <2>1, <2>3, <3>1 DEF LineRead
  <2>4. CASE partial # <<>>
    <3>1. Len(partial) = 1
      BY <2>4 DEF Log, Held
    <3>2. partial = <<partial[1]>>
      BY <1>3, <3>1
    <3>3. partial \o SubSeq(Rest, 1, 1) = <<partial[1], content[f][off + 1]>>
      <4>1. partial[1] \in Half
        <5>1. 1 \in 1 .. Len(partial)
          BY <3>1
        <5> QED
          BY <1>3, <5>1, ElementOfSeq
      <4>2. off + 1 \in 1 .. Len(content[f])
        BY <1>2, <1>3
      <4>3. content[f][off + 1] \in Half
        BY <1>3, <4>2, ElementOfSeq
      <4> QED
        BY <2>2, <3>2, <4>1, <4>3, Joins
    <3> QED
      BY <1>2, <1>4, <1>6, <2>1, <3>1, <3>3 DEF LineRead
  <2> QED
    BY <2>3, <2>4
<1> QED
  BY <1>3, <1>5, <1>6, Alternates

(* A call that ends at the end of the file takes nothing, or the first     *)
(* half of a line.                                                         *)
HalfRead ==
  /\ f \in Inode /\ off % 2 = 0 /\ partial = <<>>
  /\ off' = off + 1 /\ off + 1 = Len(content[f])
  /\ partial' = <<content[f][off + 1]>>

LEMMA ReadsEOF ==
  ASSUME Log, ReadEOF
  PROVE  (partial' = partial /\ off' = off) \/ HalfRead
<1>1. /\ LineEnds = {} /\ partial' = partial \o Rest /\ off' = off + Len(Rest)
      /\ partial \in Seq(Half) /\ Rest \in Seq(Half) /\ off \in Nat
  BY RestFound DEF ReadEOF, Log, Types
<1>2. CASE Rest = <<>>
  BY <1>1, <1>2, ConcatEmptySeq
<1>3. CASE Rest # <<>>
  <2>1. f \in Inode /\ off < Len(content[f]) /\ Len(content[f]) \in Nat
    BY <1>3, RestFound DEF Log, Types
  <2>2. off % 2 = 0 /\ off + 1 = Len(content[f])
    <3>1. off % 2 # 1 /\ ~(off % 2 = 0 /\ off + 1 < Len(content[f]))
      BY <1>1, <2>1, EndFound
    <3>2. off % 2 \in {0, 1}
      BY <1>1, Alternates
    <3> QED
      BY <1>1, <2>1, <3>1, <3>2
  <2>3. partial = <<>>
    BY <2>2 DEF Log, Held
  <2>4. Len(Rest) = 1 /\ Rest[1] = content[f][off + 1]
    <3>1. Len(Rest) = Len(content[f]) - off
      BY <2>1, RestFound DEF Log
    <3>2. \A i \in 1 .. Len(Rest) : Rest[i] = content[f][off + i]
      BY <2>1, RestFound DEF Log
    <3>3. Len(Rest) = 1
      BY <1>1, <2>1, <2>2, <3>1
    <3> QED
      BY <3>2, <3>3
  <2>5. partial \o Rest = <<content[f][off + 1]>>
    BY <1>1, <2>3, <2>4
  <2> QED
    BY <1>1, <2>1, <2>2, <2>3, <2>4, <2>5 DEF HalfRead
<1> QED
  BY <1>2, <1>3

LEMMA InitLog == Init => Log
<1> SUFFICES ASSUME Init
             PROVE  Log
  OBVIOUS
<1>1. 1 \in Inode /\ None \notin Inode
  BY LogTailAssumption DEF Inode, None
<1>2. Types
  <2>1. /\ content \in [Inode -> Seq(Half)] /\ readable \in [Inode -> BOOLEAN]
        /\ partial \in Seq(Half) /\ fed \in Seq(Seq(Half))
    BY DEF Init
  <2>2. joined \in [inode : Inode \cup {None}, at : Nat]
    BY LogTailAssumption DEF Init
  <2>3. f \in Inode \cup {None} /\ fi \in [inode : Inode \cup {None}, size : Nat]
    BY DEF Init
  <2>4. /\ written \in 0 .. 2 * MaxLines /\ truncations \in 0 .. MaxTruncations
        /\ off \in Nat /\ size \in Nat
    BY LogTailAssumption DEF Init
  <2>5. /\ path \in Inode \cup {None} /\ inodes \in Inode /\ wfd \in Inode
        /\ enabled \in BOOLEAN
        /\ pc \in {"down", "opening", "wait", "read", "stat", "compare"}
    BY <1>1 DEF Init
  <2> QED
    BY <2>1, <2>2, <2>3, <2>4, <2>5 DEF Types
<1>3. \A i \in Inode : content[i] = <<>>
  BY DEF Init
<1>4. Files
  BY <1>1, <1>3 DEF Init, Files
<1>5. Numbered
  BY <1>3 DEF Numbered
<1>6. Held
  BY DEF Init, Held
<1> QED
  BY <1>2, <1>4, <1>5, <1>6 DEF Log

LEMMA Smaller ==
  ASSUME Types, NEW i \in Inode
  PROVE  /\ i \in Nat \ {0} /\ i # None /\ Len(content[i]) \in Nat
         /\ content[i] \in Seq(Half) /\ written \in Nat /\ inodes \in Nat /\ wfd \in Nat
         /\ content[i] # <<>> <=> Len(content[i]) > 0
         /\ \A k \in 1 .. Len(content[i]) : content[i][k] \in Nat
<1>1. i \in Nat \ {0} /\ i # None /\ written \in Nat /\ inodes \in Nat /\ wfd \in Nat
  BY LogTailAssumption DEF Types, Inode, None
<1>2. content[i] \in Seq(Half)
  BY DEF Types
<1>3. Half \subseteq Nat
  BY LogTailAssumption DEF Half
<1>4. Len(content[i]) \in Nat /\ (content[i] # <<>> <=> Len(content[i]) > 0)
  BY <1>2
<1>5. \A k \in 1 .. Len(content[i]) : content[i][k] \in Half
  BY <1>2, ElementOfSeq
<1> QED
  BY <1>1, <1>2, <1>3, <1>4, <1>5

LEMMA SameParity ==
  ASSUME NEW m \in Nat, NEW n \in Nat, m % 2 = n % 2
  PROVE  (m + 1) % 2 = (n + 1) % 2
  OBVIOUS

LEMMA WriteLog ==
  ASSUME Log, Write
  PROVE  Log'
<1>1. /\ written + 1 \in Half /\ written' = written + 1
      /\ content' \in [Inode -> Seq(Half)]
      /\ \A i \in Inode : i # wfd => content'[i] = content[i]
      /\ Len(content'[wfd]) = Len(content[wfd]) + 1
      /\ \A k \in 1 .. Len(content[wfd]) : content'[wfd][k] = content[wfd][k]
      /\ content'[wfd][Len(content[wfd]) + 1] = written + 1
      /\ content'[wfd] # <<>>
  BY Writes DEF Log
<1>2. UNCHANGED <<path, readable, inodes, wfd, truncations>> /\ UNCHANGED tail
  BY DEF Write
<1>3. Types'
  <2>1. written' \in 0 .. 2 * MaxLines
    BY <1>1, LogTailAssumption DEF Half
  <2>2. Types
    BY DEF Log
  <2> QED
    BY <1>1, <1>2, <2>1, <2>2 DEF Types, tail
<1>4. wfd \in Inode
  BY DEF Log, Types
<1>5. Files'
  <2>1. \A i \in Inode : i > wfd => i # wfd
    BY <1>4, Smaller DEF Log
  <2>2. Files
    BY DEF Log
  <2>3. content'[wfd][Len(content'[wfd])] = written'
    BY <1>1
  <2> QED
    BY <1>1, <1>2, <2>1, <2>2, <2>3 DEF Files
<1>6. Numbered'
  <2>x. PICK d \in [Inode -> Seq(Half)] : d = content'
    BY <1>1
  <2>y. /\ \A i \in Inode : i # wfd => d[i] = content[i]
        /\ Len(d[wfd]) = Len(content[wfd]) + 1
        /\ \A k \in 1 .. Len(content[wfd]) : d[wfd][k] = content[wfd][k]
        /\ d[wfd][Len(content[wfd]) + 1] = written + 1
    BY <1>1, <2>x
  <2> DEFINE n == Len(content[wfd])
  <2>0. n \in Nat /\ written \in Nat /\ wfd \in Nat
    BY <1>4, Smaller DEF Log
  <2>1. \A i \in Inode : \A k \in 1 .. Len(content[i]) : d[i][k] = content[i][k]
    BY <2>y
  <2>2. \A i \in Inode : \A k \in 1 .. Len(d[i]) :
          k \in 1 .. Len(content[i]) \/ (i = wfd /\ k = n + 1)
    BY <2>y, <2>0
  <2>3. (n + 1) % 2 = (written + 1) % 2
    <3>1. CASE n = 0
      <4>1. content[wfd] = <<>>
        BY <1>4, <3>1, Smaller DEF Log
      <4>2. written % 2 = 0
        BY <4>1 DEF Log, Files
      <4>3. n % 2 = written % 2
        BY <3>1, <4>2
      <4> QED
        BY <2>0, <4>3, SameParity
    <3>2. CASE n > 0
      <4>1. n \in 1 .. Len(content[wfd]) /\ content[wfd] # <<>>
        BY <1>4, <2>0, <3>2, Smaller DEF Log
      <4>2. content[wfd][n] = written /\ content[wfd][n] % 2 = n % 2
        BY <1>4, <4>1 DEF Log, Files, Numbered
      <4>3. n % 2 = written % 2
        BY <4>2
      <4> QED
        BY <2>0, <4>3, SameParity
    <3>3. n = 0 \/ n > 0
      BY <2>0
    <3> QED
      BY <3>1, <3>2, <3>3
  <2>4. \A k \in 1 .. n : content[wfd][k] + n = written + k
    <3> SUFFICES ASSUME NEW k \in 1 .. n
                 PROVE  content[wfd][k] + n = written + k
      OBVIOUS
    <3>1. n \in 1 .. Len(content[wfd]) /\ content[wfd] # <<>>
      BY <1>4, <2>0, Smaller DEF Log
    <3>2. content[wfd][n] = written
      BY <3>1 DEF Log, Files
    <3> QED
      BY <1>4, <3>1, <3>2 DEF Log, Numbered
  <2> SUFFICES ASSUME NEW i \in Inode, NEW k \in 1 .. Len(d[i])
               PROVE  /\ d[i][k] % 2 = k % 2 /\ d[i][k] <= written + 1
                      /\ \A l \in 1 .. Len(d[i]) :
                           d[i][k] + l = d[i][l] + k
                      /\ \A j \in Inode : i < j =>
                           \A l \in 1 .. Len(d[j]) : d[i][k] < d[j][l]
    BY <1>1, <2>x DEF Numbered
  <2>5. CASE k \in 1 .. Len(content[i])
    <3>1. d[i][k] = content[i][k] /\ content[i][k] \in Nat
      BY <2>1, <2>5, Smaller DEF Log
    <3>2. content[i][k] % 2 = k % 2 /\ content[i][k] <= written
      BY <2>5 DEF Log, Numbered
    <3>3. \A l \in 1 .. Len(d[i]) : d[i][k] + l = d[i][l] + k
      <4> SUFFICES ASSUME NEW l \in 1 .. Len(d[i])
                   PROVE  d[i][k] + l = d[i][l] + k
        OBVIOUS
      <4>1. CASE l \in 1 .. Len(content[i])
        BY <2>1, <2>5, <3>1, <4>1 DEF Log, Numbered
      <4>2. CASE i = wfd /\ l = n + 1
        <5>1. content[i][k] + n = written + k
          BY <2>4, <2>5, <4>2
        <5>2. d[i][l] = written + 1
          BY <2>y, <4>2
        <5>3. content[i][k] \in Nat /\ k \in Nat
          BY <2>5, <3>1
        <5>4. content[i][k] + (n + 1) = (written + 1) + k
          <6>1. PICK h \in Nat, p \in Nat, w \in Nat :
                  h = content[i][k] /\ p = n /\ w = written
            BY <2>0, <5>3
          <6>2. h + p = w + k /\ k \in Nat
            BY <5>1, <5>3, <6>1
          <6>3. h + (p + 1) = (w + 1) + k
            BY <6>2
          <6> QED
            BY <6>1, <6>3
        <5> QED
          BY <3>1, <4>2, <5>2, <5>4
      <4> QED
        BY <2>2, <4>1, <4>2
    <3>4. \A j \in Inode : i < j =>
            \A l \in 1 .. Len(d[j]) : d[i][k] < d[j][l]
      <4> SUFFICES ASSUME NEW j \in Inode, i < j, NEW l \in 1 .. Len(d[j])
                   PROVE  d[i][k] < d[j][l]
        OBVIOUS
      <4>1. CASE l \in 1 .. Len(content[j])
        <5>1. content[i][k] < content[j][l]
          BY <2>5, <4>1 DEF Log, Numbered
        <5> QED
          BY <2>1, <3>1, <4>1, <5>1
      <4>2. CASE j = wfd /\ l = n + 1
        BY <2>y, <2>0, <3>1, <3>2, <4>2
      <4> QED
        BY <2>2, <4>1, <4>2
    <3> QED
      BY <2>0, <3>1, <3>2, <3>3, <3>4
  <2>6. CASE i = wfd /\ k = n + 1
    <3>1. d[i][k] = written + 1
      BY <2>y, <2>6
    <3>2. \A l \in 1 .. Len(d[i]) : d[i][k] + l = d[i][l] + k
      <4> SUFFICES ASSUME NEW l \in 1 .. Len(d[i])
                   PROVE  d[i][k] + l = d[i][l] + k
        OBVIOUS
      <4>1. CASE l \in 1 .. n
        <5>1. d[i][l] = content[i][l] /\ content[i][l] + n = written + l
          BY <2>1, <2>4, <2>6, <4>1
        <5>2. content[i][l] \in Nat
          BY <2>6, <4>1, Smaller DEF Log
        <5>3. (written + 1) + l = content[i][l] + (n + 1)
          <6>1. PICK h \in Nat, p \in Nat, w \in Nat :
                  h = content[i][l] /\ p = n /\ w = written
            BY <2>0, <5>2
          <6>2. h + p = w + l /\ l \in Nat
            BY <4>1, <5>1, <6>1
          <6>3. (w + 1) + l = h + (p + 1)
            BY <6>2
          <6> QED
            BY <6>1, <6>3
        <5> QED
          BY <2>6, <3>1, <5>1, <5>3
      <4>2. CASE l = n + 1
        BY <2>6, <4>2
      <4> QED
        BY <2>2, <2>6, <4>1, <4>2
    <3>3. \A j \in Inode : i < j => d[j] = <<>>
      <4> SUFFICES ASSUME NEW j \in Inode, i < j
                   PROVE  d[j] = <<>>
        OBVIOUS
      <4>1. j > wfd /\ j # wfd
        BY <2>0, <2>6, Smaller DEF Log
      <4> QED
        BY <2>y, <4>1 DEF Log, Files
    <3>4. \A j \in Inode : i < j => \A l \in 1 .. Len(d[j]) : FALSE
      BY <3>3
    <3>5. d[i][k] % 2 = k % 2
      BY <2>3, <2>6, <3>1
    <3>6. d[i][k] <= written + 1
      BY <2>0, <3>1
    <3> QED
      BY <3>2, <3>4, <3>5, <3>6
  <2> QED
    BY <2>2, <2>5, <2>6
<1>7. Held'
  BY <1>2 DEF Log, Held, tail
<1> QED
  BY <1>3, <1>5, <1>6, <1>7 DEF Log

LEMMA TruncateLog ==
  ASSUME Log, Truncate
  PROVE  /\ Log' /\ path = wfd /\ written' = written
         /\ content'[path] = <<>>
         /\ \A i \in Inode : i # path => content'[i] = content[i]
<1>1. path \in Inode /\ path # None
  BY DEF Truncate, Log, Types
<1>2. /\ content' = [content EXCEPT ![path] = <<>>] /\ content[path] # <<>>
      /\ written % 2 = 0 /\ truncations' = truncations + 1 /\ truncations < MaxTruncations
      /\ UNCHANGED <<path, readable, inodes, wfd, written>> /\ UNCHANGED tail
  BY DEF Truncate
<1>3. path = wfd
  <2>1. path <= wfd
    BY <1>1, <1>2, Smaller DEF Log, Files
  <2>2. path >= wfd
    BY <1>1, Smaller DEF Log, Files
  <2> QED
    BY <1>1, <2>1, <2>2, Smaller DEF Log
<1>4. /\ content' \in [Inode -> Seq(Half)] /\ content'[path] = <<>>
      /\ \A i \in Inode : i # path => content'[i] = content[i]
  BY <1>1, <1>2 DEF Log, Types
<1>5. Types'
  <2>1. truncations' \in 0 .. MaxTruncations
    BY <1>2, LogTailAssumption DEF Log, Types
  <2>2. Types
    BY DEF Log
  <2> QED
    BY <1>2, <1>4, <2>1, <2>2 DEF Types, tail
<1>6. Files'
  BY <1>1, <1>2, <1>3, <1>4 DEF Log, Files
<1>7. Numbered'
  <2>1. Numbered
    BY DEF Log
  <2>2. Len(content'[path]) = 0
    BY <1>4
  <2>3. \A i \in Inode : \A k \in 1 .. Len(content'[i]) : content'[i] = content[i]
    BY <1>4, <2>2
  <2> QED
    BY <1>2, <2>1, <2>3 DEF Numbered
<1>8. Held'
  BY <1>2 DEF Log, Held, tail
<1> QED
  BY <1>2, <1>3, <1>4, <1>5, <1>6, <1>7, <1>8 DEF Log

LEMMA EnvironmentLog ==
  ASSUME Log, Rotate \/ Create \/ Reopen \/ Grant
  PROVE  Log' /\ UNCHANGED <<content, written, tail>>
<1>1. UNCHANGED <<content, written, truncations, tail>>
  BY DEF Rotate, Create, Reopen, Grant
<1>2. Numbered' /\ Held'
  BY <1>1 DEF Log, Numbered, Held, tail
<1>3. None \notin Inode
  BY DEF Inode, None
<1>4. CASE Rotate
  <2>1. Types'
    BY <1>1, <1>4 DEF Log, Types, Rotate, tail
  <2>2. Files'
    BY <1>1, <1>4 DEF Log, Files, Rotate
  <2> QED
    BY <1>1, <1>2, <2>1, <2>2 DEF Log
<1>5. CASE Create
  <2>1. inodes + 1 \in Inode /\ inodes \in Nat /\ wfd \in Nat
    BY <1>5, LogTailAssumption DEF Log, Types, Create, Inode, None, Files
  <2>2. Types'
    BY <1>1, <1>5, <2>1 DEF Log, Types, Create, tail
  <2>3. Files'
    <3>1. Files
      BY DEF Log
    <3>2. path' # None
      BY <1>5, <2>1 DEF Create, None
    <3>3. wfd' = wfd /\ wfd <= inodes + 1
      BY <1>5, <2>1, <3>1 DEF Create, Files
    <3> QED
      BY <1>1, <1>5, <3>1, <3>2, <3>3 DEF Files, Create
  <2> QED
    BY <1>1, <1>2, <2>2, <2>3 DEF Log
<1>6. CASE Reopen
  <2>1. path \in Inode /\ path = inodes /\ path > wfd /\ wfd' = path /\ content[path] = <<>>
    BY <1>6, LogTailAssumption DEF Log, Types, Files, Reopen, Inode
  <2>2. Types'
    BY <1>1, <1>6, <2>1 DEF Log, Types, Reopen, tail
  <2>3. \A i \in Inode : i > path => i > wfd
    BY <2>1, LogTailAssumption DEF Log, Types, Inode
  <2>4. Files'
    <3>1. path' = path /\ inodes' = inodes /\ written' = written /\ content' = content
      BY <1>6 DEF Reopen
    <3>2. written % 2 = 0 /\ path # None
      BY <1>6 DEF Reopen
    <3>3. wfd' <= inodes
      BY <2>1, LogTailAssumption DEF Log, Types, Inode
    <3>4. \A i \in Inode : i > path => content[i] = <<>>
      BY <2>3 DEF Log, Files
    <3> QED
      BY <2>1, <3>1, <3>2, <3>3, <3>4 DEF Files
  <2> QED
    BY <1>1, <1>2, <2>2, <2>4 DEF Log
<1>7. CASE Grant
  <2>1. Types'
    BY <1>1, <1>7 DEF Log, Types, Grant, tail
  <2>2. Files'
    BY <1>1, <1>7 DEF Log, Files, Grant
  <2> QED
    BY <1>1, <1>2, <2>1, <2>2 DEF Log
<1> QED
  BY <1>4, <1>5, <1>6, <1>7

LEMMA Halves ==
  ASSUME NEW x \in Half, NEW y \in Half
  PROVE  /\ <<x>> \in Seq(Half) /\ Len(<<x>>) = 1 /\ <<x>>[1] = x
         /\ <<x, y>> \in Seq(Half) /\ Len(<<x, y>>) = 2 /\ <<x, y>>[1] = x
  OBVIOUS

LEMMA FirstHalf ==
  ASSUME NEW s \in Seq(Half), Len(s) = 1
  PROVE  s[1] \in Half
<1>1. 1 \in 1 .. Len(s)
  OBVIOUS
<1> QED
  BY <1>1, ElementOfSeq

LEMMA TailerLog ==
  ASSUME Log, Tailer
  PROVE  Log'
<1>1. UNCHANGED <<content, path, readable, inodes, wfd, written, truncations>>
  BY DEF Tailer, StartTail, StartFails, OpenAtEnd, Tick, ReadLine, ReadEOF, StatPath, Stay,
         OpenAgain, OpenAgainFails, log
<1>2. Files' /\ Numbered'
  BY <1>1 DEF Log, Files, Numbered
<1>3. SUFFICES Types' /\ Held'
  BY <1>2 DEF Log
<1>4. Types /\ Held
  BY DEF Log
<1>5. CASE StartTail
  BY <1>1, <1>4, <1>5 DEF Types, Held, StartTail
<1>6. CASE StartFails
  BY <1>1, <1>4, <1>6 DEF Types, Held, StartFails
<1>7. CASE OpenAtEnd
  <2>1. path \in Inode /\ path # None /\ Len(content[path]) \in Nat /\ written \in Nat
    BY <1>4, <1>7, Smaller DEF Types, OpenAtEnd, CanOpen
  <2>2. /\ f' = path /\ off' = Len(content[path]) /\ size' = Len(content[path])
        /\ partial' = <<>> /\ joined' = [inode |-> path, at |-> written]
        /\ pc' = "wait" /\ UNCHANGED <<enabled, fi, fed>>
    BY <1>7 DEF OpenAtEnd
  <2>3. Types'
    BY <1>1, <1>4, <2>1, <2>2 DEF Types
  <2> QED
    BY <2>1, <2>2, <2>3 DEF Held
<1>8. CASE Tick
  BY <1>1, <1>4, <1>8 DEF Types, Held, Tick
<1>9. CASE ReadLine
  <2>1. f \in Inode /\ off < Len(content[f]) /\ partial' = <<>> /\ LineRead
    BY <1>9, ReadsLine
  <2>2. off' \in Nat
    <3>1. off \in Nat /\ (off' = off + 1 \/ off' = off + 2)
      BY <1>4, <2>1 DEF Types, LineRead
    <3> QED
      BY <3>1
  <2>3. fed' \in Seq(Seq(Half))
    <3>1. /\ off + 1 \in 1 .. Len(content[f])
          /\ off + 2 <= Len(content[f]) => off + 2 \in 1 .. Len(content[f])
      BY <1>4, <2>1, Smaller DEF Types
    <3>2. content[f] \in Seq(Half)
      BY <2>1, <1>4, Smaller
    <3>3. /\ content[f][off + 1] \in Half
          /\ off + 2 <= Len(content[f]) => content[f][off + 2] \in Half
      BY <3>1, <3>2, ElementOfSeq
    <3>4. Len(partial) = 1 => partial[1] \in Half
      BY <1>4, FirstHalf DEF Types
    <3>5. \E x \in Seq(Half) : fed' = Append(fed, x)
      <4>1. CASE off + 2 <= Len(content[f])
                 /\ fed' = Append(fed, <<content[f][off + 1], content[f][off + 2]>>)
        BY <3>3, <4>1, Halves
      <4>2. CASE fed' = Append(fed, <<content[f][off + 1]>>)
        BY <3>3, <4>2, Halves
      <4>3. CASE Len(partial) = 1 /\ fed' = Append(fed, <<partial[1], content[f][off + 1]>>)
        BY <3>3, <3>4, <4>3, Halves
      <4> QED
        BY <2>1, <4>1, <4>2, <4>3 DEF LineRead
    <3> QED
      BY <1>4, <3>5 DEF Types
  <2>4. UNCHANGED <<enabled, pc, f, size, fi, joined>>
    BY <1>9 DEF ReadLine
  <2>5. Types'
    BY <1>1, <1>4, <2>1, <2>2, <2>3, <2>4 DEF Types
  <2>6. Held'
    BY <2>1, <2>4 DEF Held, Inode, None
  <2> QED
    BY <2>5, <2>6
<1>10. CASE ReadEOF
  <2>1. (partial' = partial /\ off' = off) \/ HalfRead
    BY <1>10, ReadsEOF
  <2>2. pc' = "stat" /\ UNCHANGED <<enabled, f, size, fi, fed, joined>>
    BY <1>10 DEF ReadEOF
  <2>3. CASE partial' = partial /\ off' = off
    BY <1>1, <1>4, <2>2, <2>3 DEF Types, Held
  <2>4. CASE HalfRead
    <3>1. /\ f \in Inode /\ off \in Nat /\ off' = off + 1 /\ off % 2 = 0
          /\ off + 1 = Len(content[f]) /\ content[f] \in Seq(Half)
          /\ partial' = <<content[f][off + 1]>>
      BY <1>4, <2>4, Smaller DEF HalfRead, Types
    <3>2. off + 1 \in 1 .. Len(content[f]) /\ (off + 1) % 2 = 1
      BY <3>1, Alternates
    <3>3. content[f][off + 1] \in Half /\ content[f][off + 1] % 2 = 1
      BY <3>1, <3>2, ElementOfSeq DEF Log, Numbered
    <3>4. /\ partial' \in Seq(Half) /\ Len(partial') = 1 /\ partial'[1] = content[f][off + 1]
          /\ off' \in Nat /\ off' % 2 = 1
      BY <3>1, <3>2, <3>3
    <3>5. Types'
      BY <1>1, <1>4, <2>2, <3>4 DEF Types
    <3> QED
      BY <2>2, <3>1, <3>3, <3>4, <3>5 DEF Held, Inode, None
  <2> QED
    BY <2>1, <2>3, <2>4
<1>11. CASE StatPath
  <2>1. fi' \in [inode : Inode \cup {None}, size : Nat] /\ pc' \in {"wait", "compare"}
    <3>1. CASE path = None
      BY <1>4, <1>11, <3>1 DEF Types, StatPath
    <3>2. CASE path # None
      <4>1. path \in Inode /\ Len(content[path]) \in Nat
        BY <1>4, <3>2, Smaller DEF Types
      <4> QED
        BY <1>11, <3>2, <4>1 DEF StatPath
    <3> QED
      BY <3>1, <3>2
  <2>2. UNCHANGED <<enabled, f, off, size, partial, fed, joined>>
    BY <1>11 DEF StatPath
  <2> QED
    BY <1>1, <1>4, <2>1, <2>2 DEF Types, Held
<1>12. CASE Stay
  BY <1>1, <1>4, <1>12 DEF Types, Held, Stay, KeepSize
<1>13. CASE OpenAgain
  BY <1>1, <1>4, <1>13 DEF Types, Held, OpenAgain, KeepSize, CanOpen
<1>14. CASE OpenAgainFails
  BY <1>1, <1>4, <1>14 DEF Types, Held, OpenAgainFails, KeepSize
<1> QED
  BY <1>5, <1>6, <1>7, <1>8, <1>9, <1>10, <1>11, <1>12, <1>13, <1>14 DEF Tailer

LEMMA NextLog == Log /\ [Next]_vars => Log'
<1> SUFFICES ASSUME Log, [Next]_vars
             PROVE  Log'
  OBVIOUS
<1>1. CASE Next
  BY <1>1, WriteLog, TruncateLog, EnvironmentLog, TailerLog DEF Next, Environment
<1>2. CASE UNCHANGED vars
  BY <1>2 DEF Log, Types, Files, Numbered, Held, vars, log, tail
<1> QED
  BY <1>1, <1>2

(* The offset is beyond the end only where logs are truncated. *)
Within == MaxTruncations = 0 /\ f # None => off <= Len(content[f])

LEMMA InitWithin == Init => Within
  BY DEF Init, Within

LEMMA NextWithin ==
  ASSUME Log, Within, [Next]_vars
  PROVE  Within'
<1> SUFFICES ASSUME MaxTruncations = 0
             PROVE  Within'
  BY DEF Within
<1>1. CASE UNCHANGED vars
  BY <1>1 DEF Within, vars, log, tail
<1>2. CASE Write
  <2>1. /\ UNCHANGED <<f, off>>
        /\ \A i \in Inode : i # wfd => content'[i] = content[i]
        /\ Len(content'[wfd]) = Len(content[wfd]) + 1
    BY <1>2, Writes DEF Log, Write, tail
  <2>2. f \in Inode \cup {None} /\ off \in Nat /\ wfd \in Inode
    BY DEF Log, Types
  <2>3. \A i \in Inode : Len(content[i]) \in Nat /\ Len(content'[i]) >= Len(content[i])
    BY <2>1, Smaller DEF Log
  <2>4. f # None => off <= Len(content[f])
    BY DEF Within
  <2>5. CASE f = None
    BY <2>1, <2>5 DEF Within
  <2>6. CASE f \in Inode
    <3>1. Len(content'[f]) \in Nat
      BY <2>1, <2>3, <2>6
    <3>2. off <= Len(content'[f])
      BY <2>2, <2>3, <2>4, <2>6, <3>1 DEF Inode, None
    <3> QED
      BY <2>1, <3>2 DEF Within
  <2> QED
    BY <2>2, <2>5, <2>6
<1>3. CASE Truncate
  <2>1. truncations < 0 /\ truncations \in 0 .. 0
    BY <1>3 DEF Truncate, Log, Types
  <2> QED
    BY <2>1
<1>4. CASE Rotate \/ Create \/ Reopen \/ Grant
  BY <1>4, EnvironmentLog DEF Within, tail
<1>5. CASE Tailer
  <2>1. UNCHANGED content
    BY <1>5 DEF Tailer, StartTail, StartFails, OpenAtEnd, Tick, ReadLine, ReadEOF, StatPath,
           Stay, OpenAgain, OpenAgainFails, log
  <2>2. CASE StartTail \/ StartFails \/ Tick \/ StatPath \/ Stay
    BY <2>1, <2>2 DEF Within, StartTail, StartFails, Tick, StatPath, Stay
  <2>3. CASE OpenAtEnd
    <3>1. f' = path /\ off' = Len(content[path]) /\ path \in Inode
      BY <2>3 DEF OpenAtEnd, CanOpen, Log, Types
    <3>2. Len(content[path]) \in Nat
      BY <3>1, Smaller DEF Log
    <3> QED
      BY <2>1, <3>1, <3>2 DEF Within
  <2>4. CASE ReadLine
    <3>1. f \in Inode /\ off < Len(content[f]) /\ LineRead /\ UNCHANGED f
      BY <2>4, ReadsLine DEF ReadLine
    <3>2. off \in Nat /\ Len(content[f]) \in Nat
      BY <3>1, Smaller DEF Log, Types
    <3>3. off' = off + 1 \/ (off' = off + 2 /\ off + 2 <= Len(content[f]))
      BY <3>1 DEF LineRead
    <3>4. off' <= Len(content[f])
      BY <3>1, <3>2, <3>3
    <3> QED
      BY <2>1, <3>1, <3>4 DEF Within
  <2>5. CASE ReadEOF
    <3>1. off' = off \/ off' = Len(content[f])
      BY <2>5, ReadsEOF DEF HalfRead
    <3>2. UNCHANGED f
      BY <2>5 DEF ReadEOF
    <3>3. f # None => off <= Len(content[f]) /\ Len(content[f]) \in Nat
      BY Smaller DEF Within, Log, Types
    <3> QED
      BY <2>1, <3>1, <3>2, <3>3 DEF Within
  <2>6. CASE OpenAgain
    <3>1. f' = path /\ off' = 0 /\ path \in Inode
      BY <2>6 DEF OpenAgain, CanOpen, Log, Types
    <3>2. Len(content[path]) \in Nat
      BY <3>1, Smaller DEF Log
    <3> QED
      BY <2>1, <3>1, <3>2 DEF Within
  <2>7. CASE OpenAgainFails
    BY <2>7 DEF Within, OpenAgainFails
  <2> QED
    BY <1>5, <2>2, <2>3, <2>4, <2>5, <2>6, <2>7 DEF Tailer
<1> QED
  BY <1>1, <1>2, <1>3, <1>4, <1>5 DEF Next, Environment

LEMMA WithinTyped == Log /\ Within => TypeInv
<1> SUFFICES ASSUME Log, Within
             PROVE  TypeInv
  OBVIOUS
<1>1. partial = <<>> \/ (Len(partial) = 1 /\ ~EndsLine(partial[1]))
  BY DEF Log, Held, EndsLine
<1> QED
  BY <1>1 DEF Log, Types, Held, Within, TypeInv

(* Whatever the log does under the tailer, its offset, its fragment and    *)
(* the sizes it compares are what TypeInv says (ingress.Tail).             *)
THEOREM LogTailTypeCorrect == Spec => []TypeInv
<1>1. Init => Log /\ Within
  BY InitLog, InitWithin
<1>2. Log /\ Within /\ [Next]_vars => (Log /\ Within)'
  BY NextLog, NextWithin
<1> QED
  BY <1>1, <1>2, WithinTyped, PTL DEF Spec

(* A log that is truncated only when the tailer is at rest. *)
RestNext == Next /\ (Truncate => AtRest)

LEMMA InitCalm == Init => Waits /\ Reads /\ OnlyWholeLines
  BY DEF Init, Waits, Unseen, Reads, OnlyWholeLines

(* What the tailer has read stays where it is while nginx writes. *)
LEMMA WriteKeeps ==
  ASSUME Log, Write, f # None
  PROVE  /\ f \in Inode /\ off \in Nat
         /\ Len(content[f]) \in Nat /\ Len(content'[f]) \in Nat
         /\ Len(content'[f]) >= Len(content[f])
         /\ \A i \in Inode : \A k \in 1 .. Len(content[i]) : content'[i][k] = content[i][k]
<1>1. f \in Inode /\ off \in Nat
  BY DEF Log, Types
<1>2. /\ \A i \in Inode : i # wfd => content'[i] = content[i]
      /\ Len(content'[wfd]) = Len(content[wfd]) + 1
      /\ \A k \in 1 .. Len(content[wfd]) : content'[wfd][k] = content[wfd][k]
  BY Writes DEF Log
<1>3. Len(content[f]) \in Nat
  BY <1>1, Smaller DEF Log
<1>4. CASE f = wfd
  BY <1>1, <1>2, <1>3, <1>4
<1>5. CASE f # wfd
  BY <1>1, <1>2, <1>3, <1>5
<1> QED
  BY <1>4, <1>5

LEMMA WriteCalm ==
  ASSUME Log, Waits, Reads, OnlyWholeLines, Write
  PROVE  (Waits /\ Reads /\ OnlyWholeLines)' /\ (Unseen' => Unseen)
<1>1. UNCHANGED <<pc, f, off, size, partial, fi, fed, joined>>
  BY DEF Write, tail
<1>2. Unseen' => Unseen
  <2> SUFFICES ASSUME Unseen'
               PROVE  Unseen
    OBVIOUS
  <2>1. f # None /\ off > Len(content'[f])
    BY <1>1 DEF Unseen
  <2> QED
    BY <2>1, WriteKeeps DEF Unseen
<1>3. Waits'
  BY <1>1, <1>2 DEF Waits, Moved
<1>4. off % 2 = 1 /\ f # None => content'[f][off] = content[f][off]
  <2> SUFFICES ASSUME off % 2 = 1, f # None
               PROVE  content'[f][off] = content[f][off]
    OBVIOUS
  <2>1. off <= Len(content[f])
    BY WriteKeeps DEF Waits, Unseen
  <2>2. off \in 1 .. Len(content[f])
    BY <2>1, WriteKeeps
  <2> QED
    BY <2>2, WriteKeeps
<1>5. Reads'
  BY <1>1, <1>4 DEF Reads, Log, Held
<1>6. OnlyWholeLines'
  BY <1>1 DEF OnlyWholeLines
<1> QED
  BY <1>2, <1>3, <1>5, <1>6

LEMMA TruncateCalm ==
  ASSUME Log, Waits, Reads, OnlyWholeLines, Truncate, AtRest
  PROVE  (Waits /\ Reads /\ OnlyWholeLines)'
<1>1. UNCHANGED <<pc, f, off, size, partial, fi, fed, joined>>
  BY DEF Truncate, tail
<1>2. pc = "wait" /\ f = path /\ size = off /\ off = Len(content[f])
  BY DEF AtRest
<1>3. path \in Inode /\ content[path] # <<>> /\ written % 2 = 0 /\ path = wfd
  BY TruncateLog DEF Truncate, Log, Types
<1>4. Len(content[path]) \in 1 .. Len(content[path])
  BY <1>3, Smaller DEF Log
<1>5. off % 2 = 0
  BY <1>2, <1>3, <1>4 DEF Log, Files, Numbered
<1>6. partial = <<>>
  BY <1>5 DEF Log, Held
<1>7. Waits'
  BY <1>1, <1>2, <1>5, <1>6 DEF Waits
<1>8. Reads'
  <2>1. pc' = "wait" /\ partial' = <<>> /\ off' % 2 = 0
    BY <1>1, <1>2, <1>5, <1>6
  <2>2. ~(off' % 2 = 1)
    BY <2>1
  <2> QED
    BY <2>1, <2>2 DEF Reads
<1>9. OnlyWholeLines'
  BY <1>1 DEF OnlyWholeLines
<1> QED
  BY <1>7, <1>8, <1>9

LEMMA OpenAtEndCalm ==
  ASSUME Log, Waits, Reads, OnlyWholeLines, OpenAtEnd
  PROVE  (Waits /\ Reads /\ OnlyWholeLines)' /\ ~Unseen'
<1>1. /\ pc = "opening" /\ path \in Inode
      /\ f' = path /\ off' = Len(content[path]) /\ size' = Len(content[path])
      /\ partial' = <<>> /\ joined' = [inode |-> path, at |-> written]
      /\ pc' = "wait" /\ UNCHANGED <<content, path, fed>>
  BY DEF OpenAtEnd, CanOpen, log, Log, Types
<1>2. fed = <<>>
  BY <1>1 DEF Reads
<1>3. Len(content[path]) \in Nat
  BY <1>1, Smaller DEF Log
<1>4. ~Unseen'
  BY <1>1, <1>3 DEF Unseen
<1>5. off' % 2 = 1 => content[path][off'] = written
  <2> SUFFICES ASSUME off' % 2 = 1
               PROVE  content[path][off'] = written
    OBVIOUS
  <2>1. Len(content[path]) # 0
    <3>1. PICK n \in Nat : n = Len(content[path])
      BY <1>3
    <3>2. n % 2 = 1
      BY <1>1, <3>1
    <3>3. n # 0
      BY <3>2
    <3> QED
      BY <3>1, <3>3
  <2>2. content[path] # <<>>
    BY <1>1, <1>3, <2>1, Smaller DEF Log
  <2>3. path <= wfd /\ path >= wfd
    <3>1. ~(path > wfd)
      BY <1>1, <2>2 DEF Log, Files
    <3>2. path = inodes
      BY DEF OpenAtEnd, CanOpen, Log, Files
    <3> QED
      BY <1>1, <3>1, <3>2, Smaller DEF Log, Files
  <2>4. path = wfd
    BY <1>1, <2>3, Smaller DEF Log
  <2> QED
    BY <1>1, <2>2, <2>4 DEF Log, Files
<1>6. Reads'
  BY <1>1, <1>2, <1>5 DEF Reads
<1>7. OnlyWholeLines'
  BY <1>1, <1>2 DEF OnlyWholeLines
<1> QED
  BY <1>4, <1>6, <1>7 DEF Waits

LEMMA ReadLineCalm ==
  ASSUME Log, Waits, Reads, OnlyWholeLines, ReadLine
  PROVE  (Waits /\ Reads /\ OnlyWholeLines)' /\ ~Unseen' /\ ~Unseen /\ off' % 2 = 0
<1>1. f \in Inode /\ off < Len(content[f]) /\ partial' = <<>> /\ LineRead
  BY ReadsLine
<1>2. UNCHANGED <<content, pc, f, size, fi, joined>> /\ pc = "read"
  BY DEF ReadLine, log
<1>3. off \in Nat /\ Len(content[f]) \in Nat /\ content[f] \in Seq(Half)
  BY <1>1, Smaller DEF Log, Types
<1>4. \/ off % 2 = 0 /\ off' = off + 2 /\ off + 2 <= Len(content[f])
      \/ off % 2 = 1 /\ off' = off + 1
  BY <1>1 DEF LineRead
<1>5. off' % 2 = 0
  BY <1>3, <1>4
<1>6. ~Unseen' /\ ~Unseen
  BY <1>1, <1>2, <1>3, <1>4 DEF Unseen
<1>7. Reads'
  BY <1>1, <1>2, <1>5 DEF Reads
<1>8. /\ content[f][off + 1] \in Half /\ content[f][off + 1] % 2 = (off + 1) % 2
      /\ off >= 1 => content[f][off] \in Half /\ content[f][off] + 1 = content[f][off + 1]
      /\ off + 2 <= Len(content[f]) =>
           content[f][off + 2] \in Half /\ content[f][off + 1] + 1 = content[f][off + 2]
  <2>1. off + 1 \in 1 .. Len(content[f])
    BY <1>1, <1>3
  <2>2. \A k, l \in 1 .. Len(content[f]) :
          l = k + 1 => content[f][k] \in Half /\ content[f][l] \in Half
                       /\ content[f][k] + 1 = content[f][l]
    <3> SUFFICES ASSUME NEW k \in 1 .. Len(content[f]), NEW l \in 1 .. Len(content[f]),
                        l = k + 1
                 PROVE  /\ content[f][k] \in Half /\ content[f][l] \in Half
                        /\ content[f][k] + 1 = content[f][l]
      OBVIOUS
    <3>1. content[f][k] \in Half /\ content[f][l] \in Half
      BY <1>3, ElementOfSeq
    <3>2. content[f][k] + l = content[f][l] + k
      BY <1>1 DEF Log, Numbered
    <3>3. PICK x \in Int, y \in Int : x = content[f][k] /\ y = content[f][l]
      BY <3>1 DEF Half
    <3>4. x + 1 = y
      BY <3>2, <3>3
    <3> QED
      BY <3>1, <3>3, <3>4
  <2>3. content[f][off + 1] \in Half /\ content[f][off + 1] % 2 = (off + 1) % 2
    BY <1>1, <1>3, <2>1, ElementOfSeq DEF Log, Numbered
  <2>4. off >= 1 => off \in 1 .. Len(content[f])
    BY <1>1, <1>3
  <2>5. off + 2 <= Len(content[f]) =>
          off + 2 \in 1 .. Len(content[f]) /\ off + 2 = (off + 1) + 1
    BY <1>3
  <2> QED
    BY <2>1, <2>2, <2>3, <2>4, <2>5
<1>9. PICK item : /\ fed' = Append(fed, item)
                  /\ \/ \E n \in Line : item = Whole(n)
                     \/ fed = <<>> /\ item = <<joined.at + 1>>
  <2>1. \A x, y \in Half : x + 1 = y /\ y % 2 = 0 => \E n \in Line : <<x, y>> = Whole(n)
    <3> SUFFICES ASSUME NEW x \in Half, NEW y \in Half, x + 1 = y, y % 2 = 0
                 PROVE  \E n \in Line : <<x, y>> = Whole(n)
      OBVIOUS
    <3>1. PICK n \in Line : y = 2 * n
      BY LogTailAssumption DEF Half, Line
    <3>2. x = 2 * n - 1
      BY <3>1, LogTailAssumption DEF Half, Line
    <3> QED
      BY <3>1, <3>2 DEF Whole
  <2>2. CASE off % 2 = 0
    <3>1. /\ fed' = Append(fed, <<content[f][off + 1], content[f][off + 2]>>)
          /\ off + 2 <= Len(content[f])
      BY <1>1, <2>2 DEF LineRead
    <3>2. content[f][off + 2] % 2 = 0
      <4>1. off + 2 \in 1 .. Len(content[f]) /\ (off + 2) % 2 = 0
        BY <1>3, <2>2, <3>1
      <4> QED
        BY <1>1, <4>1 DEF Log, Numbered
    <3> QED
      BY <1>8, <2>1, <3>1, <3>2
  <2>3. CASE off % 2 = 1
    <3>1. off >= 1 /\ (off + 1) % 2 = 0
      BY <1>3, <2>3
    <3>2. CASE partial = <<>>
      <4>1. fed = <<>> /\ content[f][off] = joined.at
        BY <1>1, <2>3, <3>2, Smaller DEF Reads, Log
      <4>2. fed' = Append(fed, <<content[f][off + 1]>>)
        BY <1>1, <2>3, <3>2 DEF LineRead
      <4> QED
        BY <1>8, <3>1, <4>1, <4>2
    <3>3. CASE partial # <<>>
      <4>1. partial[1] = content[f][off]
        BY <3>3 DEF Reads
      <4>2. fed' = Append(fed, <<partial[1], content[f][off + 1]>>)
        BY <1>1, <2>3, <3>3 DEF LineRead
      <4> QED
        BY <1>8, <2>1, <3>1, <4>1, <4>2
    <3> QED
      BY <3>2, <3>3
  <2> QED
    BY <1>3, <2>2, <2>3, Alternates
<1>10. OnlyWholeLines'
  <2>1. fed \in Seq(Seq(Half)) /\ Len(fed) \in Nat
    BY DEF Log, Types
  <2>2. /\ DOMAIN fed' = 1 .. Len(fed) + 1 /\ fed'[Len(fed) + 1] = item
        /\ \A i \in 1 .. Len(fed) : fed'[i] = fed[i] /\ i \in DOMAIN fed
        /\ fed = <<>> => Len(fed) = 0
    BY <1>9, <2>1
  <2> SUFFICES ASSUME NEW i \in DOMAIN fed'
               PROVE  \/ \E n \in Line : fed'[i] = Whole(n)
                      \/ i = 1 /\ fed'[i] = <<joined.at + 1>>
    BY <1>2 DEF OnlyWholeLines
  <2>3. CASE i \in 1 .. Len(fed)
    BY <2>2, <2>3 DEF OnlyWholeLines
  <2>4. CASE i = Len(fed) + 1
    BY <1>9, <2>2, <2>4
  <2> QED
    BY <2>1, <2>2, <2>3, <2>4
<1> QED
  BY <1>5, <1>6, <1>7, <1>10 DEF Waits

LEMMA ReadEOFCalm ==
  ASSUME Log, Waits, Reads, OnlyWholeLines, ReadEOF
  PROVE  (Waits /\ Reads /\ OnlyWholeLines)' /\ (Unseen' <=> Unseen) /\ (Unseen => ~HalfRead)
<1>1. UNCHANGED <<content, f, size, fi, fed, joined>> /\ pc = "read" /\ pc' = "stat"
  BY DEF ReadEOF, log
<1>2. OnlyWholeLines'
  BY <1>1 DEF OnlyWholeLines
<1>3. CASE HalfRead
  <2>1. /\ f \in Inode /\ off \in Nat /\ off' = off + 1 /\ off + 1 = Len(content[f])
        /\ content[f] \in Seq(Half) /\ partial' = <<content[f][off + 1]>>
        /\ Len(content[f]) \in Nat
    BY <1>3, Smaller DEF HalfRead, Log, Types
  <2>2. ~Unseen' /\ ~Unseen
    BY <1>1, <2>1 DEF Unseen
  <2>3. partial' # <<>> /\ partial'[1] = content[f][off + 1]
    BY <2>1
  <2>4. Reads'
    BY <1>1, <2>1, <2>3 DEF Reads
  <2> QED
    BY <1>2, <2>2, <2>4 DEF Waits
<1>4. CASE partial' = partial /\ off' = off /\ ~HalfRead
  <2>1. Unseen' <=> Unseen
    BY <1>1, <1>4 DEF Unseen
  <2>2. Waits' /\ Reads'
    BY <1>1, <1>4, <2>1 DEF Waits, Reads
  <2> QED
    BY <1>2, <1>4, <2>1, <2>2
<1> QED
  BY <1>3, <1>4, ReadsEOF

LEMMA StatPathCalm ==
  ASSUME Log, Waits, Reads, OnlyWholeLines, StatPath
  PROVE  (Waits /\ Reads /\ OnlyWholeLines)'
<1>1. UNCHANGED <<content, path, f, off, size, partial, fed, joined>>
  BY DEF StatPath, log
<1>2. pc' \in {"wait", "compare"}
  BY DEF StatPath
<1>3. Reads' /\ OnlyWholeLines'
  BY <1>1, <1>2 DEF Reads, OnlyWholeLines
<1>4. Unseen' <=> Unseen
  BY <1>1 DEF Unseen
<1>5. Unseen /\ pc' = "compare" => Moved'
  <2> SUFFICES ASSUME Unseen, pc' = "compare"
               PROVE  Moved'
    OBVIOUS
  <2>1. path # None /\ fi' = [inode |-> path, size |-> Len(content[path])]
    BY DEF StatPath
  <2>2. f # path \/ Len(content[path]) < size
    <3>1. f # None /\ off > Len(content[f]) /\ off = size
      BY DEF Unseen, Waits
    <3>2. off \in Nat /\ Len(content[f]) \in Nat
      BY <3>1, Smaller DEF Log, Types
    <3> QED
      BY <3>1, <3>2
  <2> QED
    BY <1>1, <2>1, <2>2 DEF Moved
<1>6. Waits'
  BY <1>1, <1>4, <1>5 DEF Waits
<1> QED
  BY <1>3, <1>6

LEMMA OtherCalm ==
  ASSUME Log, Waits, Reads, OnlyWholeLines,
         \/ Rotate \/ Create \/ Reopen \/ Grant \/ StartTail \/ StartFails \/ Tick
         \/ Stay \/ OpenAgain \/ OpenAgainFails
  PROVE  (Waits /\ Reads /\ OnlyWholeLines)'
<1>1. UNCHANGED <<content, fed, joined>>
  BY EnvironmentLog DEF Rotate, Create, Reopen, Grant, StartTail, StartFails, Tick, Stay,
     OpenAgain, OpenAgainFails, tail, log
<1>2. OnlyWholeLines'
  BY <1>1 DEF OnlyWholeLines
<1>3. CASE Rotate \/ Create \/ Reopen \/ Grant
  <2>1. UNCHANGED tail
    BY <1>3, EnvironmentLog
  <2>2. Waits' /\ Reads'
    BY <1>1, <2>1 DEF Waits, Unseen, Moved, Reads, tail
  <2> QED
    BY <1>2, <2>2
<1>4. CASE StartTail \/ StartFails
  <2>1. /\ pc \in {"down", "opening"} /\ pc' \in {"down", "opening"}
        /\ UNCHANGED <<f, off, size, partial, fi>>
    BY <1>4 DEF StartTail, StartFails
  <2>2. Waits' /\ Reads'
    BY <1>1, <2>1 DEF Waits, Unseen, Reads
  <2> QED
    BY <1>2, <2>2
<1>5. CASE Tick
  <2>1. pc' = "read" /\ UNCHANGED <<f, off, size, partial, fi>>
    BY <1>5 DEF Tick
  <2>2. Waits' /\ Reads'
    BY <1>1, <2>1 DEF Waits, Unseen, Reads
  <2> QED
    BY <1>2, <2>2
<1>6. CASE Stay
  <2>1. pc = "compare" /\ ~Moved /\ pc' = "wait" /\ UNCHANGED <<f, off, partial>>
    BY <1>6 DEF Stay
  <2>2. ~Unseen
    BY <2>1 DEF Waits
  <2>3. Waits' /\ Reads'
    BY <1>1, <2>1, <2>2 DEF Waits, Unseen, Reads
  <2> QED
    BY <1>2, <2>3
<1>7. CASE OpenAgain \/ OpenAgainFails
  <2>1. pc' = "wait" /\ off' = 0 /\ partial' = <<>> /\ f' \in Inode \cup {None}
    BY <1>7 DEF OpenAgain, OpenAgainFails, CanOpen, Log, Types
  <2>2. f' # None => Len(content[f']) \in Nat
    <3>1. \A i \in Inode : Len(content[i]) \in Nat
      BY Smaller DEF Log
    <3> QED
      BY <2>1, <3>1
  <2>3. ~Unseen'
    BY <1>1, <2>1, <2>2 DEF Unseen
  <2>4. off' % 2 # 1
    <3>1. 0 % 2 # 1
      OBVIOUS
    <3> QED
      BY <2>1, <3>1
  <2>5. Waits' /\ Reads'
    BY <2>1, <2>3, <2>4 DEF Waits, Reads
  <2> QED
    BY <1>2, <2>5
<1> QED
  BY <1>3, <1>4, <1>5, <1>6, <1>7

Calms == Log /\ Waits /\ Reads /\ OnlyWholeLines

LEMMA NextCalm == Calms /\ [RestNext]_vars => Calms'
<1> SUFFICES ASSUME Calms, [RestNext]_vars
             PROVE  Calms'
  OBVIOUS
<1>1. Log'
  BY NextLog DEF Calms, RestNext
<1>2. CASE UNCHANGED vars
  BY <1>1, <1>2 DEF Calms, Waits, Unseen, Moved, Reads, OnlyWholeLines, vars, log, tail
<1>3. CASE RestNext
  <2>1. Next /\ (Truncate => AtRest)
    BY <1>3 DEF RestNext
  <2>2. CASE Truncate
    BY <1>1, <2>1, <2>2, TruncateCalm DEF Calms
  <2>3. CASE Write
    BY <1>1, <2>3, WriteCalm DEF Calms
  <2>4. CASE OpenAtEnd
    BY <1>1, <2>4, OpenAtEndCalm DEF Calms
  <2>5. CASE ReadLine
    BY <1>1, <2>5, ReadLineCalm DEF Calms
  <2>6. CASE ReadEOF
    BY <1>1, <2>6, ReadEOFCalm DEF Calms
  <2>7. CASE StatPath
    BY <1>1, <2>7, StatPathCalm DEF Calms
  <2>8. CASE \/ Rotate \/ Create \/ Reopen \/ Grant \/ StartTail \/ StartFails \/ Tick
             \/ Stay \/ OpenAgain \/ OpenAgainFails
    BY <1>1, <2>8, OtherCalm DEF Calms
  <2> QED
    BY <2>1, <2>2, <2>3, <2>4, <2>5, <2>6, <2>7, <2>8 DEF Next, Environment, Tailer
<1> QED
  BY <1>2, <1>3

(* However rotation, the reopening of nginx and the tailer's reads         *)
(* interleave, all that Ingest is given is a whole line, but for the rest  *)
(* of the one in whose middle the tailer joined: where no truncation finds *)
(* the tailer between two of its steps (ingress.Tail).                     *)
THEOREM OnlyWholeLinesCorrect ==
  Spec /\ [][Truncate => AtRest]_vars => []OnlyWholeLines
<1>1. Init => Calms
  BY InitLog, InitCalm DEF Calms
<1>2. Calms /\ [Next]_vars /\ [Truncate => AtRest]_vars => Calms'
  BY NextCalm DEF RestNext
<1>3. Calms => OnlyWholeLines
  BY DEF Calms
<1> QED
  BY <1>1, <1>2, <1>3, PTL DEF Spec

(* The steps of the run's specification are of that kind, and all steps    *)
(* are where nothing is truncated.                                         *)
LEMMA CalmNextRests ==
  ASSUME Log, CalmNext
  PROVE  RestNext
<1>1. Next
  BY DEF CalmNext, Next, Environment
<1>2. CASE Truncate
  <2>1. truncations' # truncations
    BY <1>2, LogTailAssumption DEF Truncate, Log, Types
  <2>2. ~Tailer /\ ~Write /\ ~Rotate /\ ~Create /\ ~Reopen /\ ~Grant
    BY <2>1 DEF Tailer, StartTail, StartFails, OpenAtEnd, Tick, ReadLine, ReadEOF, StatPath,
       Stay, OpenAgain, OpenAgainFails, log, Write, Rotate, Create, Reopen, Grant
  <2>3. AtRest
    BY <2>2 DEF CalmNext
  <2> QED
    BY <1>1, <2>3 DEF RestNext
<1> QED
  BY <1>1, <1>2 DEF RestNext

LEMMA NotTruncated ==
  ASSUME Log, MaxTruncations = 0, Next
  PROVE  RestNext
<1>1. ~Truncate
  <2>1. Truncate => truncations < 0 /\ truncations \in 0 .. 0
    BY DEF Truncate, Log, Types
  <2> QED
    BY <2>1
<1> QED
  BY <1>1 DEF RestNext

(* The same of the run's specification, whose truncations are seen in time *)
(* (ingress.Tail).                                                         *)
THEOREM OnlyWholeLinesCalm == CalmSpec => []OnlyWholeLines
<1>1. Init => Calms
  BY InitLog, InitCalm DEF Calms
<1>2. Calms /\ [CalmNext]_vars => Calms'
  BY NextCalm, CalmNextRests DEF Calms
<1>3. Calms => OnlyWholeLines
  BY DEF Calms
<1> QED
  BY <1>1, <1>2, <1>3, PTL DEF CalmSpec

(* The types hold there too, being those of Spec.                          *)
THEOREM LogTailTypeCalm == CalmSpec => []TypeInv
<1>1. Init => Log /\ Within
  BY InitLog, InitWithin
<1>2. Log /\ Within /\ [CalmNext]_vars => (Log /\ Within)'
  BY NextLog, NextWithin, CalmNextRests DEF RestNext
<1> QED
  BY <1>1, <1>2, WithinTyped, PTL DEF CalmSpec

(* A log that is never truncated needs no condition: with any number of    *)
(* rotations only whole lines are fed (ingress.Tail).                      *)
THEOREM OnlyWholeLinesUntruncated ==
  ASSUME MaxTruncations = 0
  PROVE  Spec => []OnlyWholeLines
<1>1. Init => Calms
  BY InitLog, InitCalm DEF Calms
<1>2. Calms /\ [Next]_vars => Calms'
  BY NextCalm, NotTruncated DEF Calms
<1>3. Calms => OnlyWholeLines
  BY DEF Calms
<1> QED
  BY <1>1, <1>2, <1>3, PTL DEF Spec

(* And the log that is opened again is not smaller than the one seen. *)
OnceNext == RestNext /\ (OpenAgain => fi.size <= Len(content[path]))

LEMMA InitOnce == Init => Sized /\ Fresh /\ FedOnce
<1>1. Init => f = None /\ pc = "down" /\ fed = <<>>
  BY DEF Init
<1> QED
  BY <1>1 DEF Sized, Fresh, FedOnce

(* Outside of a comparison, a file is emptied when that is still unseen. *)
LEMMA EmptiedUnseen ==
  /\ pc # "compare" => (Emptied <=> Unseen)
  /\ pc' # "compare" => (Emptied' <=> Unseen')
  BY DEF Emptied, Unseen

LEMMA WriteSized ==
  ASSUME Calms, Sized, Write
  PROVE  Sized' /\ (Emptied' => Emptied)
<1>1. UNCHANGED <<pc, f, off, size, fi, inodes>>
  BY DEF Write, tail
<1>2. Unseen' => Unseen
  BY WriteCalm DEF Calms
<1>3. Emptied' => Emptied
  BY <1>1, <1>2 DEF Emptied
<1>4. \A i \in Inode : /\ Len(content[i]) \in Nat /\ Len(content'[i]) \in Nat
                       /\ Len(content[i]) <= Len(content'[i])
  <2> SUFFICES ASSUME NEW i \in Inode
               PROVE  /\ Len(content[i]) \in Nat /\ Len(content'[i]) \in Nat
                      /\ Len(content[i]) <= Len(content'[i])
    OBVIOUS
  <2>1. Len(content[i]) \in Nat
    BY Smaller DEF Calms, Log
  <2>2. i # wfd => content'[i] = content[i]
    BY Writes DEF Calms, Log
  <2>3. Len(content'[wfd]) = Len(content[wfd]) + 1
    BY Writes DEF Calms, Log
  <2> QED
    BY <2>1, <2>2, <2>3
<1>5. f # None /\ ~Emptied' => size <= Len(content'[f])
  <2> SUFFICES ASSUME f # None, ~Emptied'
               PROVE  size <= Len(content'[f])
    OBVIOUS
  <2>1. f \in Inode /\ size \in Nat /\ off \in Nat
    BY DEF Calms, Log, Types
  <2>2. CASE Emptied
    <3>1. Unseen /\ ~Unseen'
      BY <1>1, <2>2 DEF Emptied
    <3>2. off = size
      BY <3>1 DEF Calms, Waits
    <3>3. ~(off > Len(content'[f]))
      BY <1>1, <3>1 DEF Unseen
    <3> QED
      BY <1>4, <2>1, <3>2, <3>3
  <2>3. CASE ~Emptied
    BY <1>4, <2>1, <2>3 DEF Sized
  <2> QED
    BY <2>2, <2>3
<1>6. pc = "compare" => fi.size <= Len(content'[fi.inode])
  <2>1. fi \in [inode : Inode \cup {None}, size : Nat]
    BY DEF Calms, Log, Types
  <2>2. fi.size \in Nat /\ (fi.inode # None => fi.inode \in Inode)
    BY <2>1
  <2> QED
    BY <1>4, <2>2 DEF Sized
<1> QED
  BY <1>1, <1>3, <1>5, <1>6 DEF Sized

LEMMA WritePast ==
  ASSUME Calms, Sized, Write, NEW x \in Nat, Past(x)
  PROVE  Past(x)'
<1>1. UNCHANGED <<f, off, partial, inodes>> /\ written' = written + 1 /\ written \in Nat
  BY Writes DEF Write, tail, Calms, Log, Types
<1>2. Emptied' => Emptied
  BY WriteSized
<1>3. /\ \A i \in Inode : i # wfd => content'[i] = content[i]
      /\ Len(content'[wfd]) = Len(content[wfd]) + 1
      /\ \A k \in 1 .. Len(content[wfd]) : content'[wfd][k] = content[wfd][k]
      /\ content'[wfd][Len(content[wfd]) + 1] = written + 1
  BY Writes DEF Calms, Log
<1>4. x <= written
  BY DEF Past
<1>5. \A i \in Inode : \A k \in 1 .. Len(content'[i]) : Unread(i, k)' => x < content'[i][k]
  <2> SUFFICES ASSUME NEW i \in Inode, NEW k \in 1 .. Len(content'[i]), Unread(i, k)'
               PROVE  x < content'[i][k]
    OBVIOUS
  <2>1. Unread(i, k)
    BY <1>1, <1>2 DEF Unread
  <2>2. Len(content[i]) \in Nat
    BY Smaller DEF Calms, Log
  <2>3. CASE k \in 1 .. Len(content[i])
    BY <1>3, <2>1, <2>3 DEF Past
  <2>4. CASE k \notin 1 .. Len(content[i])
    <3>1. i = wfd /\ k = Len(content[wfd]) + 1
      BY <1>3, <2>2, <2>4
    <3> QED
      BY <1>1, <1>3, <1>4, <3>1
  <2> QED
    BY <2>3, <2>4
<1> QED
  BY <1>1, <1>4, <1>5 DEF Past

LEMMA TruncateSized ==
  ASSUME Calms, Sized, Truncate, AtRest
  PROVE  Sized'
<1>1. UNCHANGED <<pc, f, off, size, fi, inodes>> /\ path \in Inode /\ content[path] # <<>>
  BY DEF Truncate, tail, Calms, Log, Types
<1>2. pc = "wait" /\ f = path /\ off = Len(content[path])
  BY DEF AtRest
<1>3. Len(content'[path]) = 0 /\ off > 0
  <2>1. content'[path] = <<>>
    BY TruncateLog DEF Calms
  <2> QED
    BY <1>1, <1>2, <2>1, Smaller DEF Calms, Log
<1>4. f # None
  BY <1>1, <1>2, Smaller DEF Calms, Log
<1>5. Unseen'
  BY <1>1, <1>2, <1>3, <1>4 DEF Unseen
<1>6. Emptied'
  BY <1>1, <1>4, <1>5 DEF Emptied
<1> QED
  BY <1>1, <1>2, <1>6 DEF Sized

LEMMA TruncatePast ==
  ASSUME Calms, Sized, Truncate, AtRest, NEW x \in Nat, Past(x)
  PROVE  Past(x)'
<1>1. UNCHANGED <<f, off, partial, inodes, written>> /\ f = path
  BY DEF Truncate, tail, AtRest
<1>2. content'[path] = <<>> /\ \A i \in Inode : i # path => content'[i] = content[i]
  BY TruncateLog DEF Calms
<1>3. \A i \in Inode : i # f => \A k \in 1 .. Len(content'[i]) : Unread(i, k)' => Unread(i, k)
  BY <1>1 DEF Unread
<1> QED
  BY <1>1, <1>2, <1>3 DEF Past

(* Steps after which no more is unread, and what is held is unchanged. *)
LEMMA LessUnread ==
  ASSUME NEW x \in Nat, Past(x), UNCHANGED <<content, written, partial>>,
         \A i \in Inode : \A k \in 1 .. Len(content[i]) : Unread(i, k)' => Unread(i, k)
  PROVE  Past(x)'
  BY DEF Past

LEMMA EnvironmentOnce ==
  ASSUME Calms, Sized, Rotate \/ Create \/ Reopen \/ Grant
  PROVE  /\ Sized' /\ UNCHANGED <<content, written, tail>>
         /\ \A x \in Nat : Past(x) => Past(x)'
<1>1. UNCHANGED <<content, written, tail>> /\ (inodes' = inodes \/ inodes' = inodes + 1)
  BY EnvironmentLog DEF Rotate, Create, Reopen, Grant, Calms
<1>2. UNCHANGED <<pc, f, off, size, partial, fi>>
  BY <1>1 DEF tail
<1>3. Emptied' <=> Emptied
  BY <1>1, <1>2 DEF Emptied, Unseen
<1>4. /\ inodes \in Nat /\ f \in Nat /\ fi.inode \in Nat
      /\ \A i \in Inode : i \in Nat
  <2>1. fi \in [inode : Inode \cup {None}, size : Nat] /\ f \in Inode \cup {None}
    BY DEF Calms, Log, Types
  <2>2. Inode \subseteq Nat /\ None \in Nat
    BY DEF Inode, None
  <2> QED
    BY <2>1, <2>2 DEF Calms, Log, Types
<1>5. f <= inodes => f <= inodes'
  BY <1>1, <1>4
<1>6. fi.inode <= inodes => fi.inode <= inodes'
  BY <1>1, <1>4
<1>7. Sized'
  BY <1>1, <1>2, <1>3, <1>5, <1>6 DEF Sized
<1>8. \A i \in Inode : i >= inodes' => i >= inodes
  BY <1>1, <1>4
<1>9. \A i \in Inode : \A k \in 1 .. Len(content[i]) : Unread(i, k)' => Unread(i, k)
  BY <1>2, <1>3, <1>8 DEF Unread
<1> QED
  BY <1>1, <1>2, <1>7, <1>9, LessUnread

LEMMA OpenAtEndOnce ==
  ASSUME Calms, Sized, OpenAtEnd
  PROVE  Sized' /\ Past(joined.at)' /\ fed' = <<>>
<1>1. /\ pc = "opening" /\ path \in Inode /\ path = inodes /\ path # None
      /\ f' = path /\ off' = Len(content[path]) /\ size' = Len(content[path])
      /\ partial' = <<>> /\ joined' = [inode |-> path, at |-> written]
      /\ pc' = "wait" /\ UNCHANGED <<content, path, inodes, written, fed>>
  BY DEF OpenAtEnd, CanOpen, log, Calms, Log, Types, Files
<1>2. fed = <<>>
  BY <1>1 DEF Calms, Reads
<1>3. ~Emptied'
  BY <1>1, OpenAtEndCalm, EmptiedUnseen DEF Calms
<1>4. Len(content[path]) \in Nat /\ inodes \in Nat /\ written \in Nat
  BY <1>1, Smaller DEF Calms, Log
<1>5. Sized'
  BY <1>1, <1>4 DEF Sized
<1>6. \A i \in Inode : \A k \in 1 .. Len(content[i]) : ~Unread(i, k)'
  <2> SUFFICES ASSUME NEW i \in Inode, NEW k \in 1 .. Len(content[i]), Unread(i, k)'
               PROVE  FALSE
    OBVIOUS
  <2>1. i > path \/ (i = path /\ k > Len(content[path]))
    BY <1>1, <1>3 DEF Unread
  <2>2. i > path
    BY <1>4, <2>1
  <2>3. i > wfd
    BY <1>1, <2>2, Smaller DEF Calms, Log, Files
  <2>4. content[i] = <<>>
    BY <2>3 DEF Calms, Log, Files
  <2> QED
    BY <2>4
<1>7. Past(joined.at)'
  BY <1>1, <1>4, <1>6 DEF Past
<1> QED
  BY <1>1, <1>2, <1>5, <1>7

LEMMA QuietOnce ==
  ASSUME Calms, Sized, StartTail \/ StartFails \/ Tick \/ StatPath \/ Stay
  PROVE  /\ Sized' /\ UNCHANGED <<content, written, fed, joined>>
         /\ \A x \in Nat : Past(x) => Past(x)'
<1>1. UNCHANGED <<content, written, inodes, f, off, partial, fed, joined>>
  BY DEF StartTail, StartFails, Tick, StatPath, Stay, log
<1>2. Unseen' <=> Unseen
  BY <1>1 DEF Unseen
<1>3. SUFFICES Sized' /\ (Emptied' => Emptied)
  <2>1. (Emptied' => Emptied) =>
          \A i \in Inode : \A k \in 1 .. Len(content[i]) : Unread(i, k)' => Unread(i, k)
    BY <1>1 DEF Unread
  <2> QED
    BY <1>1, <2>1, LessUnread
<1>4. CASE StartTail \/ StartFails
  <2>1. f = None /\ pc' \in {"down", "opening"}
    BY <1>4 DEF StartTail, StartFails, Calms, Reads
  <2> QED
    BY <1>1, <2>1 DEF Sized, Emptied
<1>5. CASE Tick
  <2>1. pc = "wait" /\ pc' = "read" /\ size' = size
    BY <1>5 DEF Tick
  <2>2. Emptied' <=> Emptied
    BY <1>2, <2>1, EmptiedUnseen
  <2> QED
    BY <1>1, <2>1, <2>2 DEF Sized
<1>6. CASE StatPath
  <2>1. pc = "stat" /\ size' = size
    BY <1>6 DEF StatPath
  <2>2. Emptied <=> Unseen
    BY <2>1, EmptiedUnseen
  <2>3. CASE path = None
    <3>1. pc' = "wait"
      BY <1>6, <2>3 DEF StatPath
    <3>2. Emptied' <=> Emptied
      BY <1>2, <2>2, <3>1, EmptiedUnseen
    <3> QED
      BY <1>1, <2>1, <3>1, <3>2 DEF Sized
  <2>4. CASE path # None
    <3>1. /\ pc' = "compare" /\ fi' = [inode |-> path, size |-> Len(content[path])]
          /\ path \in Inode /\ path = inodes
      BY <1>6, <2>4 DEF StatPath, Calms, Log, Types, Files
    <3>2. fi'.inode = path /\ fi'.size = Len(content[path])
      BY <3>1
    <3>3. Len(content[path]) \in Nat /\ size \in Nat /\ inodes \in Nat
      BY <3>1, Smaller DEF Calms, Log, Types
    <3>4. Emptied' => Emptied
      <4> SUFFICES ASSUME f # None, f = path, Len(content[path]) < size
                   PROVE  Emptied
        BY <1>1, <1>2, <2>1, <2>2, <3>2 DEF Emptied
      <4> QED
        BY <3>3 DEF Sized
    <3>5. Emptied => Emptied'
      BY <1>1, <1>2, <2>2 DEF Emptied
    <3>6. f <= inodes
      <4>1. f = None => f <= inodes
        BY <3>3 DEF None
      <4> QED
        BY <4>1 DEF Sized
    <3>7. inodes <= inodes /\ Len(content[path]) <= Len(content[path])
      BY <3>3
    <3> QED
      BY <1>1, <2>1, <2>4, <3>1, <3>2, <3>4, <3>5, <3>6, <3>7 DEF Sized
  <2> QED
    BY <2>3, <2>4
<1>7. CASE Stay
  <2>1. pc = "compare" /\ ~Moved /\ pc' = "wait" /\ size' = fi.size
    BY <1>7 DEF Stay, KeepSize
  <2>2. f = fi.inode /\ ~Unseen
    BY <2>1 DEF Moved, Calms, Waits
  <2>3. ~Emptied'
    BY <1>2, <2>1, <2>2, EmptiedUnseen
  <2>4. fi.size <= Len(content[fi.inode])
    BY <2>1 DEF Sized
  <2> QED
    BY <1>1, <2>1, <2>2, <2>3, <2>4 DEF Sized
<1> QED
  BY <1>4, <1>5, <1>6, <1>7

LEMMA ReopenOnce ==
  ASSUME Calms, Sized, (OpenAgain /\ fi.size <= Len(content[path])) \/ OpenAgainFails
  PROVE  /\ Sized' /\ UNCHANGED <<content, written, fed, joined>>
         /\ \A x \in Nat : Past(x) => Past(x)'
<1>1. /\ pc = "compare" /\ Moved /\ pc' = "wait" /\ off' = 0 /\ partial' = <<>>
      /\ size' = fi.size /\ UNCHANGED <<content, written, inodes, fed, joined>>
  BY DEF OpenAgain, OpenAgainFails, KeepSize, log
<1>2. /\ f \in Inode \cup {None} /\ inodes \in Inode /\ size \in Nat
      /\ fi \in [inode : Inode \cup {None}, size : Nat]
  BY DEF Calms, Log, Types
<1>3. /\ Inode \subseteq Nat \ {0} /\ None = 0 /\ fi.inode \in Nat /\ fi.size \in Nat
      /\ f \in Nat /\ inodes \in Nat
  BY <1>2, LogTailAssumption DEF Inode, None
<1>4. fi.inode # None /\ f <= fi.inode /\ fi.inode <= inodes
  BY <1>1 DEF Sized
<1>5. f # None /\ f = fi.inode => Emptied
  BY <1>1 DEF Moved, Emptied
(* All that a file opened by now holds is unread already. *)
<1>6. \A i \in Inode : \A k \in 1 .. Len(content[i]) : i >= fi.inode /\ f # None => Unread(i, k)
  <2> SUFFICES ASSUME NEW i \in Inode, NEW k \in 1 .. Len(content[i]), i >= fi.inode, f # None
               PROVE  Unread(i, k)
    OBVIOUS
  <2>1. i \in Nat
    BY <1>3
  <2>2. i > f \/ (i = f /\ f = fi.inode)
    BY <1>3, <1>4, <2>1
  <2> QED
    BY <1>5, <2>2 DEF Unread
<1>7. CASE OpenAgain /\ fi.size <= Len(content[path])
  <2>1. f' = path /\ path \in Inode /\ path = inodes /\ path # None
    BY <1>7 DEF OpenAgain, CanOpen, Calms, Log, Types, Files
  <2>2. Len(content[path]) \in Nat
    BY <2>1, Smaller DEF Calms, Log
  <2>3. ~Emptied'
    BY <1>1, <2>1, <2>2 DEF Emptied, Unseen
  <2>4. Sized'
    BY <1>1, <1>3, <1>7, <2>1 DEF Sized
  <2>5. \A i \in Inode : \A k \in 1 .. Len(content[i]) : Unread(i, k)' => Unread(i, k)
    <3> SUFFICES ASSUME NEW i \in Inode, NEW k \in 1 .. Len(content[i]), Unread(i, k)'
                 PROVE  Unread(i, k)
      OBVIOUS
    <3>1. i >= path
      BY <1>3, <2>1, <2>3 DEF Unread
    <3>2. i >= fi.inode
      BY <1>3, <1>4, <2>1, <3>1
    <3> QED
      BY <1>6, <2>1, <3>1, <3>2 DEF Unread
  <2> QED
    BY <1>1, <2>4, <2>5 DEF Past
<1>8. CASE OpenAgainFails
  <2>1. f' = None
    BY <1>8 DEF OpenAgainFails
  <2>2. Sized'
    BY <1>1, <2>1 DEF Sized
  <2>3. \A i \in Inode : \A k \in 1 .. Len(content[i]) : Unread(i, k)' => Unread(i, k)
    <3> SUFFICES ASSUME NEW i \in Inode, NEW k \in 1 .. Len(content[i]), Unread(i, k)'
                 PROVE  Unread(i, k)
      OBVIOUS
    <3>1. i >= inodes
      BY <1>1, <2>1 DEF Unread
    <3>2. i >= fi.inode
      BY <1>3, <1>4, <3>1
    <3> QED
      BY <1>6, <3>1, <3>2 DEF Unread
  <2> QED
    BY <1>1, <2>2, <2>3 DEF Past
<1> QED
  BY <1>7, <1>8

LEMMA ReadEOFOnce ==
  ASSUME Calms, Sized, ReadEOF
  PROVE  /\ Sized' /\ UNCHANGED <<content, written, fed, joined>>
         /\ \A x \in Nat : Past(x) => Past(x)'
<1>1. /\ UNCHANGED <<content, written, inodes, f, size, fed, joined>>
      /\ pc = "read" /\ pc' = "stat"
  BY DEF ReadEOF, log
<1>2. Emptied' <=> Emptied
  BY <1>1, ReadEOFCalm, EmptiedUnseen DEF Calms
<1>3. Sized'
  BY <1>1, <1>2 DEF Sized
<1>4. CASE partial' = partial /\ off' = off
  BY <1>1, <1>2, <1>3, <1>4, LessUnread DEF Unread
<1>5. CASE HalfRead
  <2>1. /\ f \in Inode /\ off \in Nat /\ off' = off + 1 /\ off + 1 = Len(content[f])
        /\ partial' = <<content[f][off + 1]>> /\ Len(content[f]) \in Nat
    BY <1>5, Smaller DEF HalfRead, Calms, Log, Types
  <2>2. f # None /\ off + 1 \in 1 .. Len(content[f])
    BY <2>1 DEF Inode, None
  <2>3. Unread(f, off + 1)
    BY <2>1, <2>2 DEF Unread
  <2>4. \A x \in Nat : Past(x) => x < content[f][off + 1]
    BY <2>1, <2>2, <2>3 DEF Past
  <2>5. partial'[1] = content[f][off + 1]
    BY <2>1
  <2>6. \A i \in Inode : \A k \in 1 .. Len(content[i]) : Unread(i, k)' => Unread(i, k)
    BY <1>1, <1>2, <2>1 DEF Unread
  <2> QED
    BY <1>1, <1>3, <2>4, <2>5, <2>6 DEF Past
<1> QED
  BY <1>4, <1>5, ReadEOFCalm, ReadsEOF DEF Calms

(* The first half of what a call hands over: behind all handed over        *)
(* before, and before all that is left to read.                            *)
LEMMA ReadLineOnce ==
  ASSUME Calms, Sized, ReadLine
  PROVE  /\ Sized' /\ UNCHANGED <<content, written, joined>>
         /\ \A x \in Nat : Past(x) => Past(x)'
         /\ \E y \in Nat : \E item \in Seq(Half) :
              /\ fed' = Append(fed, item) /\ item[1] = y /\ Past(y)'
              /\ \A x \in Nat : Past(x) => x < y
<1>1. /\ f \in Inode /\ off < Len(content[f]) /\ partial' = <<>> /\ LineRead
      /\ UNCHANGED <<content, written, inodes, pc, f, size, fi, joined>> /\ pc = "read"
  BY ReadsLine DEF ReadLine, log, Calms
<1>2. ~Emptied /\ ~Emptied'
  BY <1>1, ReadLineCalm, EmptiedUnseen DEF Calms
<1>3. Sized'
  BY <1>1, <1>2 DEF Sized
<1>4. /\ f # None /\ off \in Nat /\ Len(content[f]) \in Nat /\ content[f] \in Seq(Half)
      /\ off + 1 \in 1 .. Len(content[f])
  BY <1>1, Smaller DEF Calms, Log, Types
<1>5. off' \in Nat /\ off' > off
  <2>1. off' = off + 1 \/ off' = off + 2
    BY <1>1 DEF LineRead
  <2> QED
    BY <1>4, <2>1
<1>6. \A i \in Inode : \A k \in 1 .. Len(content[i]) : Unread(i, k)' => Unread(i, k)
  BY <1>1, <1>2, <1>4, <1>5 DEF Unread
<1>7. \A x \in Nat : Past(x) => Past(x)'
  BY <1>1, <1>6 DEF Past
<1>8. Unread(f, off + 1)
  BY <1>1, <1>4 DEF Unread
(* Each half up to the new offset is older than all that is still unread. *)
<1>9. ASSUME NEW m \in 1 .. Len(content[f]), m <= off'
      PROVE  \E y \in Nat : y = content[f][m] /\ Past(y)'
  <2>1. PICK y \in Nat : y = content[f][m]
    BY <1>1, Smaller DEF Calms, Log
  <2>2. y <= written
    BY <1>1, <2>1 DEF Calms, Log, Numbered
  <2>3. \A i \in Inode : \A k \in 1 .. Len(content[i]) : Unread(i, k)' => y < content[i][k]
    <3> SUFFICES ASSUME NEW i \in Inode, NEW k \in 1 .. Len(content[i]), Unread(i, k)'
                 PROVE  y < content[i][k]
      OBVIOUS
    <3>1. f < i \/ (i = f /\ k > off')
      BY <1>1, <1>2, <1>4, Smaller DEF Unread, Calms, Log
    <3>2. CASE f < i
      BY <1>1, <2>1, <3>2 DEF Calms, Log, Numbered
    <3>3. CASE i = f /\ k > off'
      <4>1. content[f][m] + k = content[f][k] + m /\ content[f][k] \in Nat
        BY <1>1, <3>3, Smaller DEF Calms, Log, Numbered
      <4>2. PICK z \in Nat, n \in Nat : z = content[f][k] /\ n = off'
        BY <1>5, <4>1
      <4>3. y + k = z + m /\ m <= n /\ n < k
        BY <2>1, <3>3, <4>1, <4>2, <1>9
      <4>4. y < z
        BY <4>3
      <4> QED
        BY <3>3, <4>2, <4>4
    <3> QED
      BY <3>1, <3>2, <3>3
  <2>4. Past(y)'
    BY <1>1, <2>2, <2>3 DEF Past
  <2> QED
    BY <1>1, <2>1, <2>4
<1>10. \A x \in Nat : Past(x) => x < content[f][off + 1]
  BY <1>1, <1>4, <1>8 DEF Past
<1>11. PICK y \in Nat : y = content[f][off + 1] /\ Past(y)'
  <2>1. off + 1 <= off'
    BY <1>4, <1>5
  <2> QED
    BY <1>4, <1>9, <2>1
<1>12. content[f][off + 1] \in Half
  BY <1>4, ElementOfSeq
<1>13. CASE off % 2 = 0
  <2>1. /\ off + 2 <= Len(content[f])
        /\ fed' = Append(fed, <<content[f][off + 1], content[f][off + 2]>>)
    BY <1>1, <1>13 DEF LineRead
  <2>2. off + 2 \in 1 .. Len(content[f])
    BY <1>4, <2>1
  <2>3. content[f][off + 2] \in Half
    BY <1>4, <2>2, ElementOfSeq
  <2>4. /\ <<content[f][off + 1], content[f][off + 2]>> \in Seq(Half)
        /\ <<content[f][off + 1], content[f][off + 2]>>[1] = content[f][off + 1]
    BY <1>12, <2>3, Halves
  <2> QED
    <3>1. \A x \in Nat : Past(x) => x < y
      BY <1>10, <1>11
    <3> QED
      BY <1>1, <1>3, <1>7, <1>11, <2>1, <2>4, <3>1
<1>14. CASE off % 2 = 1 /\ partial = <<>>
  <2>1. fed' = Append(fed, <<content[f][off + 1]>>)
    BY <1>1, <1>14 DEF LineRead
  <2>2. <<content[f][off + 1]>> \in Seq(Half) /\ <<content[f][off + 1]>>[1] = content[f][off + 1]
    BY <1>12, Halves
  <2> QED
    <3>1. \A x \in Nat : Past(x) => x < y
      BY <1>10, <1>11
    <3> QED
      BY <1>1, <1>3, <1>7, <1>11, <2>1, <2>2, <3>1
<1>15. CASE off % 2 = 1 /\ partial # <<>>
  <2>1. fed' = Append(fed, <<partial[1], content[f][off + 1]>>)
    BY <1>1, <1>15 DEF LineRead
  <2>2. partial[1] = content[f][off]
    BY <1>15 DEF Calms, Reads
  <2>3. off \in 1 .. Len(content[f]) /\ off <= off'
    BY <1>1, <1>4, <1>5, <1>15
  <2>4. PICK h \in Nat : h = content[f][off] /\ Past(h)'
    BY <1>9, <2>3
  <2>5. content[f][off] \in Half
    BY <1>4, <2>3, ElementOfSeq
  <2>6. \A x \in Nat : Past(x) => x < content[f][off]
    BY <1>15, <2>2 DEF Past
  <2>7. /\ <<partial[1], content[f][off + 1]>> \in Seq(Half)
        /\ <<partial[1], content[f][off + 1]>>[1] = content[f][off]
    BY <1>12, <2>2, <2>5, Halves
  <2> QED
    <3>1. \A x \in Nat : Past(x) => x < h
      BY <2>4, <2>6
    <3> QED
      BY <1>1, <1>3, <1>7, <2>1, <2>4, <2>7, <3>1
<1> QED
  BY <1>4, <1>13, <1>14, <1>15, Alternates

LEMMA FirstsNumbers ==
  ASSUME Calms
  PROVE  joined.at \in Nat /\ \A i \in DOMAIN fed : fed[i][1] \in Nat
<1>1. joined \in [inode : Inode \cup {None}, at : Nat]
  BY DEF Calms, Log, Types
<1>2. joined.at \in Nat
  BY <1>1
<1>3. ASSUME NEW i \in DOMAIN fed
      PROVE  fed[i][1] \in Nat
  <2>1. CASE fed[i] = <<joined.at + 1>>
    BY <1>2, <2>1
  <2>2. CASE \E n \in Line : fed[i] = Whole(n)
    <3>1. PICK n \in Line : fed[i] = <<2 * n - 1, 2 * n>>
      BY <2>2 DEF Whole
    <3>2. n \in Nat \ {0}
      BY LogTailAssumption DEF Line
    <3> QED
      BY <3>1, <3>2
  <2> QED
    BY <2>1, <2>2 DEF Calms, OnlyWholeLines
<1> QED
  BY <1>2, <1>3

LEMMA FreshKept ==
  ASSUME Calms, Fresh, FedOnce, UNCHANGED <<fed, joined>>,
         \A x \in Nat : Past(x) => Past(x)',
         pc' \notin {"down", "opening"} => pc \notin {"down", "opening"}
  PROVE  Fresh' /\ FedOnce'
<1>1. FedOnce'
  BY DEF FedOnce
<1>2. ASSUME pc' \notin {"down", "opening"}
      PROVE  Past(joined.at)' /\ \A i \in DOMAIN fed' : Past(fed[i][1])'
  <2>1. PICK x \in Nat : x = joined.at
    BY FirstsNumbers
  <2>2. Past(x)'
    BY <1>2, <2>1 DEF Fresh
  <2>3. Past(joined.at)'
    BY <2>1, <2>2 DEF Past
  <2>4. ASSUME NEW i \in DOMAIN fed'
        PROVE  Past(fed[i][1])'
    <3>1. PICK y \in Nat : y = fed[i][1]
      BY FirstsNumbers
    <3>2. Past(y)'
      BY <1>2, <3>1 DEF Fresh
    <3> QED
      BY <3>1, <3>2 DEF Past
  <2> QED
    BY <2>3, <2>4
<1>3. Fresh'
  BY <1>2 DEF Fresh
<1> QED
  BY <1>1, <1>3

LEMMA ReadLineFresh ==
  ASSUME Calms, Sized, Fresh, FedOnce, ReadLine
  PROVE  Fresh' /\ FedOnce'
<1>1. PICK y \in Nat : \E item \in Seq(Half) :
              /\ fed' = Append(fed, item) /\ item[1] = y /\ Past(y)'
              /\ \A x \in Nat : Past(x) => x < y
  BY ReadLineOnce
<1>2. PICK item \in Seq(Half) :
              /\ fed' = Append(fed, item) /\ item[1] = y /\ Past(y)'
              /\ \A x \in Nat : Past(x) => x < y
  BY <1>1
<1>3. /\ \A x \in Nat : Past(x) => Past(x)'
      /\ UNCHANGED joined /\ pc = "read"
  BY ReadLineOnce DEF ReadLine
<1>4. fed \in Seq(Seq(Half)) /\ Len(fed) \in Nat
  BY DEF Calms, Log, Types
<1>5. /\ DOMAIN fed = 1 .. Len(fed) /\ DOMAIN fed' = 1 .. Len(fed) + 1
      /\ fed'[Len(fed) + 1] = item /\ \A i \in 1 .. Len(fed) : fed'[i] = fed[i]
  BY <1>2, <1>4
<1>6. joined.at \in Nat /\ Past(joined.at)
  BY <1>3, FirstsNumbers DEF Fresh
<1>7. \A i \in 1 .. Len(fed) : fed[i][1] \in Nat /\ Past(fed[i][1])
  BY <1>3, <1>5, FirstsNumbers DEF Fresh
<1>8. /\ \A i \in 1 .. Len(fed) : fed[i][1] < y
      /\ joined.at < y
  BY <1>2, <1>6, <1>7
<1>9. FedOnce'
  <2>1. \A i, j \in 1 .. Len(fed) + 1 : i < j => fed'[i][1] < fed'[j][1]
    <3> SUFFICES ASSUME NEW i \in 1 .. Len(fed) + 1, NEW j \in 1 .. Len(fed) + 1, i < j
                 PROVE  fed'[i][1] < fed'[j][1]
      OBVIOUS
    <3>1. i \in 1 .. Len(fed)
      BY <1>4
    <3>2. CASE j = Len(fed) + 1
      BY <1>2, <1>5, <1>8, <3>1, <3>2
    <3>3. CASE j \in 1 .. Len(fed)
      BY <1>5, <3>1, <3>3 DEF FedOnce
    <3> QED
      BY <1>4, <3>2, <3>3
  <2>2. \A i \in 1 .. Len(fed) + 1 : fed'[i][1] > joined.at
    <3> SUFFICES ASSUME NEW i \in 1 .. Len(fed) + 1
                 PROVE  fed'[i][1] > joined.at
      OBVIOUS
    <3>1. CASE i = Len(fed) + 1
      BY <1>2, <1>5, <1>6, <1>8, <3>1
    <3>2. CASE i \in 1 .. Len(fed)
      BY <1>5, <3>2 DEF FedOnce
    <3> QED
      BY <1>4, <3>1, <3>2
  <2> QED
    BY <1>3, <1>5, <2>1, <2>2 DEF FedOnce
<1>10. Past(joined.at)'
  <2>1. PICK x \in Nat : x = joined.at
    BY <1>6
  <2>2. Past(x)'
    BY <1>3, <1>6, <2>1
  <2> QED
    BY <1>3, <2>1, <2>2 DEF Past
<1>11. ASSUME NEW i \in DOMAIN fed'
       PROVE  Past(fed[i][1])'
  <2>1. PICK x \in Nat : x = fed'[i][1] /\ Past(x)'
    <3>1. CASE i = Len(fed) + 1
      BY <1>2, <1>5, <3>1
    <3>2. CASE i \in 1 .. Len(fed)
      <4>1. PICK x \in Nat : x = fed[i][1]
        BY <1>7, <3>2
      <4>2. Past(x)'
        BY <1>3, <1>7, <3>2, <4>1
      <4> QED
        BY <1>5, <3>2, <4>1, <4>2
    <3> QED
      BY <1>4, <1>5, <3>1, <3>2
  <2> QED
    BY <2>1 DEF Past
<1> QED
  BY <1>9, <1>10, <1>11 DEF Fresh

Once == Calms /\ Sized /\ Fresh /\ FedOnce

LEMMA NextOnce == Once /\ [OnceNext]_vars => Once'
<1> SUFFICES ASSUME Once, [OnceNext]_vars
             PROVE  Once'
  OBVIOUS
<1>1. Calms /\ Sized /\ Fresh /\ FedOnce
  BY DEF Once
<1>2. Calms'
  BY <1>1, NextCalm DEF OnceNext
<1>3. SUFFICES Sized' /\ Fresh' /\ FedOnce'
  BY <1>2 DEF Once
<1>4. CASE UNCHANGED vars
  <2>1. UNCHANGED <<content, inodes, written, pc, f, off, size, partial, fi, fed, joined>>
    BY <1>4 DEF vars, log, tail
  <2>2. Emptied' <=> Emptied
    BY <2>1 DEF Emptied, Unseen
  <2>3. Sized'
    BY <1>1, <2>1, <2>2 DEF Sized
  <2>4. \A x \in Nat : Past(x) => Past(x)'
    BY <2>1, <2>2 DEF Past, Unread
  <2> QED
    BY <1>1, <2>1, <2>3, <2>4, FreshKept
<1>5. CASE OnceNext
  <2>1. Next /\ (Truncate => AtRest) /\ (OpenAgain => fi.size <= Len(content[path]))
    BY <1>5 DEF OnceNext, RestNext
  <2>2. CASE Write
    <3>1. UNCHANGED <<pc, fed, joined>>
      BY <2>2 DEF Write, tail
    <3> QED
      BY <1>1, <2>2, <3>1, WriteSized, WritePast, FreshKept
  <2>3. CASE Truncate
    <3>1. UNCHANGED <<pc, fed, joined>>
      BY <2>3 DEF Truncate, tail
    <3> QED
      BY <1>1, <2>1, <2>3, <3>1, TruncateSized, TruncatePast, FreshKept
  <2>4. CASE Rotate \/ Create \/ Reopen \/ Grant
    <3>1. UNCHANGED <<pc, fed, joined>>
      BY <1>1, <2>4, EnvironmentOnce DEF tail
    <3> QED
      BY <1>1, <2>4, <3>1, EnvironmentOnce, FreshKept
  <2>5. CASE OpenAtEnd
    <3>1. Sized' /\ Past(joined.at)' /\ fed' = <<>>
      BY <1>1, <2>5, OpenAtEndOnce
    <3> QED
      BY <3>1 DEF Fresh, FedOnce
  <2>6. CASE StartTail \/ StartFails
    <3>1. /\ Sized' /\ UNCHANGED <<fed, joined>> /\ \A x \in Nat : Past(x) => Past(x)'
      BY <1>1, <2>6, QuietOnce
    <3>2. pc' \in {"down", "opening"}
      BY <2>6 DEF StartTail, StartFails
    <3> QED
      BY <1>1, <3>1, <3>2, FreshKept
  <2>7. CASE Tick \/ StatPath \/ Stay
    <3>1. /\ Sized' /\ UNCHANGED <<fed, joined>> /\ \A x \in Nat : Past(x) => Past(x)'
      BY <1>1, <2>7, QuietOnce
    <3>2. pc \notin {"down", "opening"}
      BY <2>7 DEF Tick, StatPath, Stay
    <3> QED
      BY <1>1, <3>1, <3>2, FreshKept
  <2>8. CASE ReadLine
    BY <1>1, <2>8, ReadLineOnce, ReadLineFresh
  <2>9. CASE ReadEOF
    <3>1. pc \notin {"down", "opening"}
      BY <2>9 DEF ReadEOF
    <3> QED
      BY <1>1, <2>9, <3>1, ReadEOFOnce, FreshKept
  <2>10. CASE OpenAgain \/ OpenAgainFails
    <3>1. pc \notin {"down", "opening"}
      BY <2>10 DEF OpenAgain, OpenAgainFails
    <3> QED
      BY <1>1, <2>1, <2>10, <3>1, ReopenOnce, FreshKept
  <2> QED
    BY <2>1, <2>2, <2>3, <2>4, <2>5, <2>6, <2>7, <2>8, <2>9, <2>10
       DEF Next, Environment, Tailer
<1> QED
  BY <1>4, <1>5

(* No line is counted twice, out of order or from before the tailer        *)
(* joined, with any number of rotations and truncations, when a truncation *)
(* finds the tailer at rest and the log that open(false) opens is not      *)
(* smaller than the size that is kept for it (ingress.Tail).               *)
THEOREM FedOnceCorrect ==
  Spec /\ [][Truncate => AtRest]_vars
       /\ [][OpenAgain => fi.size <= Len(content[path])]_vars => []FedOnce
<1>1. Init => Once
  BY InitLog, InitCalm, InitOnce DEF Once, Calms
<1>2. Once /\ [Next]_vars /\ [Truncate => AtRest]_vars
           /\ [OpenAgain => fi.size <= Len(content[path])]_vars => Once'
  BY NextOnce DEF OnceNext, RestNext
<1>3. Once => FedOnce
  BY DEF Once
<1> QED
  BY <1>1, <1>2, <1>3, PTL DEF Spec

(* Between the look and the comparison of CalmSpec, the log may go, and    *)
(* another appear only when there was nothing in the one that was seen.    *)
Pending == pc = "compare" => path = None \/ path = fi.inode \/ fi.size = 0

LEMMA CalmPending ==
  ASSUME Log, Pending, [CalmNext]_vars
  PROVE  Pending'
<1>1. CASE UNCHANGED vars
  BY <1>1 DEF Pending, vars, log, tail
<1>2. CASE Tailer
  BY <1>2 DEF Pending, Tailer, StartTail, StartFails, OpenAtEnd, Tick, ReadLine, ReadEOF,
     StatPath, Stay, OpenAgain, OpenAgainFails, log
<1>3. CASE Write \/ Truncate \/ Reopen \/ Grant
  BY <1>3 DEF Pending, Write, Truncate, Reopen, Grant, tail
<1>4. CASE Rotate
  BY <1>4 DEF Pending, Rotate
<1>5. CASE Create /\ (pc = "compare" => fi.size = 0)
  BY <1>5 DEF Pending, Create, tail
<1> QED
  BY <1>1, <1>2, <1>3, <1>4, <1>5 DEF CalmNext

LEMMA CalmNextOnce ==
  ASSUME Once, Pending, CalmNext
  PROVE  OnceNext
<1>1. ASSUME OpenAgain
      PROVE  fi.size <= Len(content[path])
  <2>1. pc = "compare" /\ path \in Inode /\ path # None
    BY <1>1 DEF OpenAgain, CanOpen, Once, Calms, Log, Types
  <2>2. Len(content[path]) \in Nat
    BY <2>1, Smaller DEF Once, Calms, Log
  <2> QED
    BY <2>1, <2>2 DEF Pending, Once, Sized
<1> QED
  BY <1>1, CalmNextRests DEF OnceNext, Once, Calms

(* The same of the run's specification, which meets both conditions. *)
THEOREM FedOnceCalm == CalmSpec => []FedOnce
<1>1. Init => Once /\ Pending
  BY InitLog, InitCalm, InitOnce DEF Once, Calms, Init, Pending
<1>2. Once /\ Pending /\ [CalmNext]_vars => (Once /\ Pending)'
  BY NextOnce, CalmPending, CalmNextOnce DEF Once, Calms
<1>3. Once => FedOnce
  BY DEF Once
<1> QED
  BY <1>1, <1>2, <1>3, PTL DEF CalmSpec
=============================================================================
