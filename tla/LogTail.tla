------------------------------- MODULE LogTail -------------------------------
(***************************************************************************)
(* ingress.Tail and the loop of main.go that keeps it running, against an  *)
(* access log that nginx appends to and logrotate moves away: every system *)
(* call of the tailer on the path is a step of its own, and the log may    *)
(* change between any two.                                                 *)
(*                                                                         *)
(* The log is written in half lines, numbered in the order in which nginx  *)
(* writes them: line n is the halves 2n-1 and 2n, and 2n ends in the       *)
(* newline.  A file is the sequence of the halves it holds, an offset or a *)
(* size is counted in halves.                                              *)
(***************************************************************************)
EXTENDS Naturals, Sequences, Functions

CONSTANTS
  MaxLines,        \* bound on the lines nginx writes
  MaxRotations,    \* bound on the times the log is moved away
  MaxTruncations   \* bound on the times it is truncated in place

ASSUME LogTailAssumption ==
  MaxLines \in Nat /\ MaxRotations \in Nat /\ MaxTruncations \in Nat

Line  == 1 .. MaxLines
Half  == 1 .. 2 * MaxLines
Inode == 1 .. MaxRotations + 1
None  == 0

VARIABLES
  content,      \* inode -> the halves it holds
  path,         \* the inode of the log's name
  readable,     \* inode -> may the exporter open it?
  inodes,       \* inodes created
  wfd,          \* the inode nginx writes to
  written,      \* halves written
  truncations,  \* truncations so far
  enabled,      \* ingressRunning
  pc,           \* of the tailer: "down", "opening", "wait", "read", "stat", "compare"
  f, off,       \* the inode it has open, and the halves it has read of it
  size,         \* the size it last saw
  partial,      \* the unterminated end of its last read
  fi,           \* what os.Stat of the path returned: inode and size
  fed,          \* history: the lines handed to Ingest, each a sequence of halves
  joined        \* history: the file it opened first, and all written by then

log  == <<content, path, readable, inodes, wfd, written, truncations>>
tail == <<enabled, pc, f, off, size, partial, fi, fed, joined>>
vars == <<log, tail>>

Init ==
  /\ content = [i \in Inode |-> <<>>] /\ path = 1 /\ inodes = 1
  /\ readable \in {[i \in Inode |-> b] : b \in BOOLEAN}
  /\ wfd = 1 /\ written = 0 /\ truncations = 0
  /\ enabled = FALSE /\ pc = "down"
  /\ f = None /\ off = 0 /\ size = 0 /\ partial = <<>>
  /\ fi = [inode |-> None, size |-> 0]
  /\ fed = <<>> /\ joined = [inode |-> None, at |-> 2 * MaxLines]

EndsLine(h) == h % 2 = 0
Whole(n)    == <<2 * n - 1, 2 * n>>

-----------------------------------------------------------------------------
(* nginx, logrotate and the operator.                                      *)

(* nginx appends, to the file it has open whatever its name is by now. *)
Write ==
  /\ written < 2 * MaxLines
  /\ written' = written + 1
  /\ content' = [content EXCEPT ![wfd] = Append(@, written + 1)]
  /\ UNCHANGED <<path, readable, inodes, wfd, truncations, tail>>

(* logrotate renames the log. *)
Rotate ==
  /\ path # None /\ inodes <= MaxRotations
  /\ path' = None
  /\ UNCHANGED <<content, readable, inodes, wfd, written, truncations, tail>>

(* The new log appears, with a mode the exporter may lack the right for. *)
Create ==
  /\ path = None
  /\ path' = inodes + 1 /\ inodes' = inodes + 1
  /\ \E b \in BOOLEAN : readable' = [readable EXCEPT ![inodes + 1] = b]
  /\ UNCHANGED <<content, wfd, written, truncations, tail>>

(* USR1: nginx opens the new log, between two lines. *)
Reopen ==
  /\ path # None /\ wfd # path /\ written % 2 = 0
  /\ wfd' = path
  /\ UNCHANGED <<content, path, readable, inodes, written, truncations, tail>>

(* The log is emptied in place; nginx, appending, goes on from its start. *)
Truncate ==
  /\ path # None /\ truncations < MaxTruncations /\ content[path] # <<>>
  /\ written % 2 = 0
  /\ truncations' = truncations + 1
  /\ content' = [content EXCEPT ![path] = <<>>]
  /\ UNCHANGED <<path, readable, inodes, wfd, written, tail>>

(* Somebody repairs the mode. *)
Grant ==
  /\ path # None /\ ~readable[path]
  /\ readable' = [readable EXCEPT ![path] = TRUE]
  /\ UNCHANGED <<content, path, inodes, wfd, written, truncations, tail>>

Environment == Write \/ Rotate \/ Create \/ Reopen \/ Truncate \/ Grant

-----------------------------------------------------------------------------
(* The tailer.                                                             *)
CanOpen == path # None /\ readable[path]

(* main's loop: at the start, and 30 s after Tail returned. *)
StartTail ==
  /\ pc = "down"
  /\ enabled' = TRUE /\ pc' = "opening"
  /\ UNCHANGED <<f, off, size, partial, fi, fed, joined, log>>

(* open(true) fails: Tail returns the error. *)
StartFails ==
  /\ pc = "opening" /\ ~CanOpen
  /\ enabled' = FALSE /\ pc' = "down"
  /\ UNCHANGED <<f, off, size, partial, fi, fed, joined, log>>

(* open(true) seeks the end. *)
OpenAtEnd ==
  /\ pc = "opening" /\ CanOpen
  /\ f' = path /\ off' = Len(content[path]) /\ size' = Len(content[path])
  /\ partial' = <<>> /\ joined' = [inode |-> path, at |-> written]
  /\ pc' = "wait"
  /\ UNCHANGED <<enabled, fi, fed, log>>

Tick ==
  /\ pc = "wait"
  /\ pc' = "read"
  /\ UNCHANGED <<enabled, f, off, size, partial, fi, fed, joined, log>>

(* What the open file holds beyond the offset, up to a newline or its end. *)
Rest     == IF f = None \/ off >= Len(content[f]) THEN <<>>
            ELSE SubSeq(content[f], off + 1, Len(content[f]))
LineEnds == {i \in 1 .. Len(Rest) : EndsLine(Rest[i])}
FirstEnd == CHOOSE i \in LineEnds : \A j \in LineEnds : i <= j

(* Slip: the held fragment is handed over again with the next line. *)
ReadLine_holds ==
  /\ pc = "read" /\ LineEnds # {}
  /\ fed' = Append(fed, partial \o SubSeq(Rest, 1, FirstEnd))
  /\ off' = off + FirstEnd
  /\ UNCHANGED <<enabled, pc, f, size, partial, fi, joined, log>>

(* A whole line: the fragment held from before belongs to it. *)
ReadLine ==
  /\ pc = "read" /\ LineEnds # {}
  /\ fed' = Append(fed, partial \o SubSeq(Rest, 1, FirstEnd))
  /\ off' = off + FirstEnd /\ partial' = <<>>
  /\ UNCHANGED <<enabled, pc, f, size, fi, joined, log>>

(* EOF, or an error on a file that open closed: hold the fragment. *)
ReadEOF ==
  /\ pc = "read" /\ LineEnds = {}
  /\ partial' = partial \o Rest /\ off' = off + Len(Rest)
  /\ pc' = "stat"
  /\ UNCHANGED <<enabled, f, size, fi, fed, joined, log>>

(* os.Stat of the path; when it is gone, wait for another tick. *)
StatPath ==
  /\ pc = "stat"
  /\ IF path = None
     THEN pc' = "wait" /\ UNCHANGED fi
     ELSE pc' = "compare" /\ fi' = [inode |-> path, size |-> Len(content[path])]
  /\ UNCHANGED <<enabled, f, off, size, partial, fed, joined, log>>

(* Slip: a growing file is taken for another one. *)
Moved_anyChange == f # fi.inode \/ fi.size # size

(* Slip: truncation is not looked for. *)
Moved_otherFile == f # fi.inode

(* No file, another inode, or a smaller file than before. *)
Moved == f # fi.inode \/ fi.size < size

(* The size kept is the one os.Stat gave, whatever file was opened since.  *)
KeepSize == size' = fi.size

Stay ==
  /\ pc = "compare" /\ ~Moved
  /\ KeepSize /\ pc' = "wait"
  /\ UNCHANGED <<enabled, f, off, partial, fi, fed, joined, log>>

(* Slip: the fragment of the file that is left is kept. *)
OpenAgain_keepsPartial ==
  /\ pc = "compare" /\ Moved /\ CanOpen
  /\ f' = path /\ off' = 0
  /\ KeepSize /\ pc' = "wait"
  /\ UNCHANGED <<enabled, partial, fi, fed, joined, log>>

(* open(false): from the start of whatever the path names by now. *)
OpenAgain ==
  /\ pc = "compare" /\ Moved /\ CanOpen
  /\ f' = path /\ off' = 0 /\ partial' = <<>>
  /\ KeepSize /\ pc' = "wait"
  /\ UNCHANGED <<enabled, fi, fed, joined, log>>

(* open(false) fails, having closed the file; nobody looks at its error. *)
OpenAgainFails ==
  /\ pc = "compare" /\ Moved /\ ~CanOpen
  /\ f' = None /\ off' = 0 /\ partial' = <<>>
  /\ KeepSize /\ pc' = "wait"
  /\ UNCHANGED <<enabled, fi, fed, joined, log>>

Tailer == \/ StartTail \/ StartFails \/ OpenAtEnd \/ Tick \/ ReadLine \/ ReadEOF
          \/ StatPath \/ Stay \/ OpenAgain \/ OpenAgainFails

Next == Environment \/ Tailer

Spec == Init /\ [][Next]_vars

(* The goroutine is scheduled, the ticker ticks and the 30 s pass; nginx   *)
(* need not write and nobody need repair anything.                         *)
FairSpec == Spec /\ WF_vars(Tailer)

-----------------------------------------------------------------------------
(* Every variable has its type; the tailer's offset is within the file as  *)
(* long as the file is not truncated, it holds at most half a line, and    *)
(* that is one that waits for its newline (partial of Tail).               *)
TypeInv ==
  /\ content \in [Inode -> Seq(Half)] /\ path \in Inode \cup {None}
  /\ readable \in [Inode -> BOOLEAN] /\ inodes \in Inode /\ wfd \in Inode
  /\ written \in 0 .. 2 * MaxLines /\ truncations \in 0 .. MaxTruncations
  /\ enabled \in BOOLEAN
  /\ pc \in {"down", "opening", "wait", "read", "stat", "compare"}
  /\ f \in Inode \cup {None} /\ size \in Nat /\ off \in Nat
  /\ fi \in [inode : Inode \cup {None}, size : Nat]
  /\ joined \in [inode : Inode \cup {None}, at : Nat]
  /\ f = None => off = 0
  /\ f # None /\ MaxTruncations = 0 => off <= Len(content[f])
  /\ partial = <<>> \/ (Len(partial) = 1 /\ ~EndsLine(partial[1]))

(* Rotation never glues the end of one file to the start of the next: all  *)
(* that Ingest is given is a whole line, but for the rest of the line in   *)
(* whose middle the tailer first opened the log.                           *)
OnlyWholeLines ==
  \A i \in DOMAIN fed :
    \/ \E n \in Line : fed[i] = Whole(n)
    \/ i = 1 /\ fed[i] = <<joined.at + 1>>

(* No line is counted twice or out of order, and none from before the      *)
(* tailer first opened the log ("replaying a huge log on restart would     *)
(* double-count"), however rotation and the tailer's reads interleave.     *)
FedOnce ==
  /\ \A i, j \in DOMAIN fed : i < j => fed[i][1] < fed[j][1]
  /\ \A i \in DOMAIN fed : fed[i][1] > joined.at

(* When the tailer has read its file to the end, every line written since  *)
(* it joined, to the file it then opened or to a later one, has reached    *)
(* Ingest ("surviving rotation and truncation, feeding each line").        *)
Since(n) == /\ 2 * n - 1 > joined.at
            /\ \E i \in Inode : i >= joined.inode /\ 2 * n \in Range(content[i])
EachLineFed ==
  pc = "stat" /\ f # None /\ f = path /\ f = wfd /\ off = Len(content[f]) =>
    \A n \in Line : Since(n) => Whole(n) \in Range(fed)

(* ingress_enabled is 1 only while a file is open ("tailer failure ->      *)
(* ingress_enabled 0").                                                    *)
EnabledMeansTailing == enabled /\ pc # "opening" => f # None

(* A line that stays in a log the exporter may read reaches Ingest, after  *)
(* however many rotations and failed opens (the retry loop of main, the    *)
(* reopening of Tail).                                                     *)
Stands(n) == CanOpen /\ 2 * n - 1 > joined.at /\ 2 * n \in Range(content[path])
StandingLineFed == \A n \in Line : <>[]Stands(n) => <>(Whole(n) \in Range(fed))
=============================================================================
