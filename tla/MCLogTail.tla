------------------------------ MODULE MCLogTail ------------------------------
(***************************************************************************)
(* LogTail with truncations that are seen in time, and rotations that are  *)
(* not hidden by a size kept from another file.  A truncation finds the    *)
(* tailer at rest: it has read all there is and remembers that size, and   *)
(* the log stays smaller than that until the tailer has looked at it.  No  *)
(* new log appears between an os.Stat that gave a size and the os.Open     *)
(* that may follow.                                                        *)
(***************************************************************************)
EXTENDS LogTail

AtRest == pc = "wait" /\ f = path /\ size = off /\ off = Len(content[f])
Unseen == f # None /\ off > Len(content[f])

CalmNext == \/ Tailer
            \/ Write /\ (Unseen => Len(content[f]) + 1 < size)
            \/ Truncate /\ AtRest
            \/ Create /\ (pc = "compare" => fi.size = 0)
            \/ Rotate \/ Reopen \/ Grant
CalmSpec == Init /\ [][CalmNext]_vars /\ WF_vars(Tailer)
=============================================================================
