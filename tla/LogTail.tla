------------------------------ MODULE LogTail -------------------------------
(***************************************************************************)
(* qlog(): every log line of the driver is appended to fLogTail, a text    *)
(* buffer whose contents survive a hang in NVRAM (QCA9377Driver.cpp).      *)
(* When a line does not fit, the older half goes, up to the end of a line. *)
(* A line longer than the local buffer is cut and loses its newline.       *)
(*                                                                         *)
(* A byte is the line it is from, its place in that line, and whether it   *)
(* is the newline.                                                         *)
(***************************************************************************)
EXTENDS Integers, Sequences, FiniteSetsExt

CONSTANTS
  TailSize, LineSize, \* sizeof(fLogTail), sizeof(line): 1536 and 256
  LineLens, MaxLines  \* inputs: lengths of a formatted line; bound: lines logged
(* An empty line is not logged; a tail holds two lines at least. *)
ASSUME TailAssumption ==
  /\ {TailSize, LineSize, MaxLines} \subseteq Nat /\ LineLens \subseteq Nat \ {0}
  /\ LineSize > 1 /\ 2 * LineSize <= TailSize

VARIABLES lines,      \* length of each line logged so far
          dmesg,      \* what IOLog printed
          fLogTail,   \* its first fLogTailUsed bytes
          nvram       \* bswork-qca-logtail
tailVars == <<lines, dmesg, fLogTail, nvram>>

LogInit == lines = <<>> /\ dmesg = <<>> /\ fLogTail = <<>> /\ nvram = <<>>

(* vsnprintf into line[]: at most LineSize - 1 bytes are there. *)
Present(n, len) == [k \in 1 .. Min({len, LineSize - 1}) |->
                      [line |-> n, at |-> k, nl |-> k = len]]

Space(tail) == TailSize - 1 - Len(tail)

(* Mutant: half of the tail cut off wherever that is. *)
CutBlind(tail) == SubSeq(tail, Len(tail) \div 2 + 1, Len(tail))

(* Drop the older half, to the first newline at or behind its end; without *)
(* one nothing is left.                                                    *)
Cut(tail) ==
  LET nls == {k \in 1 .. Len(tail) : k > Len(tail) \div 2 /\ tail[k].nl}
  IN IF nls = {} THEN <<>> ELSE SubSeq(tail, Min(nls) + 1, Len(tail))

(* qlog: print the line, make room, append what fits, flush to NVRAM. *)
Qlog ==
  /\ Len(lines) < MaxLines
  /\ \E len \in LineLens :
       LET text == Present(Len(lines) + 1, len)
           kept == IF len + 1 > Space(fLogTail) THEN Cut(fLogTail) ELSE fLogTail
           n    == Min({Len(text), Space(kept)})
       IN /\ lines' = Append(lines, len)
          /\ dmesg' = dmesg \o text
          /\ fLogTail' = kept \o SubSeq(text, 1, n)
          /\ nvram' = fLogTail'

LogNext == Qlog
LogSpec == LogInit /\ [][LogNext]_tailVars

(* What NVRAM holds at any moment is the end of the log that went to       *)
(* dmesg, nothing missing in between, from the start of a line, with the   *)
(* newest line complete, and leaves room for the terminating NUL: also     *)
(* when lines were cut, when the tail is full, and when no newline is left *)
(* in its newer half.                                                      *)
TailIsRecentLog ==
  /\ Len(fLogTail) < TailSize
  /\ nvram = SubSeq(dmesg, Len(dmesg) - Len(nvram) + 1, Len(dmesg))
  /\ lines # <<>> => Len(nvram) >= Len(Present(Len(lines), lines[Len(lines)]))
  /\ nvram # <<>> => nvram[1].at = 1
=============================================================================
