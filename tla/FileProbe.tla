----------------------------- MODULE FileProbe ------------------------------
(***************************************************************************)
(* FileProbe following a file that other programs write, rotate, truncate, *)
(* delete and touch while it looks: validate_file_handler makes three      *)
(* system calls, and anything can happen between two of them.              *)
(*                                                                         *)
(* A file is a sequence of bytes, some of them newlines.  For the sake of  *)
(* WholeLines a byte also tells whether a line may be `cut` after it: a     *)
(* write() ended there, or the backlog begins there.  The file handle reads*)
(* ahead: `buf` is what it has read and not yet returned.                  *)
(***************************************************************************)
EXTENDS Integers, Sequences, SequencesExt

CONSTANTS
  MaxLines,   \* max_lines: readlines takes it for a number of bytes
  Backlog,    \* backlog: bytes before the end to start from
  Scenarios,  \* which bytes are newlines in the file when the probe is created,
              \* what the writers may do then, and a bound on how often
  MaxEvents   \* bound: the largest of these bounds

ASSUME FileProbeAssumption ==
  /\ MaxLines \in Nat \ {0} /\ Backlog \in Nat /\ MaxEvents \in Nat
  /\ Scenarios \subseteq
       [first : Seq(BOOLEAN),
        may : SUBSET {"line", "part", "rotate", "delete", "truncate", "touch"},
        times : 0..MaxEvents]

VARIABLES
  writers,   \* the scenario
  path,      \* the file that has the probe's path, 0 if none
  content,   \* content[f]: the bytes of file f
  version,   \* version[f]: stands for all that stat() tells of file f
  written,   \* bytes written so far, which numbers them
  events,    \* what writers have done so far, counted
  fh,        \* the file handle
  stat,      \* what fstat() has returned in this probe()
  pc,        \* where the coroutine is in probe(), or "asleep"
  returned   \* the bytes of the lines that a readlines() returned, per call with any

fileVars  == <<writers, path, content, version, written, events>>
probeVars == <<fh, stat, pc, returned>>
vars == <<fileVars, probeVars>>

File == 1..MaxEvents + 1
Byte == [no : Nat, newline : BOOLEAN, cut : BOOLEAN]

TypeOK ==
  /\ writers \in Scenarios
  /\ path \in {0} \cup File
  /\ content \in [File -> Seq(Byte)]
  /\ version \in [File -> Nat]
  /\ written \in Nat /\ events \in 0..MaxEvents
  /\ fh \in [closed : BOOLEAN, file : File, pos : Nat, buf : Seq(Byte)]
  /\ stat \in File \X Nat
  /\ pc \in {"asleep", "check", "fstat", "stat", "read"}
  /\ returned \in Seq(Seq(Byte))

(* Mutant: no fallback for a seek to before the start.                      *)
OpenAt_Negative(f, back) ==
  [closed |-> FALSE, file |-> f, buf |-> <<>>, pos |-> Len(content[f]) - back]

(* The handle after open() and a seek to `back` bytes before the end.       *)
OpenAt(f, back) ==
  LET size == Len(content[f])
  IN [closed |-> FALSE, file |-> f, buf |-> <<>>,
      pos |-> IF back > size THEN 0 ELSE size - back]

(* What is in the file when the probe is created: the backlog, a number of  *)
(* bytes, begins anywhere in a line.                                        *)
Log(first) ==
  [i \in 1..Len(first) |->
    [no |-> i, newline |-> first[i], cut |-> i \in {Len(first), Len(first) - Backlog}]]

Init ==
  /\ writers \in Scenarios
  /\ path = 1
  /\ content = [f \in File |-> IF f = 1 THEN Log(writers.first) ELSE <<>>]
  /\ version = [f \in File |-> 0]
  /\ written = Len(writers.first) /\ events = 0
  /\ fh = OpenAt(1, Backlog)
  /\ stat = <<1, 0>> /\ pc = "asleep" /\ returned = <<>>

-----------------------------------------------------------------------------
(* The other programs.                                                      *)

Happens(name) ==
  /\ name \in writers.may /\ events < writers.times
  /\ events' = events + 1
  /\ UNCHANGED <<writers, probeVars>>

Change(f) == version' = [version EXCEPT ![f] = events + 1]

(* A write(): a whole line, or a part of one.                               *)
Write(name, newline) ==
  /\ path # 0 /\ Happens(name)
  /\ \E n \in 1..2 :
       /\ content' = [content EXCEPT ![path] = @ \o
            [i \in 1..n |-> [no |-> written + i, newline |-> newline /\ i = n, cut |-> i = n]]]
       /\ written' = written + n
  /\ Change(path) /\ UNCHANGED path

(* A new file takes the path; the old one, if any, lives on elsewhere.      *)
Rotate ==
  /\ Happens("rotate")
  /\ path' = events + 2
  /\ UNCHANGED <<content, version, written>>

Delete == Happens("delete") /\ path' = 0 /\ UNCHANGED <<content, version, written>>

Truncate ==
  /\ path # 0 /\ Happens("truncate")
  /\ content' = [content EXCEPT ![path] = <<>>]
  /\ Change(path) /\ UNCHANGED <<path, written>>

(* chmod, or another reader's atime.                                        *)
Touch == path # 0 /\ Happens("touch") /\ Change(path) /\ UNCHANGED <<path, content, written>>

Writers == Write("line", TRUE) \/ Write("part", FALSE)
           \/ Rotate \/ Delete \/ Truncate \/ Touch

-----------------------------------------------------------------------------
(* probe().                                                                 *)

Wake ==
  /\ pc = "asleep" /\ pc' = "check"
  /\ UNCHANGED <<fileVars, fh, stat, returned>>

(* Mutant: a handle opened again starts at the beginning of the file.       *)
Reopen_FromStart ==
  /\ pc = "check"
  /\ IF fh.closed /\ path = 0
     THEN pc' = "asleep" /\ UNCHANGED fh
     ELSE /\ pc' = "fstat"
          /\ fh' = IF fh.closed THEN OpenAt(path, Len(content[path])) ELSE fh
  /\ UNCHANGED <<fileVars, stat, returned>>

(* Mutant: a handle opened again goes back as far as the first one did.     *)
Reopen_Backlog ==
  /\ pc = "check"
  /\ IF fh.closed /\ path = 0
     THEN pc' = "asleep" /\ UNCHANGED fh
     ELSE /\ pc' = "fstat"
          /\ fh' = IF fh.closed THEN OpenAt(path, Backlog) ELSE fh
  /\ UNCHANGED <<fileVars, stat, returned>>

(* A closed handle is opened again, at the end of whatever has the path.    *)
Reopen ==
  /\ pc = "check"
  /\ IF fh.closed /\ path = 0
     THEN pc' = "asleep" /\ UNCHANGED fh
     ELSE /\ pc' = "fstat"
          /\ fh' = IF fh.closed THEN OpenAt(path, 0) ELSE fh
  /\ UNCHANGED <<fileVars, stat, returned>>

(* Mutant: fstat() is called once, when the probe is created.               *)
Fstat_Cached ==
  /\ pc = "fstat" /\ pc' = "stat"
  /\ UNCHANGED <<fileVars, fh, stat, returned>>

Fstat ==
  /\ pc = "fstat" /\ pc' = "stat"
  /\ stat' = <<fh.file, version[fh.file]>>
  /\ UNCHANGED <<fileVars, fh, returned>>

(* No file: no lines this time.  Any difference: close, and no lines.       *)
Stat ==
  /\ pc = "stat"
  /\ IF path = 0 THEN pc' = "asleep" /\ UNCHANGED fh
     ELSE IF stat = <<path, version[path]>> THEN pc' = "read" /\ UNCHANGED fh
     ELSE pc' = "asleep" /\ fh' = [fh EXCEPT !.closed = TRUE]
  /\ UNCHANGED <<fileVars, stat, returned>>

(* readlines(max_lines) on the bytes s: line after line, until more than    *)
(* max_lines bytes are returned or s is used up.                            *)
LineEnds(s) == {i \in 1..Len(s) : s[i].newline \/ i = Len(s)}

EnoughBytes(s) == \E e \in LineEnds(s) : e > MaxLines /\ s[e].newline

Taken(s) ==
  IF EnoughBytes(s) THEN Min({e \in LineEnds(s) : e > MaxLines}) ELSE Len(s)

Read ==
  LET file == content[fh.file]
      ahead == EnoughBytes(fh.buf)
      s == IF ahead THEN fh.buf ELSE fh.buf \o SubSeq(file, fh.pos + 1, Len(file))
      n == Taken(s)
  IN /\ pc = "read" /\ pc' = "asleep"
     /\ returned' = IF n = 0 THEN returned ELSE Append(returned, SubSeq(s, 1, n))
     /\ fh' = [fh EXCEPT !.buf = SubSeq(s, n + 1, Len(s)),
                         !.pos = IF ahead \/ @ > Len(file) THEN @ ELSE Len(file)]
     /\ UNCHANGED <<fileVars, stat>>

Probe == Wake \/ Reopen \/ Fstat \/ Stat \/ Read

Next == Probe \/ Writers

Spec == Init /\ [][Next]_vars

(* The daemon calls probe() again and again.                                *)
FairSpec == Spec /\ WF_vars(Probe)

-----------------------------------------------------------------------------
Bytes == FlattenSeq(returned)

(* Whatever happens to the file, no byte is returned twice and none before  *)
(* one that was written earlier.                                            *)
InOrderOnce ==
  \A i, j \in 1..Len(Bytes) : i < j => Bytes[i].no < Bytes[j].no

(* The line of s that ends at e.                                            *)
LineTo(s, e) == SubSeq(s, Max({0} \cup {d \in LineEnds(s) : d < e}) + 1, e)

(* A line of the file may end, or begin, on this side of the byte.          *)
Ends(byte) == byte.newline \/ byte.cut

(* The bytes of a file from where a line may begin to where one may end,    *)
(* with no newline within.                                                  *)
IsLineOf(line, file) ==
  \E i \in 1..Len(file) + 1 - Len(line) :
    /\ i = 1 \/ Ends(file[i - 1])
    /\ line = SubSeq(file, i, i + Len(line) - 1)
    /\ Ends(line[Len(line)])
    /\ \A k \in 1..Len(line) : line[k].newline => k = Len(line)

(* Unless the file is truncated under the handle, what is returned for a    *)
(* line is a line of one file, and the only ones that are cut are the first,*)
(* where the backlog begins within a line, and those that a writer wrote in *)
(* parts: opening again, a full batch and reading ahead cut none, and none  *)
(* is put together from two files.                                          *)
WholeLines ==
  "truncate" \notin writers.may =>
  \A k \in 1..Len(returned) : \A e \in LineEnds(returned[k]) :
    \E f \in File : IsLineOf(LineTo(returned[k], e), content[f])

(* Once the writers are quiet, the probe comes to the end of the file that  *)
(* has its path, over closed handles and full batches.                      *)
CatchesUp ==
  <>[](path = 0 \/ (/\ ~fh.closed /\ fh.file = path /\ fh.buf = <<>>
                    /\ fh.pos >= Len(content[path])))

(* The handle is given up only when the file it points to is gone from the  *)
(* path.                                                                    *)
ClosedOnlyWhenReplaced == [][fh'.closed /\ ~fh.closed => path # fh.file]_vars
=============================================================================
