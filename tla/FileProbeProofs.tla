-------------------------- MODULE FileProbeProofs ---------------------------
(* Theorems about FileProbe, for every limit of readlines(), every backlog, *)
(* all that writers may do and however often they do it.                    *)
EXTENDS FileProbe, ListFacts

Ascending(s) == \A i, j \in 1..Len(s) : i < j => s[i].no < s[j].no
Upto(s, n) == \A i \in 1..Len(s) : s[i].no <= n
Precede(s, t) == \A i \in 1..Len(s) : \A j \in 1..Len(t) : s[i].no < t[j].no

(* They come before those that a handle has still to read.                  *)
BeforeUnread(s, handle, file) ==
  \A i \in 1..Len(s) : \A j \in 1..Len(file) : j > handle.pos => s[i].no < file[j].no

(* Bytes are in the order they were written in, in every file and on their  *)
(* way: those returned, those read ahead, those still to be read.           *)
InOrder ==
  /\ \A f \in File : Ascending(content[f]) /\ Upto(content[f], written)
  /\ Ascending(Bytes) /\ Upto(Bytes, written) /\ Precede(Bytes, fh.buf)
  /\ Ascending(fh.buf) /\ Upto(fh.buf, written)
  /\ BeforeUnread(Bytes, fh, content[fh.file]) /\ BeforeUnread(fh.buf, fh, content[fh.file])

(* A line of the file may end, or begin, after p bytes of s.                *)
Boundary(s, p) == p = 0 \/ (p \in 1..Len(s) /\ Ends(s[p]))

(* t is the bytes of s from b to e, which are whole lines.                  *)
Between(t, s, b, e) ==
  /\ b \in 0..Len(s) /\ e \in b..Len(s) /\ Boundary(s, b) /\ Boundary(s, e)
  /\ Len(t) = e - b /\ \A i \in 1..e - b : t[i] = s[b + i]

LinesOf(t, s) == \E b \in 0..Len(s) : \E e \in b..Len(s) : Between(t, s, b, e)

(* Files end where a line may be cut, the handle starts and stops where one *)
(* may, and what it has returned at once is lines of one file.              *)
BetweenLines ==
  /\ \A f \in File : Boundary(content[f], Len(content[f]))
  /\ \E b \in 0..fh.pos : Between(fh.buf, content[fh.file], b, fh.pos)
  /\ \A k \in 1..Len(returned) : \E f \in File : LinesOf(returned[k], content[f])

LineWise == "truncate" \notin writers.may
Whole == LineWise => BetweenLines

-----------------------------------------------------------------------------
LEMMA SubSeqFacts ==
  ASSUME NEW T, NEW s \in Seq(T), NEW m \in 0..Len(s), NEW n \in m..Len(s)
  PROVE  /\ SubSeq(s, m + 1, n) \in Seq(T) /\ Len(SubSeq(s, m + 1, n)) = n - m
         /\ \A i \in 1..n - m : SubSeq(s, m + 1, n)[i] = s[m + i]
<1>1. m + 1 \in Int /\ n \in Int /\ m + 1 \in 1..Len(s) + 1 /\ n \in m..Len(s) /\ Len(s) \in Nat
  OBVIOUS
<1>2. /\ SubSeq(s, m + 1, n) \in Seq(T)
      /\ Len(SubSeq(s, m + 1, n)) = IF m + 1 <= n THEN n - (m + 1) + 1 ELSE 0
      /\ \A i \in 1..n - (m + 1) + 1 : SubSeq(s, m + 1, n)[i] = s[m + 1 + i - 1]
  BY <1>1, SubSeqProperties
<1> QED BY <1>1, <1>2

(* readlines() takes whole lines, or all there is.                          *)
LEMMA TakenFacts ==
  ASSUME NEW s \in Seq(Byte)
  PROVE  Taken(s) \in 0..Len(s) /\ (Taken(s) # 0 => Taken(s) \in LineEnds(s))
<1>1. CASE EnoughBytes(s)
  <2> DEFINE Late == {e \in LineEnds(s) : e > MaxLines}
  <2>1. Late \subseteq Nat /\ Late # {} /\ Late \subseteq LineEnds(s)
    BY <1>1 DEF EnoughBytes, LineEnds
  <2>2. Taken(s) = CHOOSE e \in Late : \A d \in Late : e <= d
    BY <1>1 DEF Taken, Min
  <2> HIDE DEF Late
  <2>3. \E e \in Late : \A d \in Late : e <= d
    BY <2>1, LeastNat
  <2>4. Taken(s) \in Late
    BY <2>2, <2>3
  <2>5. LineEnds(s) \subseteq 0..Len(s)
    BY DEF LineEnds
  <2> QED BY <2>1, <2>4, <2>5
<1>2. CASE ~EnoughBytes(s)
  <2>1. Taken(s) = Len(s) /\ Len(s) \in Nat
    BY <1>2 DEF Taken
  <2> QED BY <2>1 DEF LineEnds
<1> QED BY <1>1, <1>2

LEMMA TypeFacts ==
  ASSUME TypeOK
  PROVE  /\ events \in Nat /\ MaxEvents \in Nat /\ written \in Nat /\ writers.times \in 0..MaxEvents
         /\ path = 0 \/ path \in File
         /\ fh.file \in File /\ fh.pos \in Nat /\ fh.buf \in Seq(Byte) /\ fh.closed \in BOOLEAN
         /\ content[fh.file] \in Seq(Byte)
         /\ fh = [closed |-> fh.closed, file |-> fh.file, pos |-> fh.pos, buf |-> fh.buf]
BY FileProbeAssumption DEF TypeOK

(* What the handle reads is what it had read ahead, and, unless that is     *)
(* enough, the rest of the file.                                            *)
LEMMA ReadFacts ==
  ASSUME TypeOK, Read
  PROVE  \E s \in Seq(Byte) : \E n \in 0..Len(s) :
    /\ \/ s = fh.buf /\ fh'.pos = fh.pos
       \/ /\ fh.pos <= Len(content[fh.file]) /\ fh'.pos = Len(content[fh.file])
          /\ s = fh.buf \o SubSeq(content[fh.file], fh.pos + 1, Len(content[fh.file]))
    /\ n # 0 => n \in LineEnds(s)
    /\ returned' = IF n = 0 THEN returned ELSE Append(returned, SubSeq(s, 1, n))
    /\ fh'.buf = SubSeq(s, n + 1, Len(s)) /\ fh'.file = fh.file /\ fh'.closed = fh.closed
    /\ fh' \in [closed : BOOLEAN, file : File, pos : Nat, buf : Seq(Byte)]
    /\ pc' = "asleep" /\ UNCHANGED <<writers, path, content, version, written, events, stat>>
<1> DEFINE file == content[fh.file]
           ahead == EnoughBytes(fh.buf)
           rest == SubSeq(file, fh.pos + 1, Len(file))
           s == IF ahead THEN fh.buf ELSE fh.buf \o rest
           n == Taken(s)
<1>1. file \in Seq(Byte) /\ fh.buf \in Seq(Byte) /\ fh.pos \in Nat /\ Len(file) \in Nat
  BY TypeFacts
<1>2. /\ pc' = "asleep" /\ UNCHANGED <<writers, path, content, version, written, events, stat>>
      /\ returned' = IF n = 0 THEN returned ELSE Append(returned, SubSeq(s, 1, n))
      /\ fh' = [fh EXCEPT !.buf = SubSeq(s, n + 1, Len(s)),
                          !.pos = IF ahead \/ @ > Len(file) THEN @ ELSE Len(file)]
  BY DEF Read, fileVars
<1>3. fh.pos > Len(file) => rest = <<>>
  BY <1>1
<1>4. rest \in Seq(Byte)
  <2>1. CASE fh.pos <= Len(file)
    <3>1. fh.pos \in 0..Len(file) /\ Len(file) \in fh.pos..Len(file)
      BY <1>1, <2>1
    <3> HIDE DEF file
    <3> QED BY <1>1, <3>1, SubSeqFacts
  <2>2. CASE fh.pos > Len(file)
    <3>1. rest = <<>>
      BY <1>3, <2>2
    <3> HIDE DEF rest
    <3> QED BY <3>1
  <2> QED BY <1>1, <2>1, <2>2
<1>5. s \in Seq(Byte)
  <2> HIDE DEF rest, file, ahead
  <2> QED BY <1>1, <1>4
<1> HIDE DEF rest, s
<1>6. n \in 0..Len(s) /\ (n # 0 => n \in LineEnds(s))
  BY <1>5, TakenFacts
<1> HIDE DEF n
<1>7. SubSeq(s, n + 1, Len(s)) \in Seq(Byte)
  <2>1. Len(s) \in n..Len(s)
    BY <1>5, <1>6
  <2> QED BY <1>5, <1>6, <2>1, SubSeqFacts
<1>8. \/ s = fh.buf /\ (IF ahead \/ fh.pos > Len(file) THEN fh.pos ELSE Len(file)) = fh.pos
      \/ /\ fh.pos <= Len(file) /\ s = fh.buf \o rest
         /\ (IF ahead \/ fh.pos > Len(file) THEN fh.pos ELSE Len(file)) = Len(file)
  <2>1. CASE ahead
    BY <2>1 DEF s
  <2>2. CASE ~ahead /\ fh.pos > Len(file)
    <3>1. s = fh.buf \o <<>>
      BY <1>3, <2>2 DEF s
    <3> QED BY <1>1, <2>2, <3>1
  <2>3. CASE ~ahead /\ fh.pos <= Len(file)
    BY <1>1, <2>3 DEF s
  <2> QED BY <1>1, <2>1, <2>2, <2>3
<1>9. /\ fh'.buf = SubSeq(s, n + 1, Len(s)) /\ fh'.file = fh.file /\ fh'.closed = fh.closed
      /\ fh'.pos = (IF ahead \/ fh.pos > Len(file) THEN fh.pos ELSE Len(file))
      /\ fh' \in [closed : BOOLEAN, file : File, pos : Nat, buf : Seq(Byte)]
  <2> HIDE DEF ahead, file
  <2> QED BY <1>1, <1>2, <1>7, TypeFacts
<1> QED
  <2> HIDE DEF ahead
  <2> QED BY <1>2, <1>5, <1>6, <1>8, <1>9 DEF rest

(* The file that the probe finds.                                           *)
LEMMA LogFacts ==
  ASSUME Init
  PROVE  \E log \in Seq(Byte) :
    /\ content = [f \in File |-> IF f = 1 THEN log ELSE <<>>] /\ written = Len(log)
    /\ \A i \in 1..Len(log) :
         log[i].no = i /\ (i \in {Len(log), Len(log) - Backlog} => log[i].cut)
<1> DEFINE first == writers.first
           byte(i) == [no |-> i, newline |-> first[i],
                       cut |-> i \in {Len(first), Len(first) - Backlog}]
           log == [i \in 1..Len(first) |-> byte(i)]
<1>1. first \in Seq(BOOLEAN) /\ Len(first) \in Nat
  BY FileProbeAssumption DEF Init
<1>2. \A i \in 1..Len(first) : byte(i) \in Byte
  <2>1. \A i \in 1..Len(first) : first[i] \in BOOLEAN /\ i \in Nat
    BY <1>1
  <2> QED BY <2>1 DEF Byte
<1>3. content = [f \in File |-> IF f = 1 THEN log ELSE <<>>] /\ written = Len(first)
  BY DEF Init, Log
<1>4. \A i \in 1..Len(first) : byte(i).no = i
        /\ (i \in {Len(first), Len(first) - Backlog} => byte(i).cut)
  OBVIOUS
<1> HIDE DEF byte, first
<1>5. log \in Seq(Byte) /\ Len(log) = Len(first) /\ \A i \in 1..Len(first) : log[i] = byte(i)
  BY <1>1, <1>2
<1> HIDE DEF log
<1> QED BY <1>3, <1>4, <1>5

LEMMA InitTypeOK == Init => TypeOK
<1> SUFFICES ASSUME Init PROVE TypeOK
  OBVIOUS
<1>1. /\ writers \in Scenarios /\ path = 1 /\ events = 0
      /\ version = [f \in File |-> 0] /\ stat = <<1, 0>> /\ pc = "asleep" /\ returned = <<>>
      /\ MaxEvents \in Nat /\ 1 \in File /\ Backlog \in Nat
  BY FileProbeAssumption DEF Init, File
<1>2. PICK line \in Seq(Byte) :
        content = [f \in File |-> IF f = 1 THEN line ELSE <<>>] /\ written = Len(line)
  BY LogFacts
<1>3. content = [f \in File |-> IF f = 1 THEN line ELSE <<>>]
  BY <1>2
<1>4. content \in [File -> Seq(Byte)]
  BY <1>2, <1>3
<1>5. fh \in [closed : BOOLEAN, file : File, pos : Nat, buf : Seq(Byte)]
  <2>1. content[1] \in Seq(Byte) /\ Len(content[1]) \in Nat
    BY <1>1, <1>4
  <2>2. fh = OpenAt(1, Backlog)
    BY DEF Init
  <2> QED BY <1>1, <2>1, <2>2 DEF OpenAt
<1>6. version \in [File -> Nat] /\ returned \in Seq(Seq(Byte)) /\ stat \in File \X Nat
  BY <1>1
<1>7. events \in 0..MaxEvents /\ written \in Nat
  BY <1>1, <1>2
<1> QED BY <1>1, <1>4, <1>5, <1>6, <1>7 DEF TypeOK

(* What writers do, of whatever kind.                                       *)
LEMMA WriteFacts ==
  ASSUME TypeOK, NEW name, NEW newline \in BOOLEAN, Write(name, newline)
  PROVE  /\ path \in File /\ events < MaxEvents /\ events' = events + 1 /\ name \in writers.may
         /\ \E n \in 1..2 : \E new \in Seq(Byte) :
              /\ written' = written + n /\ Len(new) = n
              /\ \A i \in 1..n : new[i].no = written + i /\ new[i].cut = (i = n)
              /\ content' = [content EXCEPT ![path] = @ \o new]
         /\ version' = [version EXCEPT ![path] = events + 1]
         /\ UNCHANGED <<writers, fh, stat, pc, returned, path>>
<1>1. /\ path # 0 /\ events < writers.times /\ events' = events + 1 /\ name \in writers.may
      /\ version' = [version EXCEPT ![path] = events + 1]
      /\ UNCHANGED <<writers, fh, stat, pc, returned, path>>
  BY DEF Write, Happens, Change, probeVars
<1>2. path \in File /\ events < MaxEvents
  BY <1>1, TypeFacts
<1>3. PICK n \in 1..2 :
        /\ written' = written + n
        /\ content' = [content EXCEPT ![path] = @ \o
             [i \in 1..n |-> [no |-> written + i, newline |-> newline /\ i = n, cut |-> i = n]]]
  BY DEF Write
<1> DEFINE new == [i \in 1..n |-> [no |-> written + i, newline |-> newline /\ i = n, cut |-> i = n]]
<1>4. \A i \in 1..n : [no |-> written + i, newline |-> newline /\ i = n, cut |-> i = n] \in Byte
  <2>1. written \in Nat
    BY TypeFacts
  <2> QED BY <2>1 DEF Byte
<1>5. /\ new \in Seq(Byte) /\ Len(new) = n
      /\ \A i \in 1..n : new[i].no = written + i /\ new[i].cut = (i = n)
  BY <1>4
<1>6. content' = [content EXCEPT ![path] = @ \o new]
  BY <1>3
<1> HIDE DEF new
<1> QED BY <1>1, <1>2, <1>3, <1>5, <1>6

LEMMA TypeStep == TypeOK /\ [Next]_vars => TypeOK'
<1> SUFFICES ASSUME TypeOK, [Next]_vars PROVE TypeOK'
  OBVIOUS
<1> USE DEF fileVars, probeVars
<1>1. /\ events \in 0..MaxEvents /\ MaxEvents \in Nat /\ written \in Nat
      /\ writers \in Scenarios /\ writers.times \in 0..MaxEvents
      /\ path \in {0} \cup File /\ content \in [File -> Seq(Byte)] /\ version \in [File -> Nat]
      /\ fh \in [closed : BOOLEAN, file : File, pos : Nat, buf : Seq(Byte)]
      /\ stat \in File \X Nat /\ pc \in {"asleep", "check", "fstat", "stat", "read"}
      /\ returned \in Seq(Seq(Byte))
  BY TypeFacts DEF TypeOK
<1>2. ASSUME NEW name, NEW newline \in BOOLEAN, Write(name, newline) PROVE TypeOK'
  <2>1. /\ path \in File /\ events < MaxEvents /\ events' = events + 1
        /\ version' = [version EXCEPT ![path] = events + 1]
        /\ UNCHANGED <<writers, fh, stat, pc, returned, path>>
    BY <1>2, WriteFacts
  <2>2. PICK n \in 1..2, new \in Seq(Byte) :
          written' = written + n /\ content' = [content EXCEPT ![path] = @ \o new]
    BY <1>2, WriteFacts
  <2>3. content[path] \in Seq(Byte) /\ content[path] \o new \in Seq(Byte)
    BY <1>1, <2>1
  <2>4. content' \in [File -> Seq(Byte)]
    BY <1>1, <2>2, <2>3
  <2>5. version' \in [File -> Nat] /\ events' \in 0..MaxEvents /\ written' \in Nat
    BY <1>1, <2>1, <2>2
  <2> QED BY <1>1, <2>1, <2>4, <2>5 DEF TypeOK
<1>3. ASSUME NEW name, Happens(name)
      PROVE  /\ events' \in 0..MaxEvents /\ events + 1 \in Nat /\ events + 2 \in File
             /\ UNCHANGED <<writers, fh, stat, pc, returned>>
  <2>1. events < writers.times /\ events' = events + 1 /\ UNCHANGED <<writers, fh, stat, pc, returned>>
    BY <1>3 DEF Happens
  <2>2. events \in Nat /\ writers.times \in Nat /\ writers.times <= MaxEvents
    BY <1>1
  <2>3. events + 1 \in 0..MaxEvents /\ events + 2 \in 1..MaxEvents + 1
    BY <1>1, <2>1, <2>2
  <2> QED BY <2>1, <2>2, <2>3 DEF File
<1>4. CASE Rotate
  BY <1>1, <1>3, <1>4 DEF Rotate, TypeOK
<1>5. CASE Delete
  BY <1>1, <1>3, <1>5 DEF Delete, TypeOK
<1>6. CASE Truncate
  <2>1. /\ content' = [content EXCEPT ![path] = <<>>]
        /\ version' = [version EXCEPT ![path] = events + 1]
        /\ UNCHANGED <<path, written>>
    BY <1>6 DEF Truncate, Change
  <2>2. content' \in [File -> Seq(Byte)]
    <3> DEFINE none == <<>>
    <3>1. none \in Seq(Byte) /\ content' = [content EXCEPT ![path] = none]
      BY <2>1
    <3> HIDE DEF none
    <3> QED BY <1>1, <3>1
  <2>3. /\ events' \in 0..MaxEvents /\ events + 1 \in Nat
        /\ UNCHANGED <<writers, fh, stat, pc, returned>>
    BY <1>3, <1>6 DEF Truncate
  <2>4. version' \in [File -> Nat]
    BY <1>1, <2>1, <2>3
  <2> QED BY <1>1, <2>1, <2>2, <2>3, <2>4 DEF TypeOK
<1>7. CASE Touch
  <2>1. /\ version' = [version EXCEPT ![path] = events + 1]
        /\ UNCHANGED <<path, content, written>>
    BY <1>7 DEF Touch, Change
  <2>2. /\ events' \in 0..MaxEvents /\ events + 1 \in Nat
        /\ UNCHANGED <<writers, fh, stat, pc, returned>>
    BY <1>3, <1>7 DEF Touch
  <2>3. version' \in [File -> Nat]
    BY <1>1, <2>1, <2>2
  <2> QED BY <1>1, <2>1, <2>2, <2>3 DEF TypeOK
<1>8. CASE Wake
  BY <1>1, <1>8 DEF Wake, TypeOK
<1>9. CASE Reopen
  <2>1. UNCHANGED <<writers, path, content, version, written, events, stat, returned>>
        /\ pc' \in {"asleep", "fstat"}
    BY <1>9 DEF Reopen
  <2>2. fh' = fh \/ (path \in File /\ fh' = OpenAt(path, 0))
    BY <1>1, <1>9 DEF Reopen
  <2>3. fh' \in [closed : BOOLEAN, file : File, pos : Nat, buf : Seq(Byte)]
    <3>1. ASSUME path \in File
          PROVE  OpenAt(path, 0) \in [closed : BOOLEAN, file : File, pos : Nat, buf : Seq(Byte)]
      <4>1. Len(content[path]) \in Nat
        BY <1>1, <3>1
      <4> QED BY <3>1, <4>1 DEF OpenAt
    <3> QED BY <1>1, <2>2, <3>1
  <2> QED BY <1>1, <2>1, <2>3 DEF TypeOK
<1>10. CASE Fstat
  <2>1. stat' = <<fh.file, version[fh.file]>> /\ pc' = "stat"
        /\ UNCHANGED <<writers, path, content, version, written, events, fh, returned>>
    BY <1>10 DEF Fstat
  <2>2. stat' \in File \X Nat
    BY <1>1, <2>1
  <2> QED BY <1>1, <2>1, <2>2 DEF TypeOK
<1>11. CASE Stat
  <2>1. /\ pc' \in {"asleep", "read"} /\ (fh' = fh \/ fh' = [fh EXCEPT !.closed = TRUE])
        /\ UNCHANGED <<writers, path, content, version, written, events, stat, returned>>
    BY <1>11 DEF Stat
  <2>2. fh' \in [closed : BOOLEAN, file : File, pos : Nat, buf : Seq(Byte)]
    BY <1>1, <2>1
  <2> QED BY <1>1, <2>1, <2>2 DEF TypeOK
<1>12. CASE Read
  <2>1. PICK s \in Seq(Byte) : \E n \in 0..Len(s) :
          /\ returned' = IF n = 0 THEN returned ELSE Append(returned, SubSeq(s, 1, n))
          /\ fh' \in [closed : BOOLEAN, file : File, pos : Nat, buf : Seq(Byte)]
          /\ pc' = "asleep" /\ UNCHANGED <<writers, path, content, version, written, events, stat>>
    BY <1>12, ReadFacts
  <2>2. PICK n \in 0..Len(s) :
          /\ returned' = IF n = 0 THEN returned ELSE Append(returned, SubSeq(s, 1, n))
          /\ fh' \in [closed : BOOLEAN, file : File, pos : Nat, buf : Seq(Byte)]
          /\ pc' = "asleep" /\ UNCHANGED <<writers, path, content, version, written, events, stat>>
    BY <2>1
  <2>3. SubSeq(s, 1, n) \in Seq(Byte)
    <3>1. 0 \in 0..Len(s) /\ n \in 0..Len(s) /\ 0 + 1 = 1
      BY <2>1
    <3> QED BY <2>1, <3>1, SubSeqFacts
  <2>4. returned' \in Seq(Seq(Byte))
    BY <1>1, <2>2, <2>3
  <2> QED BY <1>1, <2>2, <2>4 DEF TypeOK
<1>13. CASE UNCHANGED vars
  BY <1>1, <1>13 DEF vars, TypeOK
<1> QED
  BY <1>2, <1>4, <1>5, <1>6, <1>7, <1>8, <1>9, <1>10, <1>11, <1>12, <1>13
     DEF Next, Writers, Probe

(* Type correctness, whatever the writers do.                               *)
THEOREM FileProbeTypeCorrect == Spec => []TypeOK
BY InitTypeOK, TypeStep, PTL DEF Spec

-----------------------------------------------------------------------------
(* Sequences of bytes, put together.                                        *)
LEMMA ByteFacts ==
  ASSUME NEW s \in Seq(Byte)
  PROVE  Len(s) \in Nat /\ \A i \in 1..Len(s) : s[i] \in Byte /\ s[i].no \in Nat
<1>1. Len(s) \in Nat /\ \A i \in 1..Len(s) : s[i] \in Byte
  OBVIOUS
<1> QED BY <1>1 DEF Byte

LEMMA ConcatFacts ==
  ASSUME NEW s \in Seq(Byte), NEW t \in Seq(Byte)
  PROVE  /\ s \o t \in Seq(Byte) /\ Len(s \o t) = Len(s) + Len(t)
         /\ \A i \in 1..Len(s \o t) :
              \/ i \in 1..Len(s) /\ (s \o t)[i] = s[i]
              \/ i > Len(s) /\ i - Len(s) \in 1..Len(t) /\ (s \o t)[i] = t[i - Len(s)]
OBVIOUS

LEMMA ConcatAscending ==
  ASSUME NEW s \in Seq(Byte), NEW t \in Seq(Byte), Ascending(s), Ascending(t), Precede(s, t)
  PROVE  Ascending(s \o t)
<1> DEFINE u == s \o t
<1>1. /\ \A i \in 1..Len(u) :
           \/ i \in 1..Len(s) /\ u[i] = s[i]
           \/ i > Len(s) /\ i - Len(s) \in 1..Len(t) /\ u[i] = t[i - Len(s)]
      /\ Len(s) \in Nat /\ Len(t) \in Nat
  BY ConcatFacts
<1> HIDE DEF u
<1>2. ASSUME NEW i \in 1..Len(u), NEW j \in 1..Len(u), i < j PROVE u[i].no < u[j].no
  <2>1. CASE j \in 1..Len(s) /\ u[j] = s[j]
    <3>1. i \in 1..Len(s) /\ u[i] = s[i]
      BY <1>1, <1>2, <2>1
    <3> QED BY <1>2, <2>1, <3>1 DEF Ascending
  <2>2. CASE j - Len(s) \in 1..Len(t) /\ u[j] = t[j - Len(s)]
    <3>1. CASE i \in 1..Len(s) /\ u[i] = s[i]
      BY <2>2, <3>1 DEF Precede
    <3>2. CASE i - Len(s) \in 1..Len(t) /\ u[i] = t[i - Len(s)]
      <4>1. i - Len(s) < j - Len(s)
        BY <1>1, <1>2
      <4> QED BY <2>2, <3>2, <4>1 DEF Ascending
    <3> QED BY <1>1, <3>1, <3>2
  <2> QED BY <1>1, <2>1, <2>2
<1> QED BY <1>2 DEF Ascending, u

LEMMA ConcatUpto ==
  ASSUME NEW s \in Seq(Byte), NEW t \in Seq(Byte), NEW n, Upto(s, n), Upto(t, n)
  PROVE  Upto(s \o t, n)
<1> DEFINE u == s \o t
<1>1. \A i \in 1..Len(u) :
        \/ i \in 1..Len(s) /\ u[i] = s[i]
        \/ i > Len(s) /\ i - Len(s) \in 1..Len(t) /\ u[i] = t[i - Len(s)]
  BY ConcatFacts
<1> HIDE DEF u
<1>2. Upto(u, n)
  BY <1>1 DEF Upto
<1> QED BY <1>2 DEF u

LEMMA ConcatPrecede ==
  ASSUME NEW s \in Seq(Byte), NEW t \in Seq(Byte), NEW v
  PROVE  /\ Precede(s, v) /\ Precede(t, v) => Precede(s \o t, v)
         /\ Precede(v, s) /\ Precede(v, t) => Precede(v, s \o t)
<1> DEFINE u == s \o t
<1>1. \A i \in 1..Len(u) :
        \/ i \in 1..Len(s) /\ u[i] = s[i]
        \/ i > Len(s) /\ i - Len(s) \in 1..Len(t) /\ u[i] = t[i - Len(s)]
  BY ConcatFacts
<1> HIDE DEF u
<1>2. Precede(s, v) /\ Precede(t, v) => Precede(u, v)
  BY <1>1 DEF Precede
<1>3. Precede(v, s) /\ Precede(v, t) => Precede(v, u)
  BY <1>1 DEF Precede
<1> QED BY <1>2, <1>3 DEF u

(* A file gets longer.                                                      *)
LEMMA ConcatUnread ==
  ASSUME NEW s, NEW handle, NEW file \in Seq(Byte), NEW new \in Seq(Byte),
         BeforeUnread(s, handle, file), Precede(s, new)
  PROVE  BeforeUnread(s, handle, file \o new)
<1> DEFINE u == file \o new
<1>1. \A i \in 1..Len(u) :
        \/ i \in 1..Len(file) /\ u[i] = file[i]
        \/ i > Len(file) /\ i - Len(file) \in 1..Len(new) /\ u[i] = new[i - Len(file)]
  BY ConcatFacts
<1> HIDE DEF u
<1>2. ASSUME NEW i \in 1..Len(s), NEW j \in 1..Len(u), j > handle.pos
      PROVE  s[i].no < u[j].no
  <2>1. CASE j \in 1..Len(file) /\ u[j] = file[j]
    BY <1>2, <2>1 DEF BeforeUnread
  <2>2. CASE j - Len(file) \in 1..Len(new) /\ u[j] = new[j - Len(file)]
    BY <2>2 DEF Precede
  <2> QED BY <1>1, <2>1, <2>2
<1>3. BeforeUnread(s, handle, u)
  BY <1>2 DEF BeforeUnread
<1> QED BY <1>3 DEF u

(* A sequence of bytes, cut in two.                                         *)
Cut(s, n, a, b) ==
  /\ a \in Seq(Byte) /\ b \in Seq(Byte) /\ Len(a) = n /\ Len(b) = Len(s) - n
  /\ \A i \in 1..n : i \in 1..Len(s) /\ a[i] = s[i]
  /\ \A i \in 1..Len(s) - n : n + i \in 1..Len(s) /\ b[i] = s[n + i]

LEMMA CutFacts ==
  ASSUME NEW s \in Seq(Byte), NEW n \in 0..Len(s)
  PROVE  Cut(s, n, SubSeq(s, 1, n), SubSeq(s, n + 1, Len(s)))
<1>1. /\ Len(s) \in Nat /\ n \in Nat /\ 0 \in 0..Len(s) /\ n \in 0..Len(s) /\ Len(s) \in n..Len(s)
      /\ 0 + 1 = 1 /\ n - 0 = n
  OBVIOUS
<1>2. /\ SubSeq(s, 1, n) \in Seq(Byte) /\ Len(SubSeq(s, 1, n)) = n
      /\ \A i \in 1..n : SubSeq(s, 1, n)[i] = s[0 + i]
  <2>1. /\ SubSeq(s, 0 + 1, n) \in Seq(Byte) /\ Len(SubSeq(s, 0 + 1, n)) = n - 0
        /\ \A i \in 1..n - 0 : SubSeq(s, 0 + 1, n)[i] = s[0 + i]
    BY <1>1, SubSeqFacts
  <2> QED BY <1>1, <2>1
<1>3. /\ SubSeq(s, n + 1, Len(s)) \in Seq(Byte) /\ Len(SubSeq(s, n + 1, Len(s))) = Len(s) - n
      /\ \A i \in 1..Len(s) - n : SubSeq(s, n + 1, Len(s))[i] = s[n + i]
  BY <1>1, SubSeqFacts
<1>4. /\ \A i \in 1..n : i \in 1..Len(s) /\ 0 + i = i
      /\ \A i \in 1..Len(s) - n : n + i \in 1..Len(s)
  BY <1>1
<1> QED BY <1>2, <1>3, <1>4 DEF Cut

LEMMA CutInOrder ==
  ASSUME NEW s \in Seq(Byte), NEW n \in 0..Len(s), NEW a, NEW b, Cut(s, n, a, b)
  PROVE  /\ Ascending(s) => Ascending(a) /\ Ascending(b) /\ Precede(a, b)
         /\ \A m : Upto(s, m) => Upto(a, m) /\ Upto(b, m)
         /\ \A v : Precede(v, s) => Precede(v, a) /\ Precede(v, b)
         /\ \A h, f : BeforeUnread(s, h, f) => BeforeUnread(a, h, f) /\ BeforeUnread(b, h, f)
<1>1. /\ Len(s) \in Nat /\ n \in Nat /\ Len(a) = n /\ Len(b) = Len(s) - n
      /\ \A i \in 1..Len(a) : i \in 1..Len(s) /\ a[i] = s[i]
      /\ \A i \in 1..Len(b) : n + i \in 1..Len(s) /\ b[i] = s[n + i]
  BY DEF Cut
<1>2. Ascending(s) => Ascending(a) /\ Ascending(b) /\ Precede(a, b)
  <2> SUFFICES ASSUME Ascending(s) PROVE Ascending(a) /\ Ascending(b) /\ Precede(a, b)
    OBVIOUS
  <2>1. Ascending(a)
    BY <1>1 DEF Ascending
  <2>2. Ascending(b)
    <3>1. \A i, j \in 1..Len(b) : i < j => n + i < n + j
      BY <1>1
    <3> QED BY <1>1, <3>1 DEF Ascending
  <2>3. Precede(a, b)
    <3>1. \A i \in 1..Len(a) : \A j \in 1..Len(b) : i < n + j
      BY <1>1
    <3> QED BY <1>1, <3>1 DEF Ascending, Precede
  <2> QED BY <2>1, <2>2, <2>3
<1>3. \A m : Upto(s, m) => Upto(a, m) /\ Upto(b, m)
  BY <1>1 DEF Upto
<1>4. \A v : Precede(v, s) => Precede(v, a) /\ Precede(v, b)
  BY <1>1 DEF Precede
<1>5. \A h, f : BeforeUnread(s, h, f) => BeforeUnread(a, h, f) /\ BeforeUnread(b, h, f)
  BY <1>1 DEF BeforeUnread
<1> QED BY <1>2, <1>3, <1>4, <1>5

LEMMA BytesFacts ==
  ASSUME TypeOK
  PROVE  Bytes \in Seq(Byte) /\ \A i \in 1..Len(Bytes) : Bytes[i] \in Byte /\ Bytes[i].no \in Nat
<1>1. returned \in Seq(Seq(Byte)) /\ <<>> \in Seq(Byte)
  BY DEF TypeOK
<1>2. Bytes \in Seq(Byte)
  BY <1>1, FlattenFacts DEF Bytes
<1>3. \A i \in 1..Len(Bytes) : Bytes[i] \in Byte
  <2> HIDE DEF Bytes
  <2> QED BY <1>2
<1> QED BY <1>2, <1>3 DEF Byte

LEMMA InOrderInit == Init => InOrder
<1> SUFFICES ASSUME Init PROVE InOrder
  OBVIOUS
<1>1. returned = <<>> /\ fh = OpenAt(1, Backlog)
  BY DEF Init
<1>2. PICK line \in Seq(Byte) :
        /\ content = [f \in File |-> IF f = 1 THEN line ELSE <<>>] /\ written = Len(line)
        /\ \A i \in 1..Len(line) : line[i].no = i
  BY LogFacts
<1>3. Ascending(line) /\ Upto(line, written) /\ Ascending(<<>>) /\ Upto(<<>>, written)
  <2>1. Len(line) \in Nat
    OBVIOUS
  <2> QED BY <1>2, <2>1 DEF Ascending, Upto
<1>4. \A f \in File : Ascending(content[f]) /\ Upto(content[f], written)
  BY <1>2, <1>3
<1>5. Bytes = <<>>
  BY <1>1 DEF Bytes, FlattenSeq
<1>6. fh.buf = <<>>
  BY <1>1 DEF OpenAt
<1> QED BY <1>3, <1>4, <1>5, <1>6 DEF InOrder, Precede, BeforeUnread

(* No step brings bytes out of order, on any of their ways.                 *)
LEMMA InOrderStep == TypeOK /\ InOrder /\ [Next]_vars => InOrder'
<1> SUFFICES ASSUME TypeOK, InOrder, [Next]_vars PROVE InOrder'
  OBVIOUS
<1> USE DEF fileVars, probeVars
<1> DEFINE file == content[fh.file]
<1>1. /\ Bytes \in Seq(Byte) /\ fh.buf \in Seq(Byte) /\ file \in Seq(Byte)
      /\ written \in Nat /\ fh.pos \in Nat /\ fh.file \in File
      /\ content \in [File -> Seq(Byte)] /\ path \in {0} \cup File
  BY BytesFacts, TypeFacts DEF TypeOK
<1>2. /\ \A f \in File : Ascending(content[f]) /\ Upto(content[f], written)
      /\ Ascending(Bytes) /\ Upto(Bytes, written) /\ Precede(Bytes, fh.buf)
      /\ Ascending(fh.buf) /\ Upto(fh.buf, written)
      /\ BeforeUnread(Bytes, fh, file) /\ BeforeUnread(fh.buf, fh, file)
  BY DEF InOrder
<1>3. UNCHANGED returned => Bytes' = Bytes
  BY DEF Bytes
<1>4. CASE UNCHANGED <<content, written, returned>> /\ fh' \in {fh, [fh EXCEPT !.closed = TRUE]}
  <2>1. fh'.file = fh.file /\ fh'.pos = fh.pos /\ fh'.buf = fh.buf
    BY <1>4, TypeFacts
  <2> HIDE DEF file
  <2>2. content'[fh'.file] = file
    BY <1>4, <2>1 DEF file
  <2>3. BeforeUnread(Bytes, fh', file) /\ BeforeUnread(fh.buf, fh', file)
    BY <1>2, <2>1 DEF BeforeUnread
  <2>4. BeforeUnread(Bytes', fh', content'[fh'.file]) /\ BeforeUnread(fh'.buf, fh', content'[fh'.file])
    BY <1>3, <1>4, <2>1, <2>2, <2>3
  <2>5. Ascending(Bytes') /\ Upto(Bytes', written') /\ Precede(Bytes', fh'.buf)
        /\ Ascending(fh'.buf) /\ Upto(fh'.buf, written')
    BY <1>2, <1>3, <1>4, <2>1
  <2> QED BY <1>2, <1>4, <2>4, <2>5 DEF InOrder
<1>5. ASSUME NEW name, NEW newline \in BOOLEAN, Write(name, newline) PROVE InOrder'
  <2>1. path \in File /\ UNCHANGED <<fh, returned>>
    BY <1>5, WriteFacts
  <2>2. PICK n \in 1..2 : \E new \in Seq(Byte) :
          /\ written' = written + n /\ Len(new) = n
          /\ \A i \in 1..n : new[i].no = written + i /\ new[i].cut = (i = n)
          /\ content' = [content EXCEPT ![path] = @ \o new]
    BY <1>5, WriteFacts
  <2>3. PICK new \in Seq(Byte) :
          /\ written' = written + n /\ Len(new) = n
          /\ \A i \in 1..n : new[i].no = written + i
          /\ content' = [content EXCEPT ![path] = @ \o new]
    BY <2>2
  <2> DEFINE old == content[path]
  <2>4. old \in Seq(Byte) /\ Ascending(old) /\ Upto(old, written)
    BY <1>1, <1>2, <2>1
  <2>5. \A f \in File : content'[f] = IF f = path THEN old \o new ELSE content[f]
    BY <1>1, <2>3
  <2> HIDE DEF old, file
  <2>6. Ascending(new) /\ Upto(new, written + n)
    BY <1>1, <2>3 DEF Ascending, Upto
  <2>7. ASSUME NEW s \in Seq(Byte), Upto(s, written)
        PROVE  Precede(s, new) /\ Upto(s, written + n)
    <3>1. \A i \in 1..Len(s) : s[i].no \in Nat /\ s[i].no <= written
      BY <2>7, ByteFacts DEF Upto
    <3>2. \A i \in 1..Len(s) : s[i].no <= written + n
      BY <1>1, <3>1
    <3>3. \A i \in 1..Len(s) : \A j \in 1..n : s[i].no < written + j
      BY <1>1, <3>1
    <3>4. Precede(s, new)
      BY <2>3, <3>3 DEF Precede
    <3> QED BY <3>2, <3>4 DEF Upto
  <2>8. Ascending(old \o new) /\ Upto(old \o new, written + n)
    BY <2>4, <2>6, <2>7, ConcatAscending, ConcatUpto
  <2>9. ASSUME NEW f \in File PROVE Ascending(content'[f]) /\ Upto(content'[f], written')
    <3>1. CASE f = path
      BY <2>3, <2>5, <2>8, <3>1
    <3>2. CASE f # path
      <4>1. content[f] \in Seq(Byte)
        BY <1>1
      <4> QED BY <1>2, <2>3, <2>5, <2>7, <3>2, <4>1
    <3> QED BY <3>1, <3>2
  <2>10. ASSUME NEW s \in Seq(Byte), Upto(s, written), BeforeUnread(s, fh, file)
         PROVE  BeforeUnread(s, fh, content'[fh.file])
    <3>1. CASE fh.file # path
      BY <1>1, <2>5, <2>10, <3>1 DEF file
    <3>2. CASE fh.file = path
      <4>1. file = old /\ content'[fh.file] = old \o new
        BY <1>1, <2>5, <3>2 DEF file, old
      <4> QED BY <2>4, <2>7, <2>10, <4>1, ConcatUnread
    <3> QED BY <3>1, <3>2
  <2>11. BeforeUnread(Bytes, fh, content'[fh.file]) /\ BeforeUnread(fh.buf, fh, content'[fh.file])
    BY <1>1, <1>2, <2>10
  <2>12. Upto(Bytes, written + n) /\ Upto(fh.buf, written + n)
    BY <1>1, <1>2, <2>7
  <2> QED BY <1>2, <1>3, <2>1, <2>3, <2>9, <2>11, <2>12 DEF InOrder
<1>6. CASE Truncate
  <2> DEFINE none == <<>>
  <2>1. content' = [content EXCEPT ![path] = none] /\ UNCHANGED <<written, fh, returned>>
        /\ path \in File
    BY <1>1, <1>6 DEF Truncate, Happens
  <2>2. Ascending(none) /\ Upto(none, written) /\ Len(none) = 0
    BY DEF Ascending, Upto
  <2> HIDE DEF none, file
  <2>3. \A f \in File : content'[f] = IF f = path THEN none ELSE content[f]
    BY <1>1, <2>1
  <2>4. \A f \in File : Ascending(content'[f]) /\ Upto(content'[f], written)
    BY <1>2, <2>2, <2>3
  <2>5. ASSUME NEW s, BeforeUnread(s, fh, file) PROVE BeforeUnread(s, fh, content'[fh.file])
    <3>1. content'[fh.file] \in {none, file}
      BY <1>1, <2>3 DEF file
    <3>2. BeforeUnread(s, fh, none)
      BY <2>2 DEF BeforeUnread
    <3> QED BY <2>5, <3>1, <3>2
  <2>6. BeforeUnread(Bytes, fh, content'[fh.file]) /\ BeforeUnread(fh.buf, fh, content'[fh.file])
    BY <1>2, <2>5
  <2> QED BY <1>2, <1>3, <2>1, <2>4, <2>6 DEF InOrder
<1>7. CASE Reopen
  <2>1. UNCHANGED <<content, written, returned>>
    BY <1>7 DEF Reopen
  <2>2. fh' = fh \/ (path \in File /\ fh' = OpenAt(path, 0))
    BY <1>1, <1>7 DEF Reopen
  <2>3. CASE path \in File /\ fh' = OpenAt(path, 0)
    <3>1. Len(content[path]) \in Nat
      BY <1>1, <2>3
    <3>2. fh'.file = path /\ fh'.pos = Len(content[path]) /\ fh'.buf = <<>>
      BY <2>3, <3>1 DEF OpenAt
    <3>3. BeforeUnread(Bytes, fh', content[path]) /\ BeforeUnread(<<>>, fh', content[path])
      BY <3>1, <3>2 DEF BeforeUnread
    <3>4. Ascending(<<>>) /\ Upto(<<>>, written) /\ Precede(Bytes, <<>>)
      BY DEF Ascending, Upto, Precede
    <3>5. Ascending(fh'.buf) /\ Upto(fh'.buf, written') /\ Precede(Bytes', fh'.buf)
          /\ BeforeUnread(Bytes', fh', content'[fh'.file])
          /\ BeforeUnread(fh'.buf, fh', content'[fh'.file])
      BY <1>3, <2>1, <3>2, <3>3, <3>4
    <3> QED BY <1>2, <1>3, <2>1, <3>5 DEF InOrder
  <2> QED BY <1>4, <2>1, <2>2, <2>3
<1>8. CASE Rotate \/ Delete \/ Touch \/ Wake \/ Fstat \/ Stat \/ UNCHANGED vars
  <2>1. UNCHANGED <<content, written, returned>> /\ fh' \in {fh, [fh EXCEPT !.closed = TRUE]}
    BY <1>8 DEF Rotate, Delete, Touch, Happens, Wake, Fstat, Stat, vars
  <2> QED BY <1>4, <2>1
<1>9. CASE Read
  <2>1. PICK s \in Seq(Byte) : \E n \in 0..Len(s) :
          /\ \/ s = fh.buf /\ fh'.pos = fh.pos
             \/ /\ fh.pos <= Len(file) /\ fh'.pos = Len(file)
                /\ s = fh.buf \o SubSeq(file, fh.pos + 1, Len(file))
          /\ returned' = IF n = 0 THEN returned ELSE Append(returned, SubSeq(s, 1, n))
          /\ fh'.buf = SubSeq(s, n + 1, Len(s)) /\ fh'.file = fh.file
          /\ UNCHANGED <<content, written>>
    BY <1>9, ReadFacts
  <2>2. PICK n \in 0..Len(s) :
          /\ \/ s = fh.buf /\ fh'.pos = fh.pos
             \/ /\ fh.pos <= Len(file) /\ fh'.pos = Len(file)
                /\ s = fh.buf \o SubSeq(file, fh.pos + 1, Len(file))
          /\ returned' = IF n = 0 THEN returned ELSE Append(returned, SubSeq(s, 1, n))
          /\ fh'.buf = SubSeq(s, n + 1, Len(s)) /\ fh'.file = fh.file
          /\ UNCHANGED <<content, written>>
    BY <2>1
  <2>3. Ascending(file) /\ Upto(file, written)
    BY <1>1, <1>2
  <2> HIDE DEF file
  <2>4. /\ Ascending(s) /\ Upto(s, written) /\ Precede(Bytes, s)
        /\ BeforeUnread(s, fh', file) /\ BeforeUnread(Bytes, fh', file)
    <3>1. CASE s = fh.buf /\ fh'.pos = fh.pos
      BY <1>2, <3>1 DEF BeforeUnread
    <3>2. CASE /\ fh.pos <= Len(file) /\ fh'.pos = Len(file)
               /\ s = fh.buf \o SubSeq(file, fh.pos + 1, Len(file))
      <4> DEFINE rest == SubSeq(file, fh.pos + 1, Len(file))
                 read == SubSeq(file, 1, fh.pos)
      <4>1. fh.pos \in 0..Len(file)
        BY <1>1, <3>2
      <4>2. Cut(file, fh.pos, read, rest)
        BY <1>1, <4>1, CutFacts
      <4> HIDE DEF rest, read
      <4>3. Ascending(rest) /\ Upto(rest, written)
        BY <1>1, <2>3, <4>1, <4>2, CutInOrder
      <4>4. \A i \in 1..Len(rest) : fh.pos + i > fh.pos
        BY <1>1, <4>2 DEF Cut
      <4>5. Precede(Bytes, rest) /\ Precede(fh.buf, rest)
        BY <1>2, <4>2, <4>4 DEF BeforeUnread, Precede, Cut
      <4>6. s = fh.buf \o rest
        BY <3>2 DEF rest
      <4>7. rest \in Seq(Byte)
        BY <4>2 DEF Cut
      <4>8. Ascending(s) /\ Upto(s, written) /\ Precede(Bytes, s)
        BY <1>1, <1>2, <4>3, <4>5, <4>6, <4>7, ConcatAscending, ConcatUpto, ConcatPrecede
      <4>9. \A j \in 1..Len(file) : ~(j > fh'.pos)
        BY <1>1, <3>2
      <4> QED BY <4>8, <4>9 DEF BeforeUnread
    <3> QED BY <2>2, <3>1, <3>2
  <2> DEFINE a == SubSeq(s, 1, n)
             b == SubSeq(s, n + 1, Len(s))
  <2>5. /\ a \in Seq(Byte) /\ Ascending(a) /\ Upto(a, written) /\ Precede(Bytes, a)
        /\ Ascending(b) /\ Upto(b, written) /\ Precede(Bytes, b) /\ Precede(a, b)
        /\ BeforeUnread(a, fh', file) /\ BeforeUnread(b, fh', file)
    <3>1. Cut(s, n, a, b)
      BY CutFacts
    <3> HIDE DEF a, b
    <3>2. a \in Seq(Byte)
      BY <3>1 DEF Cut
    <3> QED BY <2>4, <3>1, <3>2, CutInOrder
  <2>6. fh'.buf = b /\ returned' = IF n = 0 THEN returned ELSE Append(returned, a)
    BY <2>2
  <2> HIDE DEF a, b
  <2>7. content'[fh'.file] = file
    BY <2>2 DEF file
  <2>8. /\ Ascending(Bytes') /\ Upto(Bytes', written) /\ Precede(Bytes', b)
        /\ BeforeUnread(Bytes', fh', file)
    <3>1. CASE n = 0
      <4>1. Bytes' = Bytes
        BY <1>3, <2>6, <3>1
      <4> QED BY <1>2, <2>4, <2>5, <4>1
    <3>2. CASE n # 0
      <4>1. returned \in Seq(Seq(Byte))
        BY DEF TypeOK
      <4>2. Bytes' = Bytes \o a
        BY <2>5, <2>6, <3>2, <4>1, FlattenFacts DEF Bytes
      <4>3. Ascending(Bytes') /\ Upto(Bytes', written) /\ Precede(Bytes', b)
        BY <1>1, <1>2, <2>5, <4>2, ConcatAscending, ConcatUpto, ConcatPrecede
      <4>4. BeforeUnread(Bytes \o a, fh', file)
        <5> DEFINE u == Bytes \o a
        <5>1. \A i \in 1..Len(u) :
                \/ i \in 1..Len(Bytes) /\ u[i] = Bytes[i]
                \/ i > Len(Bytes) /\ i - Len(Bytes) \in 1..Len(a) /\ u[i] = a[i - Len(Bytes)]
          BY <1>1, <2>5, ConcatFacts
        <5> HIDE DEF u
        <5>2. BeforeUnread(u, fh', file)
          BY <2>4, <2>5, <5>1 DEF BeforeUnread
        <5> QED BY <5>2 DEF u
      <4> QED BY <4>2, <4>3, <4>4
    <3> QED BY <3>1, <3>2
  <2> QED BY <1>2, <2>2, <2>5, <2>6, <2>7, <2>8 DEF InOrder
<1> QED
  BY <1>5, <1>6, <1>7, <1>8, <1>9 DEF Next, Writers, Probe

(* The inductive invariant: what probe() has returned, what the handle has  *)
(* read ahead and what it has still to read are in the order of writing.    *)
THEOREM InOrderHolds == Spec => [](TypeOK /\ InOrder)
BY InitTypeOK, TypeStep, InOrderInit, InOrderStep, PTL DEF Spec

(* No byte is returned twice, and none before one written earlier, whatever *)
(* happens to the file between any two of the probe's system calls.         *)
THEOREM BytesInOrder == Spec => []InOrderOnce
<1>1. InOrder => InOrderOnce
  BY DEF InOrder, Ascending, InOrderOnce
<1> QED BY <1>1, InOrderHolds, PTL

-----------------------------------------------------------------------------
(* Whole lines.                                                             *)

(* Lines of a file stay lines of it when it gets longer.                    *)
LEMMA BetweenGrows ==
  ASSUME NEW s \in Seq(Byte), NEW new \in Seq(Byte), NEW t, NEW b, NEW e, Between(t, s, b, e)
  PROVE  Between(t, s \o new, b, e)
<1> DEFINE u == s \o new
<1>1. /\ Len(u) \in Nat /\ Len(s) \in Nat /\ Len(s) <= Len(u)
      /\ \A i \in 1..Len(s) : i \in 1..Len(u) /\ u[i] = s[i]
  OBVIOUS
<1> HIDE DEF u
<1>2. /\ b \in 0..Len(s) /\ e \in b..Len(s) /\ Boundary(s, b) /\ Boundary(s, e)
      /\ Len(t) = e - b /\ \A i \in 1..e - b : t[i] = s[b + i]
  BY DEF Between
<1>3. Boundary(u, b) /\ Boundary(u, e)
  BY <1>1, <1>2 DEF Boundary
<1>4. \A i \in 1..e - b : b + i \in 1..Len(s)
  BY <1>1, <1>2
<1>5. b \in 0..Len(u) /\ e \in b..Len(u)
  BY <1>1, <1>2
<1>6. \A i \in 1..e - b : t[i] = u[b + i]
  BY <1>1, <1>2, <1>4
<1>7. Between(t, u, b, e)
  BY <1>2, <1>3, <1>5, <1>6 DEF Between
<1> QED BY <1>7 DEF u

LEMMA LinesGrow ==
  ASSUME NEW s \in Seq(Byte), NEW new \in Seq(Byte), NEW t, LinesOf(t, s)
  PROVE  LinesOf(t, s \o new)
<1>1. PICK b \in 0..Len(s) : \E e \in b..Len(s) : Between(t, s, b, e)
  BY DEF LinesOf
<1>2. PICK e \in b..Len(s) : Between(t, s, b, e)
  BY <1>1
<1> DEFINE u == s \o new
<1>3. Between(t, u, b, e)
  BY <1>2, BetweenGrows
<1> HIDE DEF u
<1>4. b \in 0..Len(u) /\ e \in b..Len(u)
  BY <1>3 DEF Between
<1>5. LinesOf(t, u)
  BY <1>3, <1>4 DEF LinesOf
<1> QED BY <1>5 DEF u

(* Reading on, to the end of a file that ends with a line.                  *)
LEMMA BetweenReads ==
  ASSUME NEW s \in Seq(Byte), NEW t \in Seq(Byte), NEW b, NEW e, Between(t, s, b, e),
         Boundary(s, Len(s)), NEW a, NEW rest, Cut(s, e, a, rest)
  PROVE  Between(t \o rest, s, b, Len(s))
<1> DEFINE u == t \o rest
<1>1. /\ b \in 0..Len(s) /\ e \in b..Len(s) /\ Boundary(s, b) /\ Len(s) \in Nat
      /\ Len(t) = e - b /\ \A i \in 1..e - b : t[i] = s[b + i]
  BY DEF Between
<1>2. /\ rest \in Seq(Byte) /\ Len(rest) = Len(s) - e
      /\ \A i \in 1..Len(s) - e : rest[i] = s[e + i]
  BY DEF Cut
<1>3. /\ Len(u) = Len(t) + Len(rest)
      /\ \A i \in 1..Len(u) :
           \/ i \in 1..Len(t) /\ u[i] = t[i]
           \/ i > Len(t) /\ i - Len(t) \in 1..Len(rest) /\ u[i] = rest[i - Len(t)]
  BY <1>2, ConcatFacts
<1> HIDE DEF u
<1>4. Len(u) = Len(s) - b
  BY <1>1, <1>2, <1>3
<1>5. ASSUME NEW i \in 1..Len(s) - b PROVE u[i] = s[b + i]
  <2>1. i \in 1..Len(u)
    BY <1>4
  <2>2. CASE i \in 1..Len(t) /\ u[i] = t[i]
    BY <1>1, <2>2
  <2>3. CASE i - Len(t) \in 1..Len(rest) /\ u[i] = rest[i - Len(t)]
    <3>1. i - Len(t) \in 1..Len(s) - e /\ e + (i - Len(t)) = b + i
      BY <1>1, <1>2, <2>3
    <3> QED BY <1>2, <2>3, <3>1
  <2> QED BY <1>3, <2>1, <2>2, <2>3
<1>6. Len(s) \in b..Len(s)
  BY <1>1
<1>7. Between(u, s, b, Len(s))
  BY <1>1, <1>4, <1>5, <1>6 DEF Between
<1> QED BY <1>7 DEF u

(* Lines, cut where one ends.                                               *)
LEMMA BetweenCut ==
  ASSUME NEW s \in Seq(Byte), NEW t \in Seq(Byte), NEW b, NEW e, Between(t, s, b, e),
         NEW n \in 0..Len(t), n # 0 => n \in LineEnds(t), NEW a, NEW c, Cut(t, n, a, c)
  PROVE  Between(a, s, b, b + n) /\ Between(c, s, b + n, e)
<1>1. /\ b \in 0..Len(s) /\ e \in b..Len(s) /\ Boundary(s, b) /\ Boundary(s, e) /\ Len(s) \in Nat
      /\ Len(t) = e - b /\ \A i \in 1..e - b : t[i] = s[b + i]
  BY DEF Between
<1>2. /\ Len(a) = n /\ Len(c) = Len(t) - n
      /\ \A i \in 1..n : i \in 1..Len(t) /\ a[i] = t[i]
      /\ \A i \in 1..Len(t) - n : n + i \in 1..Len(t) /\ c[i] = t[n + i]
  BY DEF Cut
<1>3. /\ b + n \in 0..Len(s) /\ b + n \in b..Len(s) /\ e \in (b + n)..Len(s)
      /\ (b + n) - b = n /\ e - (b + n) = Len(t) - n
  BY <1>1
<1>4. Boundary(s, b + n)
  <2>1. CASE n = 0
    BY <1>1, <2>1
  <2>2. CASE n = Len(t)
    <3>1. b + n = e
      BY <1>1, <2>2
    <3> QED BY <1>1, <3>1
  <2>3. CASE n # 0 /\ t[n].newline
    <3>1. t[n] = s[b + n] /\ b + n \in 1..Len(s)
      BY <1>1, <2>3
    <3> QED BY <2>3, <3>1 DEF Boundary, Ends
  <2> QED BY <2>1, <2>2, <2>3 DEF LineEnds
<1>5. \A i \in 1..n : a[i] = s[b + i]
  BY <1>1, <1>2
<1>6. \A i \in 1..Len(t) - n : c[i] = s[(b + n) + i]
  <2>1. TAKE i \in 1..Len(t) - n
  <2>2. n + i \in 1..e - b /\ b + (n + i) = (b + n) + i
    BY <1>1
  <2>3. t[n + i] = s[b + (n + i)]
    BY <1>1, <2>2
  <2> QED BY <1>2, <2>2, <2>3
<1> QED BY <1>1, <1>2, <1>3, <1>4, <1>5, <1>6 DEF Between

(* A handle that has read nothing yet.                                      *)
LEMMA BetweenNone ==
  ASSUME NEW s \in Seq(Byte), NEW p \in 0..Len(s), Boundary(s, p)
  PROVE  Between(<<>>, s, p, p)
<1>1. Len(s) \in Nat /\ p \in p..Len(s) /\ p - p = 0 /\ Len(<<>>) = 0
  OBVIOUS
<1> DEFINE none == <<>>
<1>2. Len(none) = 0
  OBVIOUS
<1> HIDE DEF none
<1>3. Between(none, s, p, p)
  BY <1>1, <1>2 DEF Between
<1> QED BY <1>3 DEF none

LEMMA WholeInit == Init => Whole
<1> SUFFICES ASSUME Init PROVE BetweenLines
  BY DEF Whole
<1>1. returned = <<>> /\ fh = OpenAt(1, Backlog) /\ 1 \in File /\ Backlog \in Nat
  BY FileProbeAssumption DEF Init, File
<1> DEFINE none == <<>>
<1>2. PICK line \in Seq(Byte) :
        /\ content = [f \in File |-> IF f = 1 THEN line ELSE none]
        /\ \A i \in 1..Len(line) : i \in {Len(line), Len(line) - Backlog} => line[i].cut
  BY LogFacts
<1>3. Len(line) \in Nat /\ Len(none) = 0
  OBVIOUS
<1> HIDE DEF none
<1>4. content[1] = line /\ \A f \in File : content[f] \in {line, none}
  BY <1>1, <1>2
<1>5. Boundary(line, Len(line))
  <2>1. Len(line) # 0 => Len(line) \in 1..Len(line) /\ line[Len(line)].cut
    BY <1>2, <1>3
  <2> QED BY <2>1 DEF Boundary, Ends
<1>6. fh.file = 1 /\ fh.buf = <<>> /\ fh.pos \in 0..Len(line) /\ Boundary(line, fh.pos)
  <2>1. /\ fh.file = 1 /\ fh.buf = <<>>
        /\ fh.pos = IF Backlog > Len(line) THEN 0 ELSE Len(line) - Backlog
    BY <1>1, <1>4 DEF OpenAt
  <2>2. fh.pos \in 0..Len(line) /\ (fh.pos # 0 => fh.pos \in 1..Len(line) /\ line[fh.pos].cut)
    BY <1>1, <1>2, <1>3, <2>1
  <2> QED BY <2>1, <2>2 DEF Boundary, Ends
<1>7. \A f \in File : Boundary(content[f], Len(content[f]))
  BY <1>3, <1>4, <1>5 DEF Boundary
<1>8. Between(fh.buf, content[fh.file], fh.pos, fh.pos)
  BY <1>4, <1>6, BetweenNone
<1>9. Len(returned) = 0 /\ fh.pos \in 0..fh.pos
  BY <1>1, <1>6
<1> QED BY <1>7, <1>8, <1>9 DEF BetweenLines

LEMMA WholeStep == TypeOK /\ Whole /\ [Next]_vars => Whole'
<1> SUFFICES ASSUME TypeOK, Whole, [Next]_vars, LineWise' PROVE BetweenLines'
  BY DEF Whole
<1> USE DEF fileVars, probeVars
<1> DEFINE file == content[fh.file]
<1>1. /\ fh.buf \in Seq(Byte) /\ file \in Seq(Byte) /\ fh.pos \in Nat /\ fh.file \in File
      /\ content \in [File -> Seq(Byte)] /\ path \in {0} \cup File
      /\ returned \in Seq(Seq(Byte))
  BY TypeFacts DEF TypeOK
<1>2. UNCHANGED writers
  BY DEF Next, Probe, Writers, Wake, Reopen, Fstat, Stat, Read, Write, Rotate, Delete, Truncate,
         Touch, Happens, vars
<1>3. LineWise
  BY <1>2 DEF LineWise
<1>4. /\ \A f \in File : Boundary(content[f], Len(content[f]))
      /\ \E b \in 0..fh.pos : Between(fh.buf, file, b, fh.pos)
      /\ \A k \in 1..Len(returned) : \E f \in File : LinesOf(returned[k], content[f])
  BY <1>3 DEF Whole, BetweenLines
<1>5. CASE UNCHANGED <<content, returned>> /\ fh' \in {fh, [fh EXCEPT !.closed = TRUE]}
  <2>1. fh'.file = fh.file /\ fh'.pos = fh.pos /\ fh'.buf = fh.buf
    BY <1>5, TypeFacts
  <2> HIDE DEF file
  <2>2. content'[fh'.file] = file
    BY <1>5, <2>1 DEF file
  <2>3. \E b \in 0..fh'.pos : Between(fh'.buf, content'[fh'.file], b, fh'.pos)
    BY <1>4, <2>1, <2>2
  <2> QED BY <1>4, <1>5, <2>3 DEF BetweenLines
<1>6. ASSUME NEW name, NEW newline \in BOOLEAN, Write(name, newline) PROVE BetweenLines'
  <2>1. path \in File /\ UNCHANGED <<fh, returned>>
    BY <1>6, WriteFacts
  <2>2. PICK n \in 1..2 : \E new \in Seq(Byte) :
          /\ written' = written + n /\ Len(new) = n
          /\ \A i \in 1..n : new[i].no = written + i /\ new[i].cut = (i = n)
          /\ content' = [content EXCEPT ![path] = @ \o new]
    BY <1>6, WriteFacts
  <2>3. PICK new \in Seq(Byte) :
          /\ Len(new) = n
          /\ \A i \in 1..n : new[i].no = written + i /\ new[i].cut = (i = n)
          /\ content' = [content EXCEPT ![path] = @ \o new]
    BY <2>2
  <2>4. Ends(new[n])
    BY <2>3, n \in 1..n DEF Ends
  <2> DEFINE old == content[path]
  <2>5. old \in Seq(Byte)
    BY <1>1, <2>1
  <2>6. \A f \in File : content'[f] = IF f = path THEN old \o new ELSE content[f]
    BY <1>1, <2>3
  <2>7. file = content[fh.file]
    OBVIOUS
  <2>8. old = content[path]
    OBVIOUS
  <2> HIDE DEF old, file
  <2>9. Boundary(old \o new, Len(old \o new))
    <3> DEFINE u == old \o new
    <3>1. Len(u) = Len(old) + n /\ u[Len(old) + n] = new[n] /\ Len(old) \in Nat
      BY <2>3, <2>5
    <3> HIDE DEF u
    <3>2. Boundary(u, Len(u))
      BY <2>4, <3>1 DEF Boundary
    <3> QED BY <3>2 DEF u
  <2>10. \A f \in File : Boundary(content'[f], Len(content'[f]))
    BY <1>4, <2>6, <2>9
  <2>11. ASSUME NEW t, NEW f \in File, LinesOf(t, content[f]) PROVE LinesOf(t, content'[f])
    <3>1. CASE f = path
      BY <2>5, <2>6, <2>8, <2>11, <3>1, LinesGrow
    <3>2. CASE f # path
      BY <2>6, <2>11, <3>2
    <3> QED BY <3>1, <3>2
  <2>12. ASSUME NEW b, Between(fh.buf, file, b, fh.pos)
         PROVE  Between(fh.buf, content'[fh.file], b, fh.pos)
    <3>1. CASE fh.file = path
      BY <1>1, <2>5, <2>6, <2>7, <2>8, <2>12, <3>1, BetweenGrows
    <3>2. CASE fh.file # path
      BY <1>1, <2>6, <2>7, <2>12, <3>2
    <3> QED BY <3>1, <3>2
  <2>13. \A k \in 1..Len(returned) : \E f \in File : LinesOf(returned[k], content'[f])
    BY <1>4, <2>11
  <2>14. \E b \in 0..fh.pos : Between(fh.buf, content'[fh.file], b, fh.pos)
    BY <1>4, <2>12
  <2> QED BY <2>1, <2>10, <2>13, <2>14 DEF BetweenLines
<1>7. CASE Reopen
  <2>1. UNCHANGED <<content, returned>>
    BY <1>7 DEF Reopen
  <2>2. fh' = fh \/ (path \in File /\ fh' = OpenAt(path, 0))
    BY <1>1, <1>7 DEF Reopen
  <2>3. CASE path \in File /\ fh' = OpenAt(path, 0)
    <3>1. Len(content[path]) \in Nat /\ content[path] \in Seq(Byte)
      BY <1>1, <2>3
    <3>2. fh'.file = path /\ fh'.pos = Len(content[path]) /\ fh'.buf = <<>>
      BY <2>3, <3>1 DEF OpenAt
    <3>3. Between(<<>>, content[path], Len(content[path]), Len(content[path]))
      BY <1>4, <2>3, <3>1, BetweenNone
    <3>4. fh'.pos \in 0..fh'.pos
      BY <3>1, <3>2
    <3> QED BY <1>4, <2>1, <3>2, <3>3, <3>4 DEF BetweenLines
  <2> QED BY <1>5, <2>1, <2>2, <2>3
<1>8. CASE Rotate \/ Delete \/ Touch \/ Wake \/ Fstat \/ Stat \/ UNCHANGED vars
  <2>1. UNCHANGED <<content, returned>> /\ fh' \in {fh, [fh EXCEPT !.closed = TRUE]}
    BY <1>8 DEF Rotate, Delete, Touch, Happens, Wake, Fstat, Stat, vars
  <2> QED BY <1>5, <2>1
<1>9. CASE Read
  <2>1. PICK s \in Seq(Byte) : \E n \in 0..Len(s) :
          /\ \/ s = fh.buf /\ fh'.pos = fh.pos
             \/ /\ fh.pos <= Len(file) /\ fh'.pos = Len(file)
                /\ s = fh.buf \o SubSeq(file, fh.pos + 1, Len(file))
          /\ n # 0 => n \in LineEnds(s)
          /\ returned' = IF n = 0 THEN returned ELSE Append(returned, SubSeq(s, 1, n))
          /\ fh'.buf = SubSeq(s, n + 1, Len(s)) /\ fh'.file = fh.file
          /\ UNCHANGED content
    BY <1>9, ReadFacts
  <2>2. PICK n \in 0..Len(s) :
          /\ \/ s = fh.buf /\ fh'.pos = fh.pos
             \/ /\ fh.pos <= Len(file) /\ fh'.pos = Len(file)
                /\ s = fh.buf \o SubSeq(file, fh.pos + 1, Len(file))
          /\ n # 0 => n \in LineEnds(s)
          /\ returned' = IF n = 0 THEN returned ELSE Append(returned, SubSeq(s, 1, n))
          /\ fh'.buf = SubSeq(s, n + 1, Len(s)) /\ fh'.file = fh.file
          /\ UNCHANGED content
    BY <2>1
  <2>3. Boundary(file, Len(file))
    BY <1>1, <1>4
  <2>4. content'[fh'.file] = file
    BY <2>2
  <2>5. PICK b \in 0..fh.pos : Between(fh.buf, file, b, fh.pos)
    BY <1>4
  <2> HIDE DEF file
  <2>6. Between(s, file, b, fh'.pos)
    <3>1. CASE s = fh.buf /\ fh'.pos = fh.pos
      BY <2>5, <3>1
    <3>2. CASE /\ fh.pos <= Len(file) /\ fh'.pos = Len(file)
               /\ s = fh.buf \o SubSeq(file, fh.pos + 1, Len(file))
      <4> DEFINE rest == SubSeq(file, fh.pos + 1, Len(file))
                 read == SubSeq(file, 1, fh.pos)
      <4>1. fh.pos \in 0..Len(file)
        BY <1>1, <3>2
      <4>2. Cut(file, fh.pos, read, rest) /\ s = fh.buf \o rest
        BY <1>1, <3>2, <4>1, CutFacts
      <4> HIDE DEF rest, read
      <4>3. Between(fh.buf \o rest, file, b, Len(file))
        BY <1>1, <2>3, <2>5, <4>2, BetweenReads
      <4> QED BY <3>2, <4>2, <4>3
    <3> QED BY <2>2, <3>1, <3>2
  <2> DEFINE a == SubSeq(s, 1, n)
             c == SubSeq(s, n + 1, Len(s))
  <2>7. Cut(s, n, a, c) /\ fh'.buf = c
        /\ returned' = IF n = 0 THEN returned ELSE Append(returned, a)
    BY <2>2, CutFacts
  <2> HIDE DEF a, c
  <2>8. n # 0 => n \in LineEnds(s)
    BY <2>2
  <2>9. Between(a, file, b, b + n) /\ Between(c, file, b + n, fh'.pos)
    BY <1>1, <2>6, <2>7, <2>8, BetweenCut
  <2>10. LinesOf(a, file)
    <3>1. b \in 0..Len(file) /\ b + n \in b..Len(file)
      BY <2>9 DEF Between
    <3> QED BY <2>9, <3>1 DEF LinesOf
  <2>11. \E d \in 0..fh'.pos : Between(fh'.buf, content'[fh'.file], d, fh'.pos)
    <3>1. b + n \in 0..Len(file) /\ fh'.pos \in (b + n)..Len(file)
      BY <2>9 DEF Between
    <3>2. b + n \in 0..fh'.pos
      BY <3>1
    <3> QED BY <2>4, <2>7, <2>9, <3>2
  <2>12. ASSUME NEW k \in 1..Len(returned') PROVE \E f \in File : LinesOf(returned'[k], content[f])
    <3>1. CASE n = 0
      BY <1>4, <2>7, <2>12, <3>1
    <3>2. CASE n # 0
      <4>1. a \in Seq(Byte)
        BY <2>7 DEF Cut
      <4>2. \/ k \in 1..Len(returned) /\ returned'[k] = returned[k]
            \/ returned'[k] = a
        BY <1>1, <2>7, <2>12, <3>2, <4>1
      <4>3. LinesOf(a, content[fh.file])
        BY <2>10 DEF file
      <4> QED BY <1>1, <1>4, <4>2, <4>3
    <3> QED BY <3>1, <3>2
  <2> QED BY <1>4, <2>2, <2>11, <2>12 DEF BetweenLines
<1>10. ~Truncate
  BY <1>3 DEF LineWise, Truncate, Happens
<1> QED
  BY <1>6, <1>7, <1>8, <1>9, <1>10 DEF Next, Writers, Probe

(* Where a line begins: after the one before it, or at the start.           *)
LEMMA LineStarts ==
  ASSUME NEW t \in Seq(Byte), NEW e \in LineEnds(t)
  PROVE  \E d \in 0..e - 1 :
           /\ LineTo(t, e) = SubSeq(t, d + 1, e)
           /\ d = 0 \/ d \in LineEnds(t)
           /\ \A x \in LineEnds(t) : x < e => x <= d
<1> DEFINE Before == {0} \cup {d \in LineEnds(t) : d < e}
<1>1. Len(t) \in Nat /\ e \in 1..Len(t) /\ LineEnds(t) \subseteq 1..Len(t)
  BY DEF LineEnds
<1>2. Before \subseteq 0..e - 1 /\ Before # {} /\ e - 1 \in Nat
  BY <1>1
<1>3. LineTo(t, e) = SubSeq(t, (CHOOSE x \in Before : \A y \in Before : x >= y) + 1, e)
  BY DEF LineTo, Max
<1>4. \A x \in Before : x = 0 \/ x \in LineEnds(t)
  OBVIOUS
<1>5. \A x \in LineEnds(t) : x < e => x \in Before
  OBVIOUS
<1> HIDE DEF Before
<1>6. \E x \in Before : \A y \in Before : y <= x
  BY <1>2, GreatestBelow
<1>7. \E x \in Before : \A y \in Before : x >= y
  BY <1>2, <1>6
<1> DEFINE d == CHOOSE x \in Before : \A y \in Before : x >= y
<1>8. d \in Before /\ \A y \in Before : d >= y
  BY <1>7
<1>9. LineTo(t, e) = SubSeq(t, d + 1, e)
  BY <1>3
<1> HIDE DEF d
<1>10. d \in 0..e - 1 /\ (d = 0 \/ d \in LineEnds(t))
  BY <1>2, <1>4, <1>8
<1>11. \A x \in LineEnds(t) : x < e => x <= d
  <2>1. TAKE x \in LineEnds(t)
  <2>2. HAVE x < e
  <2>3. d >= x /\ d \in Int /\ x \in Int
    BY <1>1, <1>5, <1>8, <1>10, <2>2
  <2> QED BY <2>3
<1> QED BY <1>9, <1>10, <1>11

LEMMA LinesAreLines ==
  ASSUME NEW s \in Seq(Byte), NEW t \in Seq(Byte), LinesOf(t, s), NEW e \in LineEnds(t)
  PROVE  IsLineOf(LineTo(t, e), s)
<1>1. PICK b \in 0..Len(s) : \E last \in b..Len(s) : Between(t, s, b, last)
  BY DEF LinesOf
<1>2. PICK last \in b..Len(s) : Between(t, s, b, last)
  BY <1>1
<1>3. /\ Boundary(s, b) /\ Boundary(s, last) /\ Len(s) \in Nat
      /\ Len(t) = last - b /\ \A i \in 1..last - b : t[i] = s[b + i]
  BY <1>2 DEF Between
<1>4. PICK d \in 0..e - 1 :
        /\ LineTo(t, e) = SubSeq(t, d + 1, e)
        /\ d = 0 \/ d \in LineEnds(t)
        /\ \A x \in LineEnds(t) : x < e => x <= d
  BY LineStarts
<1>5. e \in 1..Len(t) /\ (t[e].newline \/ e = Len(t))
  BY DEF LineEnds
<1>6. /\ d \in 0..Len(t) /\ e \in d..Len(t) /\ e - d \in Nat \ {0} /\ b + d \in 0..Len(s)
      /\ b + e \in (b + d)..Len(s) /\ (b + e) - (b + d) = e - d /\ b + e \in 1..Len(s)
  BY <1>3, <1>5
<1> DEFINE line == SubSeq(t, d + 1, e)
           part == SubSeq(s, (b + d) + 1, b + e)
           i == (b + d) + 1
<1>7. line \in Seq(Byte) /\ Len(line) = e - d /\ \A k \in 1..e - d : line[k] = t[d + k]
  BY <1>6, SubSeqFacts
<1>8. part \in Seq(Byte) /\ Len(part) = e - d /\ \A k \in 1..e - d : part[k] = s[(b + d) + k]
  <2>1. /\ part \in Seq(Byte) /\ Len(part) = (b + e) - (b + d)
        /\ \A k \in 1..(b + e) - (b + d) : part[k] = s[(b + d) + k]
    BY <1>6, SubSeqFacts
  <2> HIDE DEF part
  <2> QED BY <1>6, <2>1
<1>9. part = SubSeq(s, i, i + Len(line) - 1)
  <2>1. i + (e - d) - 1 = b + e
    BY <1>6
  <2> HIDE DEF line
  <2> QED BY <1>7, <2>1
<1> HIDE DEF line, part
<1>10. \A k \in 1..e - d : d + k \in 1..last - b /\ t[d + k] = s[(b + d) + k]
  <2>1. TAKE k \in 1..e - d
  <2>2. d + k \in 1..last - b /\ b + (d + k) = (b + d) + k
    BY <1>3, <1>5
  <2> QED BY <1>3, <2>2
<1>11. line = part
  <2>1. \A k \in 1..e - d : line[k] = part[k]
    BY <1>7, <1>8, <1>10
  <2> QED BY <1>7, <1>8, <2>1, SeqEqual
<1>12. i \in 1..Len(s) + 1 - Len(line)
  BY <1>3, <1>6, <1>7
<1>13. i = 1 \/ Ends(s[i - 1])
  <2>1. i - 1 = b + d
    BY <1>6
  <2>2. CASE d = 0
    <3>1. b + d = b /\ (b = 0 => i = 1)
      BY <2>2
    <3> QED BY <1>3, <2>1, <3>1 DEF Boundary
  <2>3. CASE d \in LineEnds(t)
    <3>1. t[d].newline /\ d \in 1..last - b
      BY <1>3, <1>5, <2>3 DEF LineEnds
    <3>2. t[d] = s[b + d]
      BY <1>3, <3>1
    <3> QED BY <2>1, <3>1, <3>2 DEF Ends
  <2> QED BY <1>4, <2>2, <2>3
<1>14. Ends(line[Len(line)])
  <2>1. line[Len(line)] = t[e]
    <3>1. e - d \in 1..e - d /\ d + (e - d) = e
      BY <1>6
    <3> QED BY <1>7, <3>1
  <2>2. CASE e = Len(t)
    <3>1. b + e = last /\ last # 0 /\ e \in 1..last - b
      BY <1>3, <1>5, <2>2
    <3>2. Ends(s[last]) /\ t[e] = s[b + e]
      BY <1>3, <3>1 DEF Boundary
    <3> QED BY <2>1, <3>1, <3>2
  <2> QED BY <1>5, <2>1, <2>2 DEF Ends
<1>15. ASSUME NEW k \in 1..Len(line), line[k].newline PROVE k = Len(line)
  <2>1. k \in 1..e - d /\ line[k] = t[d + k] /\ d + k \in 1..Len(t)
    BY <1>6, <1>7
  <2>2. CASE k # e - d
    <3>1. d + k < e /\ ~(d + k <= d)
      <4>1. e \in Int /\ d \in Int /\ k \in Int /\ 1 <= k /\ k <= e - d
        BY <1>5, <1>6, <2>1
      <4> QED BY <2>2, <4>1
    <3>2. ~t[d + k].newline
      BY <1>4, <2>1, <3>1 DEF LineEnds
    <3> QED BY <1>15, <2>1, <3>2
  <2> QED BY <1>7, <2>2
<1>16. line = SubSeq(s, i, i + Len(line) - 1)
  BY <1>9, <1>11
<1> HIDE DEF i
<1>17. IsLineOf(line, s)
  BY <1>12, <1>13, <1>14, <1>15, <1>16 DEF IsLineOf
<1> QED BY <1>4, <1>17 DEF line

LEMMA WholeImplies == TypeOK /\ Whole => WholeLines
<1> SUFFICES ASSUME TypeOK, LineWise, BetweenLines,
                    NEW k \in 1..Len(returned), NEW e \in LineEnds(returned[k])
             PROVE  \E f \in File : IsLineOf(LineTo(returned[k], e), content[f])
  BY DEF Whole, LineWise, WholeLines
<1>1. PICK f \in File : LinesOf(returned[k], content[f])
  BY DEF BetweenLines
<1>2. returned[k] \in Seq(Byte) /\ content[f] \in Seq(Byte)
  BY DEF TypeOK
<1>3. IsLineOf(LineTo(returned[k], e), content[f])
  BY <1>1, <1>2, LinesAreLines
<1> QED BY <1>3

(* For every file that the probe finds and every backlog, wherever it       *)
(* begins: what is returned for a line is a line of one file, and is cut    *)
(* only at the start of the backlog and where a writer wrote it in parts.   *)
THEOREM LinesAreWhole == Spec => []WholeLines
<1>1. Init => TypeOK /\ Whole
  BY InitTypeOK, WholeInit
<1>2. TypeOK /\ Whole /\ [Next]_vars => (TypeOK /\ Whole)'
  BY TypeStep, WholeStep
<1> QED BY <1>1, <1>2, WholeImplies, PTL DEF Spec
=============================================================================
