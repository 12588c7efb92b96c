------------------------------ MODULE LogParse ------------------------------
(***************************************************************************)
(* LogParse: the lines of a probe() become messages, and every `count` of  *)
(* them one message.  Lines are numbered, and what a field finds in a line *)
(* is a function of its number.  There is a field of each kind: "total"    *)
(* sums up, "mean" is averaged, "state" keeps its last value, "rate" is an *)
(* eval of total and state.  An exception out of probe() ends the daemon.  *)
(***************************************************************************)
EXTENDS Naturals, Sequences, SequencesExt

CONSTANTS
  Counts,    \* values of aggregate.count to try; 0: aggregation is off
  Orders,    \* orders of `fields` in the config to try
  MaxLine,   \* bound: lines in the log
  MaxBatch   \* bound: lines of one probe()

Aggregator == [total |-> "sum", mean |-> "avg", state |-> "none", rate |-> "eval"]
Field == DOMAIN Aggregator

ASSUME LogParseAssumption ==
  /\ Counts \subseteq Nat /\ MaxLine \in Nat /\ MaxBatch \in Nat
  /\ \A fields \in Orders : fields \in Seq(Field) /\ IsInjective(fields) /\ ToSet(fields) = Field

VARIABLES
  config,    \* what init() takes from the config
  next,      \* number of the next line to be read
  parsed,    \* the lines handed to aggregate() as messages so far
  stack,     \* self.stack
  pc,        \* "idle", "looping" in aggregate(), "dead" after an exception
  rv,        \* the groups of this call of aggregate(), aggregated
  emitted    \* messages probe() has returned

vars == <<config, next, parsed, stack, pc, rv, emitted>>

(* Lines most logs do not hold: one in which the group of the field total   *)
(* takes no part in the match, if its regex lets it, and one that is not in *)
(* the encoding the file was opened with.                                   *)
OddLine == {"no_group", "undecodable"}

(* `type` is that of the fields total and mean; "ratio" is an eval that     *)
(* divides by state; `odd` tells what the log may hold.                     *)
Config == [count : Counts, include : BOOLEAN, fields : Orders,
           type : {"int", "interval", "none"}, eval : {"linear", "ratio"},
           odd : SUBSET OddLine]
Row == [total : Nat, mean : Nat \X (Nat \ {0}), state : Nat, rate : Nat]
Message == [ts : Nat, data : Seq(Row)]
Emission == [ts : Nat, main : Row, messages : Nat \ {0}]

TypeOK ==
  /\ config \in Config
  /\ next \in 1..MaxLine + 1
  /\ parsed \in Seq(Nat)
  /\ stack \in Seq(Message)
  /\ pc \in {"idle", "looping", "dead"}
  /\ rv \in Seq(Emission) /\ emitted \in Seq(Emission)

Init ==
  /\ config \in Config
  /\ next = 1 /\ parsed = <<>> /\ stack = <<>> /\ pc = "idle" /\ rv = <<>> /\ emitted = <<>>

-----------------------------------------------------------------------------
(* What becomes of a line in process_line: an exclude pattern matches, no   *)
(* include pattern matches, a field is not found or not of its type, all    *)
(* fields are found but no time, or everything is; and the odd ones.        *)
Line == {"excluded", "not_included", "no_field", "no_time", "good"} \cup config.odd

Matches(line) == line \in {"good", "no_time", "no_group"} \cup
                         (IF config.include THEN {} ELSE {"not_included"})
Kept(line) == Matches(line) /\ line # "no_time"

Eval(row) == IF config.eval = "linear" THEN 10 * row.total + row.state
                                       ELSE (10 * row.total) \div row.state
EvalRaises(row) == config.eval = "ratio" /\ row.state = 0

FieldsOf(n) == [total |-> n, mean |-> <<n, 1>>, state |-> n % 3, rate |-> 0]

(* The row of line n: the parsed fields, then the eval field.               *)
RowOf(n) == [FieldsOf(n) EXCEPT !.rate = Eval(FieldsOf(n))]

(* Mutant: a field that is not found raises.                                *)
ParseRaises_NoTry(line, n) ==
  \/ line \in {"no_field", "no_group", "undecodable"}
  \/ Matches(line) /\ (config.type = "interval" \/ EvalRaises(FieldsOf(n)))

(* What raises outside any try: readlines() on bytes it cannot decode, and  *)
(* in the second loop of parse_line an eval that fails, a type that has a   *)
(* validate_* method, whose result validate_value() has dropped the first   *)
(* time, and a group without a match, whose None the first loop lets pass:  *)
(* neither int() nor the eval takes it.                                     *)
ParseRaises(line, n) ==
  \/ line = "undecodable"
  \/ /\ Matches(line)
     /\ config.type = "interval" \/ line = "no_group" \/ EvalRaises(FieldsOf(n))

(* One message per line that is kept; process_messages moves ts up.         *)
MessageOf(n) == [ts |-> n, data |-> <<RowOf(n)>>]

Sum(column) == FoldLeft(LAMBDA c, value : c + value, 0, column)
Totals(rows) == [i \in 1..Len(rows) |-> rows[i].total]
Means(rows) == [i \in 1..Len(rows) |-> rows[i].mean[1]]

(* A field without a type is text, and the sum starts at the number 0.      *)
AggregateRaises == config.type = "none"

AggregateField(f, rows) ==
  CASE Aggregator[f] = "sum"  -> Sum(Totals(rows))
    [] Aggregator[f] = "avg"  -> <<Sum(Means(rows)), Len(rows)>>
    [] Aggregator[f] = "none" -> Last(rows)[f]
    [] Aggregator[f] = "eval" -> Eval(Head(rows))

(* The row `main` is rows[0] itself, so each field sees what the fields     *)
(* before it have been set to.                                              *)
Assign(rows, f) == [rows EXCEPT ![1][f] = AggregateField(f, rows)]

(* Mutant: the fields in the order of the config.                           *)
AggregateMessage_NoFinalizers(message) ==
  LET rows == FoldLeft(Assign, message.data, config.fields)
  IN [ts |-> message.ts, main |-> rows[1], messages |-> Len(rows)]

(* Mutant: `messages` counts the rows added to the first.                   *)
AggregateMessage_CountsOthers(message) ==
  [ts |-> message.ts, main |-> message.data[1], messages |-> Len(message.data) - 1]

(* The two loops over the fields: eval fields have the second.             *)
AssignFields(rows, evals) ==
  FoldLeft(LAMBDA done, f : IF (Aggregator[f] = "eval") <=> evals THEN Assign(done, f) ELSE done,
           rows, config.fields)

(* aggregate_message: eval fields come last, whatever their place.          *)
AggregateMessage(message) ==
  LET rows == AssignFields(AssignFields(message.data, FALSE), TRUE)
  IN [ts |-> message.ts, main |-> rows[1], messages |-> Len(rows)]

(* A message that aggregate() leaves alone; it stands for one line, though  *)
(* it gets no `messages` field that says so.                                *)
Plain(message) == [ts |-> message.ts, main |-> message.data[1], messages |-> 1]

-----------------------------------------------------------------------------
(* The messages of a batch: one per line that is kept.                      *)
KeptOf(lines) ==
  FoldLeft(LAMBDA kept, n : IF Kept(lines[n + 1 - next]) THEN Append(kept, n) ELSE kept,
           <<>>, [i \in 1..Len(lines) |-> next + i - 1])

(* probe() up to the loop of aggregate().                                   *)
Probe ==
  /\ pc = "idle"
  /\ \E n \in 0..MaxBatch : \E lines \in [1..n -> Line] :
       LET kept == KeptOf(lines)
           messages == [i \in 1..Len(kept) |-> MessageOf(kept[i])]
       IN /\ next + n <= MaxLine + 1
          /\ next' = next + n
          /\ IF \E i \in 1..n : ParseRaises(lines[i], next + i - 1)
             THEN pc' = "dead" /\ UNCHANGED <<parsed, stack, emitted>>
             ELSE IF config.count = 0
             THEN /\ parsed' = parsed \o kept
                  /\ emitted' = emitted \o [i \in 1..Len(kept) |-> Plain(messages[i])]
                  /\ UNCHANGED <<stack, pc>>
             ELSE /\ parsed' = parsed \o kept
                  /\ stack' = stack \o messages
                  /\ pc' = "looping"
                  /\ UNCHANGED emitted
  /\ UNCHANGED <<config, rv>>

Joined == [ts |-> stack[1].ts,
           data |-> FlattenSeq([i \in 1..config.count |-> stack[i].data])]

(* Mutant: the messages joined to the first one stay on the stack.          *)
Aggregate_Keeps ==
  /\ pc = "looping" /\ Len(stack) >= config.count /\ ~AggregateRaises
  /\ rv' = Append(rv, AggregateMessage(Joined))
  /\ stack' = Tail(stack)
  /\ UNCHANGED <<config, next, parsed, pc, emitted>>

(* One turn of the loop: the first message is joined by the count - 1 next. *)
Aggregate ==
  /\ pc = "looping" /\ Len(stack) >= config.count /\ ~AggregateRaises
  /\ rv' = Append(rv, AggregateMessage(Joined))
  /\ stack' = SubSeq(stack, config.count + 1, Len(stack))
  /\ UNCHANGED <<config, next, parsed, pc, emitted>>

(* The groups have left the stack when the first is aggregated.             *)
RaiseInAggregate ==
  /\ pc = "looping" /\ Len(stack) >= config.count /\ AggregateRaises
  /\ pc' = "dead"
  /\ stack' = SubSeq(stack, Len(stack) - (Len(stack) % config.count) + 1, Len(stack))
  /\ UNCHANGED <<config, next, parsed, rv, emitted>>

(* The loop ends when no full group is left.                                *)
EndLoop ==
  /\ pc = "looping" /\ Len(stack) < config.count
  /\ pc' = "idle" /\ emitted' = emitted \o rv /\ rv' = <<>>
  /\ UNCHANGED <<config, next, parsed, stack>>

Next == Probe \/ Aggregate \/ RaiseInAggregate \/ EndLoop

Spec == Init /\ [][Next]_vars

-----------------------------------------------------------------------------
(* How many lines one emission stands for.                                  *)
Width == IF config.count = 0 THEN 1 ELSE config.count
Group(k) == SubSeq(parsed, (k - 1) * Width + 1, k * Width)

(* Every parsed line is counted in exactly one emission, in order, or waits *)
(* on the stack for the lines that make up its group, until an exception:   *)
(* batch boundaries do not show.                                            *)
NothingLost ==
  LET all == emitted \o rv IN
  /\ pc # "dead" => Len(all) * Width + Len(stack) = Len(parsed)
  /\ \A k \in 1..Len(all) :
       LET lines == Group(k)
       IN /\ all[k].messages = Width
          /\ all[k].ts = lines[1]
          /\ all[k].main.total = Sum(lines)
          /\ all[k].main.mean = <<Sum(lines), Width>>
          /\ all[k].main.state = Last(lines) % 3
  /\ pc # "dead" =>
       \A i \in 1..Len(stack) : stack[i] = MessageOf(parsed[Len(all) * Width + i])
  /\ pc = "idle" => rv = <<>> /\ Len(stack) < Width

(* An eval field agrees with the fields it is computed from, after          *)
(* aggregation as before, in whatever order the config names them.          *)
EvalConsistent ==
  \A k \in 1..Len(emitted) : emitted[k].main.rate = Eval(emitted[k].main)

(* A line that is excluded, lacks a field or holds what is not of the       *)
(* field's type never ends the daemon; what does is an encoding that the    *)
(* log breaks, a field whose group need not match, a sum of text, an eval   *)
(* that may divide by zero.  With a field of type interval not one line is  *)
(* parsed.                                                                  *)
DiesOnlyForCause ==
  /\ pc = "dead" => \/ config.odd # {}
                    \/ config.type = "interval"
                    \/ config.type = "none" /\ config.count > 0
                    \/ config.eval = "ratio"
  /\ config.type = "interval" => parsed = <<>>
=============================================================================
