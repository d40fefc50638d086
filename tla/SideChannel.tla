----------------------------- MODULE SideChannel -----------------------------
(***************************************************************************)
(* Qwen's dual-output side channel: QwenJsonlTail::poll (qwen.rs) and the  *)
(* wrapper's tail_provider_side_channel (sessiontap/src/main.rs), which    *)
(* polls every 100 ms and forwards each value to the daemon.               *)
(*                                                                         *)
(* The provider writes a line in two halves, so that a poll may find only  *)
(* the first.  A half is [line, part, ok]; the second carries the newline. *)
(* A file position counts halves.  A value is the halves it was parsed     *)
(* from, a line number is never used twice, and values that normalize to   *)
(* nothing are left out.                                                   *)
(***************************************************************************)
EXTENDS Integers, Sequences, SequencesExt, FiniteSets, FiniteSetsExt

CONSTANTS
  None,       \* absent value
  MaxLines,   \* bound on the lines the provider writes
  Broken,     \* the lines that do not parse or exceed the bound
  MaxResets,  \* bound on truncations and replacements
  Refills     \* a truncated file may grow past the tail's position unseen

SideChannelAssumption ==
  MaxLines \in Nat /\ MaxResets \in Nat /\ Broken \subseteq 1 .. MaxLines /\ Refills \in BOOLEAN

VARIABLES
  content,   \* the halves in the file at the path, None before it is created
  inode,     \* its identity
  written,   \* the lines begun so far
  resets,    \* truncations and replacements
  offset, pending, identity,   \* the fields of QwenJsonlTail
  values,    \* what the last poll returned and is not forwarded yet
  sequence,  \* source_sequence
  sent,      \* the requests to the daemon: [value, sequence]
  tail,      \* "running", "disabled" or "aborted"
  kept,      \* the lines that were complete in a file that is gone
  missed     \* the file was emptied since the last poll

provider == <<content, inode, written, resets, kept>>
source == <<offset, pending, identity>>
vars == <<provider, source, values, sequence, sent, tail, missed>>

Init ==
  /\ content = None /\ inode = 1 /\ written = 0 /\ resets = 0 /\ kept = {}
  /\ offset = 0 /\ pending = <<>> /\ identity = None
  /\ values = <<>> /\ sequence = 0 /\ sent = <<>>
  /\ tail = "running"
  /\ missed = FALSE

Half(line, part) == [line |-> line, part |-> part]

Complete(c) == {c[n].line : n \in {m \in DOMAIN c : c[m].part = 2}}

-----------------------------------------------------------------------------
(* QwenJsonlTail::poll. *)

Parses(value) == \A n \in DOMAIN value : value[n].line \notin Broken

(* Mutant: what is pending survives a reset. *)
Restarted_KeepsPending(c) ==
  IF Len(c) < offset \/ (identity # None /\ identity # inode)
    THEN [offset |-> 0, pending |-> pending]
    ELSE [offset |-> offset, pending |-> pending]

(* A file that shrank, or is another one, is read from its start. *)
Restarted(c) ==
  IF Len(c) < offset \/ (identity # None /\ identity # inode)
    THEN [offset |-> 0, pending |-> <<>>]
    ELSE [offset |-> offset, pending |-> pending]

(* The lines of what is read, each up to its newline, in order; those before  *)
(* the first that is refused are the poll's values.                           *)
Lines(read) ==
  LET ends == {n \in DOMAIN read : read[n].part = 2}
      LineTo(n) == SubSeq(read, 1 + Max({0} \cup {m \in ends : m < n}), n)
      refused == {n \in ends : ~ Parses(LineTo(n))}
      accepted == {n \in ends : \A r \in refused : n < r}
      order == SelectSeq([n \in DOMAIN read |-> n], LAMBDA n : n \in accepted)
  IN  [values |-> [k \in DOMAIN order |-> LineTo(order[k])],
       rest |-> SubSeq(read, 1 + Max({0} \cup ends), Len(read)),
       failed |-> refused # {}]

Read(c) ==
  LET from == Restarted(c)
  IN  Lines(from.pending \o SubSeq(c, from.offset + 1, Len(c)))

(* An error disables the channel and discards what the poll had parsed. *)
Poll ==
  /\ tail = "running" /\ values = <<>>
  /\ IF content = None
       THEN UNCHANGED <<source, values, tail>>
       ELSE LET end == Read(content)
            IN  /\ offset' = Len(content) /\ pending' = end.rest /\ identity' = inode
                /\ values' = IF end.failed THEN <<>> ELSE end.values
                /\ tail' = IF end.failed THEN "disabled" ELSE tail
  /\ missed' = FALSE
  /\ UNCHANGED <<provider, sequence, sent>>

(* The value's number and its request, whose result is ignored. *)
Forward ==
  /\ tail = "running" /\ values # <<>>
  /\ sequence' = sequence + 1
  /\ sent' = Append(sent, [value |-> Head(values), sequence |-> sequence'])
  /\ values' = Tail(values)
  /\ UNCHANGED <<provider, source, tail, missed>>

(* The provider has exited: launch aborts the task wherever it is. *)
Abort ==
  /\ tail = "running"
  /\ tail' = "aborted"
  /\ UNCHANGED <<provider, source, values, sequence, sent, missed>>

-----------------------------------------------------------------------------
(* The provider. *)

Tailing == <<source, values, sequence, sent, tail>>

Create ==
  /\ content = None
  /\ content' = <<>>
  /\ UNCHANGED <<inode, written, resets, kept, missed, Tailing>>

AtLineStart == IF content = <<>> THEN TRUE ELSE Last(content).part = 2

(* Without Refills an emptied file stays shorter than the tail's position    *)
(* until it has been polled.                                                  *)
MayGrow == ~ missed \/ Refills \/ Len(content) + 1 < offset

StartLine ==
  /\ tail # "aborted" /\ content # None /\ AtLineStart /\ written < MaxLines /\ MayGrow
  /\ written' = written + 1
  /\ content' = Append(content, Half(written', 1))
  /\ UNCHANGED <<inode, resets, kept, missed, Tailing>>

EndLine ==
  /\ tail # "aborted" /\ content # None /\ ~ AtLineStart /\ MayGrow
  /\ content' = Append(content, Half(Last(content).line, 2))
  /\ UNCHANGED <<inode, written, resets, kept, missed, Tailing>>

Truncate ==
  /\ content # None /\ content # <<>> /\ resets < MaxResets /\ tail # "aborted"
  /\ kept' = kept \cup Complete(content)
  /\ content' = <<>>
  /\ missed' = TRUE
  /\ resets' = resets + 1
  /\ UNCHANGED <<inode, written, Tailing>>

Replace ==
  /\ content # None /\ resets < MaxResets /\ tail # "aborted"
  /\ kept' = kept \cup Complete(content)
  /\ inode' = inode + 1
  /\ content' = <<>>
  /\ missed' = FALSE
  /\ resets' = resets + 1
  /\ UNCHANGED <<written, Tailing>>

Next ==
  \/ Poll \/ Forward \/ Abort
  \/ Create \/ StartLine \/ EndLine \/ Truncate \/ Replace

Spec == Init /\ [][Next]_vars

-----------------------------------------------------------------------------

TypeOK ==
  /\ tail \in {"running", "disabled", "aborted"}
  /\ offset \in 0 .. 2 * MaxLines
  /\ Len(pending) <= MaxResets + 1

(* docs/providers/qwen.md: lines are "parsed only after a newline": every     *)
(* value forwarded is one line, whole, never halves of two files.             *)
ValuesAreWholeLines ==
  \A n \in DOMAIN sent :
    \E line \in (1 .. MaxLines) \ Broken : sent[n].value = <<Half(line, 1), Half(line, 2)>>

(* The reducer orders a channel's events by source_sequence: they are         *)
(* forwarded in the order they were written, each once, with growing numbers. *)
ForwardedInOrder ==
  \A m, n \in DOMAIN sent : m < n =>
    /\ sent[m].sequence < sent[n].sequence
    /\ sent[m].value[1].line < sent[n].value[1].line

(* No line is skipped: while the channel runs, a complete line of a file that *)
(* is still there is forwarded before any later one.                          *)
NothingSkipped ==
  \A n \in DOMAIN sent, line \in 1 .. MaxLines :
    line < sent[n].value[1].line /\ content # None /\ line \in Complete(content) =>
      \E m \in DOMAIN sent : m < n /\ sent[m].value[1].line = line

(* A complete line that stays in the file is forwarded, unless a line the     *)
(* channel refuses disables it or the provider exits.                         *)
LinesArrive ==
  \A line \in 1 .. MaxLines :
    content # None /\ line \in Complete(content) ~>
      \/ \E n \in DOMAIN sent : sent[n].value[1].line = line
      \/ tail # "running"
      \/ line \in kept

=============================================================================
