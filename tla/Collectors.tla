----------------------------- MODULE Collectors -----------------------------
(***************************************************************************)
(* The session-artifact collectors of Claude, Codex, Qwen and Antigravity  *)
(* (claude.rs, codex.rs, qwen.rs, agy.rs, artifact.rs): a scan reads the   *)
(* provider's JSONL file record by record while the provider appends to    *)
(* it, replaces it or truncates it.                                        *)
(*                                                                         *)
(* A record is its kind ("usage", "title", "meta", "foreign" for one that  *)
(* names another session, "bad" for one that does not parse or exceeds its *)
(* bound), the response id or step it belongs to, a token count and a      *)
(* name.  A file is its records and whether an incomplete one follows; its *)
(* length counts both.  Codex also has an index of session names, and its  *)
(* counts are cumulative.  Sums fail beyond MaxTokens as u64 sums do.      *)
(***************************************************************************)
EXTENDS Integers, Sequences, SequencesExt, FiniteSets, FiniteSetsExt

CONSTANTS
  None,        \* absent value
  Provider,    \* "claude", "codex", "qwen" or "agy"
  Rows,        \* records the provider may write
  Names,       \* names the session index may give
  Inodes,      \* file identities, never used twice
  MaxTokens,   \* the largest representable sum
  MaxRows,     \* bound on the records of a file
  MaxScans,    \* bound on scans
  MaxChanges,  \* bound on replacements and truncations
  Regrows      \* a truncated file may grow again

CollectorsAssumption ==
  Provider \in {"claude", "codex", "qwen", "agy"} /\ None \notin Inodes

VARIABLES
  files,       \* the content of every inode, and what it held before a truncation
  path,        \* the inode at the artifact's path
  index,       \* Codex: the entries of the session index that name this session
  scan,        \* the running scan
  cancelled,   \* the coordinator asked it to stop
  published,   \* the newest outcome and what it was read from
  scans, changes

vars == <<files, path, index, scan, cancelled, published, scans, changes>>

Empty == [rows |-> <<>>, partial |-> FALSE, past |-> <<>>]
LengthOf(f) == 2 * Len(f.rows) + (IF f.partial THEN 1 ELSE 0)

(* What a scan has gathered. *)
Nothing ==
  [ok |-> TRUE, input |-> 0, context |-> None, ids |-> {}, name |-> None, bound |-> FALSE]

Idle == [pc |-> "idle", inode |-> None, opened |-> 0, at_open |-> 0, index |-> 0, read |-> <<>>,
         acc |-> Nothing]

NoOutcome == [kind |-> "none", cursor |-> None, inode |-> None, prefix |-> <<>>, names |-> <<>>,
              data |-> None, at_open |-> 0]

Init ==
  /\ files = [i \in Inodes |-> Empty]
  /\ path = CHOOSE i \in Inodes : TRUE
  /\ index = <<>>
  /\ scan = Idle
  /\ cancelled = FALSE
  /\ published = NoOutcome
  /\ scans = 0
  /\ changes = 0

-----------------------------------------------------------------------------
(* One record. *)

Fail(acc) == [acc EXCEPT !.ok = FALSE]

Add(acc, n) ==
  IF acc.input + n > MaxTokens THEN Fail(acc)
  ELSE [acc EXCEPT !.input = @ + n, !.context = n]

(* Claude repeats a response's usage in every record of it: the first counts, *)
(* and a usage without a response id does not.                                *)
claude_row(acc, r) ==
  CASE r.kind \in {"bad", "foreign"} -> Fail(acc)
    [] r.kind = "title" -> [acc EXCEPT !.name = r.name]
    [] r.kind = "usage" /\ r.id # None /\ r.id \notin acc.ids ->
         Add([acc EXCEPT !.ids = @ \cup {r.id}], r.n)
    [] OTHER -> acc

(* Codex counts are cumulative: the last stands.  Every session_meta must     *)
(* name the session and replaces the name.                                    *)
codex_row(acc, r) ==
  CASE r.kind \in {"bad", "foreign"} -> Fail(acc)
    [] r.kind = "meta" -> [acc EXCEPT !.bound = TRUE, !.name = r.name]
    [] r.kind = "usage" -> [acc EXCEPT !.input = r.n, !.context = r.n]
    [] OTHER -> acc

qwen_row(acc, r) ==
  CASE r.kind \in {"bad", "foreign"} -> Fail(acc)
    [] r.kind = "title" -> [acc EXCEPT !.name = r.name]
    [] r.kind = "usage" -> Add(acc, r.n)
    [] OTHER -> acc

(* Antigravity's records name no session: its directory does. *)
agy_row(acc, r) ==
  CASE r.kind = "bad" -> Fail(acc)
    [] r.kind = "usage" /\ r.id # None /\ r.id \notin acc.ids ->
         Add([acc EXCEPT !.ids = @ \cup {r.id}], r.n)
    [] OTHER -> acc

RowStep(acc, r) ==
  CASE Provider = "claude" -> claude_row(acc, r)
    [] Provider = "codex" -> codex_row(acc, r)
    [] Provider = "qwen" -> qwen_row(acc, r)
    [] Provider = "agy" -> agy_row(acc, r)

-----------------------------------------------------------------------------
(* A scan. *)

Outcome(kind) == [published EXCEPT !.kind = kind]

(* validate_under_root and the file name; nothing is read yet. *)
Begin ==
  /\ scan.pc = "idle" /\ scans < MaxScans
  /\ scans' = scans + 1
  /\ scan' = [Idle EXCEPT !.pc = "open"]
  /\ cancelled' = FALSE
  /\ UNCHANGED <<files, path, index, published, changes>>

cursor == [inode |-> path, length |-> LengthOf(files[path]),
           index |-> IF Provider = "codex" THEN Len(index) ELSE 0]

(* Mutant: a cursor of equal length is the same file. *)
cursor_unchanged_Length(prior, c) == prior # None /\ prior.length = c.length

cursor_unchanged(prior, c) == prior = c

(* The artifact, and Codex's index, are opened and compared with the cursor   *)
(* of the last outcome.                                                       *)
Open ==
  /\ scan.pc = "open" /\ ~ cancelled
  /\ IF cursor_unchanged(published.cursor, cursor)
       THEN scan' = Idle /\ published' = Outcome("unchanged")
       ELSE /\ scan' = [scan EXCEPT !.pc = "rows", !.inode = path, !.opened = LengthOf(files[path]),
                                    !.at_open = Len(files[path].rows), !.index = cursor.index]
            /\ UNCHANGED published
  /\ UNCHANGED <<files, path, index, cancelled, scans, changes>>

Reading == files[scan.inode]

(* The record a reader finds next, whatever has happened to the file. *)
ReadRow ==
  /\ scan.pc = "rows" /\ ~ cancelled
  /\ Len(scan.read) < Len(Reading.rows)
  /\ LET r == Reading.rows[Len(scan.read) + 1]
         acc == RowStep(scan.acc, r)
     IN  IF acc.ok
           THEN /\ scan' = [scan EXCEPT !.acc = acc, !.read = Append(@, r)]
                /\ UNCHANGED published
           ELSE /\ scan' = Idle
                /\ published' = Outcome("failed")
  /\ UNCHANGED <<files, path, index, cancelled, scans, changes>>

(* The end of the file, or a record without its newline. *)
ReadEnd ==
  /\ scan.pc = "rows" /\ ~ cancelled
  /\ Len(scan.read) >= Len(Reading.rows)
  /\ scan' = [scan EXCEPT !.pc = "end"]
  /\ UNCHANGED <<files, path, index, cancelled, published, scans, changes>>

(* scan_index: the last name in file order, over that of the rollout. *)
scan_index == IF index = <<>> THEN None ELSE Last(index)

Enrichment ==
  [input |-> IF scan.acc.context = None THEN None ELSE scan.acc.input,
   context |-> scan.acc.context,
   name |-> IF Provider = "codex" /\ scan_index # None THEN scan_index ELSE scan.acc.name]

(* The same handle is asked, so that only its length can have changed. *)
ensure_stable == LengthOf(Reading) >= scan.opened

Publish ==
  /\ scan.pc = "end" /\ (~ cancelled \/ Provider = "agy")
  /\ scan' = Idle
  /\ published' =
       IF ~ ensure_stable \/ (Provider = "codex" /\ ~ scan.acc.bound)
         THEN Outcome("failed")
         ELSE [kind |-> "complete",
               cursor |-> [inode |-> scan.inode, length |-> scan.opened, index |-> scan.index],
               inode |-> scan.inode, prefix |-> scan.read,
               names |-> index, data |-> Enrichment,
               at_open |-> scan.at_open]
  /\ UNCHANGED <<files, path, index, cancelled, scans, changes>>

(* check_cancelled, before the file is opened, before every record and, but   *)
(* for agy, at the end.                                                       *)
Cancelled ==
  /\ scan.pc \in {"open", "rows"} \/ (scan.pc = "end" /\ Provider # "agy")
  /\ cancelled
  /\ scan' = Idle
  /\ published' = Outcome("cancelled")
  /\ UNCHANGED <<files, path, index, cancelled, scans, changes>>

Cancel ==
  /\ scan.pc # "idle" /\ ~ cancelled
  /\ cancelled' = TRUE
  /\ UNCHANGED <<files, path, index, scan, published, scans, changes>>

-----------------------------------------------------------------------------
(* The provider. *)

World == <<scan, cancelled, published, scans>>

CanGrow(f) == Len(f.rows) < MaxRows /\ (f.past = <<>> \/ Regrows)

Append1(r) ==
  /\ CanGrow(files[path]) /\ ~ files[path].partial
  /\ files' = [files EXCEPT ![path].rows = Append(@, r)]
  /\ UNCHANGED <<path, index, changes, World>>

(* A record is written in two goes. *)
AppendPart ==
  /\ CanGrow(files[path]) /\ ~ files[path].partial
  /\ files' = [files EXCEPT ![path].partial = TRUE]
  /\ UNCHANGED <<path, index, changes, World>>

AppendRest(r) ==
  /\ files[path].partial
  /\ files' = [files EXCEPT ![path].rows = Append(@, r), ![path].partial = FALSE]
  /\ UNCHANGED <<path, index, changes, World>>

Rename(name) ==
  /\ Provider = "codex" /\ Len(index) < 2
  /\ index' = Append(index, name)
  /\ UNCHANGED <<files, path, changes, World>>

(* Another file is renamed over the artifact. *)
Replace(i, r) ==
  /\ changes < MaxChanges /\ i # path /\ files[i] = Empty
  /\ files' = [files EXCEPT ![i].rows = <<r>>]
  /\ path' = i
  /\ changes' = changes + 1
  /\ UNCHANGED <<index, World>>

Truncate ==
  /\ changes < MaxChanges /\ files[path].rows # <<>> /\ files[path].past = <<>>
  /\ files' = [files EXCEPT ![path] = [Empty EXCEPT !.past = files[path].rows]]
  /\ changes' = changes + 1
  /\ UNCHANGED <<path, index, World>>

Next ==
  \/ Begin \/ Open \/ ReadRow \/ ReadEnd \/ Publish \/ Cancelled \/ Cancel
  \/ \E r \in Rows : Append1(r) \/ AppendRest(r)
  \/ AppendPart
  \/ \E name \in Names : Rename(name)
  \/ \E i \in Inodes, r \in Rows : Replace(i, r)
  \/ Truncate

Spec == Init /\ [][Next]_vars

-----------------------------------------------------------------------------
(* The reference: what a prefix of the file says, defined over the whole of   *)
(* it instead of record by record.                                            *)

UsageAt(rows) == {n \in DOMAIN rows : rows[n].kind = "usage"}

(* The records that count. *)
Counted(rows) ==
  CASE Provider = "qwen" -> UsageAt(rows)
    [] Provider = "codex" -> {n \in UsageAt(rows) : \A m \in UsageAt(rows) : m <= n}
    [] OTHER -> {n \in UsageAt(rows) :
                   rows[n].id # None /\ \A m \in UsageAt(rows) : rows[m].id = rows[n].id => n <= m}

LastOf(rows, kind) == {n \in DOMAIN rows : rows[n].kind = kind
                         /\ \A m \in DOMAIN rows : rows[m].kind = kind => m <= n}

NameIn(rows, names) ==
  CASE Provider = "agy" -> None
    [] Provider = "codex" /\ names # <<>> -> Last(names)
    [] OTHER ->
         LET at == LastOf(rows, IF Provider = "codex" THEN "meta" ELSE "title")
         IN  IF at = {} THEN None ELSE rows[CHOOSE n \in at : TRUE].name

Reference(rows, names) ==
  LET counted == Counted(rows)
  IN  [input |-> IF counted = {} THEN None ELSE MapThenSumSet(LAMBDA n : rows[n].n, counted),
       context |-> IF counted = {} THEN None ELSE rows[Max(counted)].n,
       name |-> NameIn(rows, names)]

TypeOK ==
  /\ path \in Inodes
  /\ scan.pc \in {"idle", "open", "rows", "end"}
  /\ scan.acc.input <= MaxTokens
  /\ published.kind \in {"none", "complete", "unchanged", "failed", "cancelled"}

(* What is published is what the records read say, as the reference counts    *)
(* them; they cover every record that was complete when the artifact was      *)
(* opened, and none is malformed or another session's.                        *)
PublishedIsExact ==
  published.kind = "complete" =>
    /\ published.data = Reference(published.prefix, published.names)
    /\ Len(published.prefix) >= published.at_open
    /\ \A n \in DOMAIN published.prefix :
         published.prefix[n].kind \notin {"bad"} \cup (IF Provider = "agy" THEN {} ELSE {"foreign"})

(* Collected::Unchanged is right: the artifact at the path, when it has not   *)
(* been truncated, still says what was published last.                        *)
UnchangedIsCurrent ==
  published' # published /\ published'.kind = "unchanged" /\ files[path].past = <<>> =>
     /\ published.inode = path
     /\ files[path].rows = published.prefix
     /\ published.data = Reference(files[path].rows, index)

(* provider-session-collection: a collector observes cancellation "at bounded *)
(* checkpoints during reading and parsing": one that was told to stop before  *)
(* it reached the end of the file publishes nothing.                          *)
CancelledIsQuiet ==
  cancelled /\ scan.pc \in {"open", "rows"} => published'.kind \in {"cancelled", published.kind}
     /\ published'.data = published.data /\ (scan' # scan => scan' = Idle)

=============================================================================
