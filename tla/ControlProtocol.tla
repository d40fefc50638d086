-------------------------- MODULE ControlProtocol ---------------------------
(***************************************************************************)
(* The lines of tmux's control mode and their parser                       *)
(* (multiplexer/control.rs).  tmux is external: it writes a reply as a     *)
(* block of lines between two guards that carry the block's number, and    *)
(* everything else as one line, the pane's bytes escaped; it writes        *)
(* nothing else inside a block.  A reply's lines are a pane's screen and   *)
(* may look like any line of the protocol, except for a guard with the     *)
(* number of the very block they are in.                                   *)
(*                                                                         *)
(* A line is its first word, the numbers and the name after it, and the    *)
(* bytes of the rest.                                                      *)
(***************************************************************************)
EXTENDS Naturals, Sequences, SequencesExt, TLC

CONSTANTS
  None,
  Bytes,        \* what a pane may print
  MaxData,      \* bytes in one notification
  MaxScreen,    \* lines in one reply
  MaxUnits      \* bound on replies and notifications

ControlProtocolAssumption ==
  Bytes \subseteq 0..255 /\ {MaxData, MaxScreen, MaxUnits} \subseteq Nat

VARIABLES
  number,   \* of the last block
  wire,     \* lines written and not yet read
  block,    \* Parser.block
  sent,     \* what tmux has said (history)
  got       \* what the parser made of it (history)

vars == <<number, wire, block, sent, got>>

Line(head, nums, name, data) == [head |-> head, nums |-> nums, name |-> name, data |-> data]
Reply(client, ok, lines) == [type |-> "Reply", client |-> client, ok |-> ok, lines |-> lines]
Notification(type, name, data) == [type |-> type, name |-> name, data |-> data]

Init == number = 0 /\ wire = <<>> /\ block = None /\ sent = <<>> /\ got = <<>>

-----------------------------------------------------------------------------
(* tmux *)

Backslash == 92
Space == 32
Colon == 58
Zero == 48

(* Bytes below the space and the backslash are written in octal. *)
Escaped(data) ==
  FlattenSeq([i \in DOMAIN data |->
    IF data[i] < Space \/ data[i] = Backslash
    THEN <<Backslash, Zero + data[i] \div 64, Zero + ((data[i] \div 8) % 8), Zero + (data[i] % 8)>>
    ELSE <<data[i]>>])

(* Lines a screen may show in the block n. *)
Screens(n) ==
  {Line("text", <<>>, "", <<>>), Line("%output", <<>>, "%0", <<Zero>>), Line("%end", <<1>>, "", <<>>),
   Line("%end", <<1, n, 1, 1>>, "", <<>>), Line("%begin", <<1, n, 1>>, "", <<>>)}
  \cup {Line("%end", <<1, k, 1>>, "", <<>>) : k \in (0..n + 1) \ {n}}

Say(lines, unit) ==
  /\ Len(sent) < MaxUnits
  /\ wire' = wire \o lines /\ sent' = Append(sent, unit)
  /\ UNCHANGED <<block, got>>

SayReply(client, ok, lines) ==
  LET guard(head) == Line(head, <<1, number + 1, IF client THEN 1 ELSE 0>>, "", <<>>)
  IN  /\ Say(<<guard("%begin")>> \o lines \o <<guard(IF ok THEN "%end" ELSE "%error")>>,
             Reply(client, ok, lines))
      /\ number' = number + 1

(* Plain output, or with the age of the bytes and a colon before them. *)
SayOutput(data) ==
  /\ \/ Say(<<Line("%output", <<>>, "%0", Escaped(data))>>, Notification("Output", "%0", data))
     \/ Say(<<Line("%extended-output", <<>>, "%0", <<Zero, Space, Colon, Space>> \o Escaped(data))>>,
            Notification("Output", "%0", data))
  /\ UNCHANGED number

Heads == ("%pause" :> "Pause" @@ "%pane-mode-changed" :> "PaneModeChanged" @@ "%layout-change" :> "LayoutChange"
          @@ "%session-changed" :> "SessionChanged" @@ "%window-close" :> "WindowClose"
          @@ "%unlinked-window-close" :> "UnlinkedWindowClose")

SayChange(head) ==
  /\ Say(<<Line(head, <<>>, "%0", <<>>)>>, Notification(Heads[head], "%0", <<>>))
  /\ UNCHANGED number
SayOther(head) ==
  /\ Say(<<Line(head, <<>>, "%0", <<>>)>>,
         Notification(IF head = "%exit" THEN "Exit" ELSE "Other", "", <<>>))
  /\ UNCHANGED number

Datas == UNION {[1..n -> Bytes] : n \in 0..MaxData}

Tmux ==
  \/ \E client, ok \in BOOLEAN, n \in 0..MaxScreen :
       \E lines \in [1..n -> Screens(number + 1)] : SayReply(client, ok, lines)
  \/ \E data \in Datas : SayOutput(data)
  \/ \E head \in DOMAIN Heads : SayChange(head)
  \/ \E head \in {"%exit", "%window-renamed"} : SayOther(head)

-----------------------------------------------------------------------------
(* The parser *)

IsOctal(b) == b \in Zero..Zero + 7

(* A backslash and three octal digits are a byte; anything else is itself. *)
decode_octal(data) ==
  LET Out[i \in 1..Len(data) + 4] ==
        CASE i > Len(data) -> <<>>
          [] i <= Len(data) /\ data[i] = Backslash /\ i + 3 <= Len(data) /\ \A k \in 1..3 : IsOctal(data[i + k]) ->
               <<((data[i + 1] - Zero) * 64 + (data[i + 2] - Zero) * 8 + data[i + 3] - Zero) % 256>> \o Out[i + 4]
          [] OTHER -> <<data[i]>> \o Out[i + 1]
  IN  Out[1]

(* What follows the first " : ". *)
AfterColon(tail) ==
  LET at == {i \in 1..Len(tail) - 2 : SubSeq(tail, i, i + 2) = <<Space, Colon, Space>>}
  IN  CASE at # {} -> SubSeq(tail, (CHOOSE i \in at : \A j \in at : i <= j) + 3, Len(tail))
        [] at = {} /\ IsPrefix(<<Colon, Space>>, tail) -> SubSeq(tail, 3, Len(tail))
        [] OTHER -> <<>>

parse_notification(line) ==
  CASE line.head = "%output" -> Notification("Output", line.name, decode_octal(line.data))
    [] line.head = "%extended-output" -> Notification("Output", line.name, decode_octal(AfterColon(line.data)))
    [] line.head \in DOMAIN Heads -> Notification(Heads[line.head], line.name, <<>>)
    [] line.head = "%exit" -> Notification("Exit", "", <<>>)
    [] OTHER -> Notification("Other", "", <<>>)

(* Three numbers and nothing else after the word. *)
block_guard(line) == line.head \in {"%begin", "%end", "%error"} /\ Len(line.nums) = 3

(* Mutant: the number of the guard that ends a block is not compared. *)
feed_AnyNumber(line) ==
  CASE block # None /\ block_guard(line) /\ line.head # "%begin" ->
         got' = Append(got, Reply(block.client, line.head = "%end", block.lines)) /\ block' = None
    [] block # None /\ ~(block_guard(line) /\ line.head # "%begin") ->
         block' = [block EXCEPT !.lines = Append(@, line)] /\ UNCHANGED got
    [] block = None /\ block_guard(line) /\ line.head = "%begin" ->
         block' = [number |-> line.nums[2], client |-> line.nums[3] % 2 = 1, lines |-> <<>>] /\ UNCHANGED got
    [] OTHER -> got' = Append(got, parse_notification(line)) /\ UNCHANGED block

feed(line) ==
  LET ends == block_guard(line) /\ line.head # "%begin" /\ line.nums[2] = block.number
  IN  CASE block # None /\ ends ->
             got' = Append(got, Reply(block.client, line.head = "%end", block.lines)) /\ block' = None
        [] block # None /\ ~ends ->
             block' = [block EXCEPT !.lines = Append(@, line)] /\ UNCHANGED got
        [] block = None /\ block_guard(line) /\ line.head = "%begin" ->
             block' = [number |-> line.nums[2], client |-> line.nums[3] % 2 = 1, lines |-> <<>>] /\ UNCHANGED got
        [] OTHER -> got' = Append(got, parse_notification(line)) /\ UNCHANGED block

ReadLine ==
  /\ wire # <<>> /\ feed(Head(wire)) /\ wire' = Tail(wire)
  /\ UNCHANGED <<number, sent>>

Next == Tmux \/ ReadLine

Spec == Init /\ [][Next]_vars

-----------------------------------------------------------------------------
(* The parser is inside a block or not, and never has more than was said. *)
TypeOK ==
  /\ number \in 0..MaxUnits
  /\ block # None => block.number \in 1..number /\ block.client \in BOOLEAN
  /\ Len(sent) <= MaxUnits /\ Len(got) <= Len(sent)

Only(messages, type) == SelectSeq(messages, LAMBDA u : (u.type = "Reply") = (type = "Reply"))

(* Replies come out one for one, with their own lines, status and flag,    *)
(* whatever a captured screen shows: "%end 1 2 1" inside another block is  *)
(* a line of it (the recorded transcript of control.rs:169).  TmuxStream   *)
(* counts on it: it tells replies apart by their order alone.              *)
RepliesAreWhole == IsPrefix(Only(got, "Reply"), Only(sent, "Reply"))

(* A pane's bytes come out as the program in it wrote them, also control   *)
(* bytes, backslashes before digits and " : ", and all that tmux said has  *)
(* been understood once its lines are read.                                *)
OutputIsExact ==
  /\ IsPrefix(Only(got, "Notification"), Only(sent, "Notification"))
  /\ wire = <<>> => Len(got) = Len(sent)
=============================================================================
