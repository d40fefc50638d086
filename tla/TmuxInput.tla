------------------------------ MODULE TmuxInput ------------------------------
(***************************************************************************)
(* How input reaches a pane: keys and pastes as a request names them       *)
(* (core/terminal.rs), App::terminal_input, and the tmux adapter that runs *)
(* one tmux command after another (infra/multiplexer/tmux.rs).  Requests   *)
(* come from the daemon's socket and from control channels, each on a      *)
(* thread of its own, so the commands of two of them interleave.           *)
(*                                                                         *)
(* tmux and the processes in its panes are external: panes with an         *)
(* identity, named buffers, and what a pane has received.  A key's text is *)
(* the sequence of its modifier prefixes and its base.                     *)
(***************************************************************************)
EXTENDS Integers, Sequences, FiniteSets

CONSTANTS
  None,
  Requests, Panes,
  Target,        \* request -> the pane of its invocation
  Input,         \* request -> [kind |-> "keys", keys] or [kind |-> "paste", text, enter]
  AtOnce,        \* requests under way at a time
  Abrupt,        \* may the world change under a delivery?
  Depth,         \* ancestors is_descendant looks at (128)
  MaxEvents      \* bound on changes of the world

NamedKey == {"up", "enter", "ctrl_c", "back_tab", "f5"}
Chars == {"x", "E", ";", "+"}

TmuxInputAssumption ==
  /\ Target \in [Requests -> Panes] /\ Abrupt \in BOOLEAN
  /\ {AtOnce, Depth, MaxEvents} \subseteq Nat
  /\ \A r \in Requests : Input[r].kind \in {"keys", "paste"}

VARIABLES
  server,    \* which tmux server listens on the socket: 1, 2, ...; 0 for none
  pane,      \* pane -> [id, alive, in_mode, front]; id is its server, tty and first process
  parent,    \* process -> its parent, None when it is gone
  buffers,   \* name -> text, None when there is no such buffer
  received,  \* pane -> what was typed into it: [by, id, item]
  pc,        \* request -> where it is
  sent,      \* request -> keys written so far
  events     \* changes of the world

world == <<server, pane, parent, events>>
vars == <<world, buffers, received, pc, sent>>

-----------------------------------------------------------------------------
(* Keys.                                                                   *)

parse_base(v) == Len(v) = 1 /\ v[1] \in NamedKey \cup Chars

Strip(v, prefix) == IF Len(v) > 1 /\ v[1] = prefix THEN Tail(v) ELSE v

(* [ctrl+][alt+]<base>: each prefix at most once and in that order, and    *)
(* only before something.  None for what is no key.                        *)
from_str(v) ==
  LET a == Strip(v, "ctrl+")
      b == Strip(a, "alt+")
  IN  IF parse_base(b) THEN [ctrl |-> a # v, alt |-> b # a, base |-> b[1]] ELSE None

Keys(r) == [i \in DOMAIN Input[r].keys |-> from_str(Input[r].keys[i])]

(* An input that deserializes and is not empty.                            *)
validate_input(r) ==
  IF Input[r].kind = "keys"
  THEN Input[r].keys # <<>> /\ \A i \in DOMAIN Input[r].keys : Keys(r)[i] # None
  ELSE Input[r].text # ""

key_name == [up |-> "Up", enter |-> "Enter", ctrl_c |-> "C-c", back_tab |-> "BTab", f5 |-> "F5"]

(* The argument of send-keys, and whether it is sent with -l.              *)
tmux_key(key) ==
  [mods |-> {m \in {"C-", "M-"} : IF m = "C-" THEN key.ctrl ELSE key.alt},
   name |-> CASE key.base \in NamedKey -> key_name[key.base] [] key.base = ";" -> "\\;" [] OTHER -> key.base,
   literal |-> ~key.ctrl /\ ~key.alt /\ key.base \in Chars]

(* What tmux makes of it: a lone ; ends the command, \; is one; with -l    *)
(* the text itself, else the key of that name.                             *)
Typed(arg) ==
  LET text == IF arg.name = "\\;" THEN ";" ELSE arg.name
  IN  CASE arg.name = ";" -> None
        [] arg.name # ";" /\ arg.literal -> [mods |-> {}, key |-> text]
        [] OTHER -> [mods |-> arg.mods, key |-> text]

(* The key a request means.                                                *)
Meant(v) ==
  LET base == v[Len(v)]
  IN  [mods |-> {m \in {"C-", "M-"} : \E i \in 1..(Len(v) - 1) : v[i] = IF m = "C-" THEN "ctrl+" ELSE "alt+"},
       key |-> IF base \in NamedKey THEN key_name[base] ELSE base]

(* The buffer is named after the daemon's process: one name for every      *)
(* paste of this daemon.                                                   *)
BufferName == "sessiontap-pid"
Text(t) == [mods |-> {"pasted"}, key |-> t]

-----------------------------------------------------------------------------
(* tmux and the processes, changed by the user.                            *)

Agent(p) == <<p, "agent">>
Wrapper(p) == <<p, "wrapper">>
First(p) == <<p, "first">> \* the first process of the pane, a shell
init == <<"", "init">>
Pids == {init} \cup (Panes \X {"agent", "wrapper", "first"})

Exists(p) == server # 0 /\ pane[p].alive
Delivering == {r \in Requests : pc[r] \in {"validate", "send", "load", "paste", "enter"}}
Change ==
  /\ events < MaxEvents /\ events' = events + 1
  /\ Abrupt \/ Delivering = {}
  /\ UNCHANGED <<received, pc, sent>>

(* The user scrolls, or stops; suspends the agent, or resumes it.          *)
Mode(p) == Exists(p) /\ Change /\ pane' = [pane EXCEPT ![p].in_mode = ~@] /\ UNCHANGED <<server, parent, buffers>>
Suspend(p) ==
  /\ Exists(p) /\ Change /\ parent[Agent(p)] # None
  /\ pane' = [pane EXCEPT ![p].front = IF @ = Agent(p) THEN First(p) ELSE Agent(p)]
  /\ UNCHANGED <<server, parent, buffers>>

AgentExits(p) ==
  /\ parent[Agent(p)] # None /\ Change
  /\ parent' = [parent EXCEPT ![Agent(p)] = None]
  /\ pane' = [pane EXCEPT ![p].front = First(p)]
  /\ UNCHANGED <<server, buffers>>

(* The wrapper dies, and init adopts the agent.                            *)
WrapperDies(p) ==
  /\ parent[Wrapper(p)] # None /\ Change
  /\ parent' = [parent EXCEPT ![Wrapper(p)] = None,
                              ![Agent(p)] = IF @ = None THEN None ELSE init]
  /\ UNCHANGED <<server, pane, buffers>>

(* respawn-pane -k: the pane keeps its ID, with another first process.     *)
Respawn(p) ==
  /\ Exists(p) /\ Change
  /\ pane' = [pane EXCEPT ![p] = [id |-> [server |-> server, first |-> 2], alive |-> TRUE, in_mode |-> FALSE,
                                  front |-> First(p)]]
  /\ parent' = [parent EXCEPT ![Agent(p)] = None, ![Wrapper(p)] = None]
  /\ UNCHANGED <<server, buffers>>

(* The server is killed; another may be started, its panes with the same   *)
(* IDs.                                                                    *)
Kill ==
  /\ server # 0 /\ Change
  /\ \E next \in {0, server + 1} :
       /\ server' = next
       /\ pane' = [p \in Panes |-> [id |-> [server |-> next, first |-> 1], alive |-> next # 0, in_mode |-> FALSE,
                                    front |-> First(p)]]
  /\ parent' = [q \in Pids |-> IF q # init /\ q[2] # "first" THEN None ELSE parent[q]]
  /\ buffers' = [n \in {BufferName} |-> None]

World == Kill \/ \E p \in Panes : Mode(p) \/ Suspend(p) \/ AgentExits(p) \/ WrapperDies(p) \/ Respawn(p)

-----------------------------------------------------------------------------
(* The adapter.                                                            *)

(* Is the ancestor the process or among its ancestors, at most Depth up?   *)
is_descendant(child, ancestor) ==
  LET Up[n \in 0..Depth] == CASE n = 0 -> child
                               [] n > 0 /\ Up[n - 1] \in {None, init} -> None
                               [] OTHER -> parent[Up[n - 1]]
  IN  \E n \in 0..Depth : Up[n] = ancestor

(* The identity recorded at launch.                                        *)
Expected == [server |-> 1, first |-> 1]

validate(p) ==
  /\ Exists(p)
  /\ pane[p].id = Expected \* server_pid, pane_id, pane_tty, pane_pid
  /\ is_descendant(Agent(p), First(p))

guard(p) ==
  CASE pane[p].front # Agent(p) -> "not_foreground"
    [] pane[p].front = Agent(p) /\ pane[p].in_mode -> "pane_in_mode"
    [] OTHER -> None

Go(r, where) == pc' = [pc EXCEPT ![r] = where]
Under == {r \in Requests : pc[r] \notin {"new", "refused", "failed", "done"}}

(* A request whose input does not parse, or is empty, is refused.          *)
Begin(r) ==
  /\ pc[r] = "new" /\ Cardinality(Under) < AtOnce
  /\ Go(r, IF validate_input(r) THEN "state" ELSE "refused")
  /\ UNCHANGED <<world, buffers, received, sent>>

(* pane_state validates, then asks for the mode and the foreground group.  *)
pane_state(r) ==
  /\ pc[r] = "state" /\ Go(r, IF validate(Target[r]) THEN "guard" ELSE "refused")
  /\ UNCHANGED <<world, buffers, received, sent>>

(* Mutant: a pane that is scrolled back takes input.                       *)
Guard_Mode(r) ==
  /\ pc[r] = "guard"
  /\ Go(r, IF Exists(Target[r]) /\ guard(Target[r]) # "not_foreground" THEN "validate" ELSE "refused")
  /\ UNCHANGED <<world, buffers, received, sent>>
Guard(r) ==
  /\ pc[r] = "guard"
  /\ Go(r, IF Exists(Target[r]) /\ guard(Target[r]) = None THEN "validate" ELSE "refused")
  /\ UNCHANGED <<world, buffers, received, sent>>

Validate(r) ==
  /\ pc[r] = "validate"
  /\ Go(r, IF ~validate(Target[r]) THEN "refused" ELSE IF Input[r].kind = "keys" THEN "send" ELSE "load")
  /\ UNCHANGED <<world, buffers, received, sent>>

(* A tmux command that writes: it fails when the pane is gone.             *)
Write(r, items, next) ==
  LET p == Target[r]
      entries == [i \in DOMAIN items |-> [by |-> r, id |-> pane[p].id, item |-> items[i]]]
  IN  IF Exists(p) THEN received' = [received EXCEPT ![p] = @ \o entries] /\ Go(r, next)
      ELSE Go(r, "failed") /\ UNCHANGED received

send_keys(r) ==
  LET n == sent[r] + 1
      key == Typed(tmux_key(Keys(r)[n]))
  IN  /\ pc[r] = "send"
      /\ sent' = [sent EXCEPT ![r] = n]
      /\ Write(r, IF key = None THEN <<>> ELSE <<key>>, IF n = Len(Keys(r)) THEN "done" ELSE "send")
      /\ UNCHANGED <<world, buffers>>

load_buffer(r) ==
  /\ pc[r] = "load"
  /\ IF server # 0 THEN buffers' = [buffers EXCEPT ![BufferName] = Input[r].text] /\ Go(r, "paste")
     ELSE Go(r, "failed") /\ UNCHANGED buffers
  /\ UNCHANGED <<world, received, sent>>

paste_buffer(r) ==
  /\ pc[r] = "paste"
  /\ IF buffers[BufferName] # None
     THEN /\ Write(r, <<Text(buffers[BufferName])>>, IF Input[r].enter THEN "enter" ELSE "done")
          /\ buffers' = IF Exists(Target[r]) THEN [buffers EXCEPT ![BufferName] = None] ELSE buffers
     ELSE Go(r, "failed") /\ UNCHANGED <<received, buffers>>
  /\ UNCHANGED <<world, sent>>

Enter == [mods |-> {}, key |-> "Enter"]
send_enter(r) ==
  /\ pc[r] = "enter" /\ Write(r, <<Enter>>, "done")
  /\ UNCHANGED <<world, buffers, sent>>

Init ==
  /\ server = 1
  /\ pane = [p \in Panes |-> [id |-> Expected, alive |-> TRUE, in_mode |-> FALSE, front |-> Agent(p)]]
  /\ parent = [q \in Pids |-> CASE q = init -> init
                                [] q # init /\ q[2] = "first" -> init
                                [] q # init /\ q[2] = "wrapper" -> First(q[1])
                                [] OTHER -> Wrapper(q[1])]
  /\ buffers = [n \in {BufferName} |-> None]
  /\ received = [p \in Panes |-> <<>>]
  /\ pc = [r \in Requests |-> "new"] /\ sent = [r \in Requests |-> 0]
  /\ events = 0

Step(r) ==
  \/ Begin(r) \/ pane_state(r) \/ Guard(r) \/ Validate(r)
  \/ send_keys(r) \/ load_buffer(r) \/ paste_buffer(r) \/ send_enter(r)

Next == World \/ \E r \in Requests : Step(r)
Spec == Init /\ [][Next]_vars

-----------------------------------------------------------------------------
TypeOK ==
  /\ server \in 0..(MaxEvents + 1) /\ events \in 0..MaxEvents
  /\ \A p \in Panes : pane[p].in_mode \in BOOLEAN /\ pane[p].front \in {Agent(p), First(p)}
  /\ \A q \in Pids : parent[q] \in Pids \cup {None}
  /\ pc \in [Requests -> {"new", "state", "guard", "validate", "send", "load", "paste", "enter",
                          "refused", "failed", "done"}]
  /\ \A r \in Requests : sent[r] \in 0..(IF Input[r].kind = "keys" THEN Len(Input[r].keys) ELSE 0)

By(r, p) == SelectSeq(received[p], LAMBDA e : e.by = r)
Items(s) == [i \in DOMAIN s |-> s[i].item]

(* What a request asks to be typed.                                        *)
Asked(r) ==
  IF Input[r].kind = "keys" THEN [i \in DOMAIN Input[r].keys |-> Meant(Input[r].keys[i])]
  ELSE <<Text(Input[r].text)>> \o (IF Input[r].enter THEN <<Enter>> ELSE <<>>)

(* "Keys in one request SHALL be delivered in request order. A text paste  *)
(* SHALL be delivered literally, ... and SHALL be followed by an Enter key *)
(* only when the request asks for it" (terminal-stream/spec.md:92): the    *)
(* pane of a request that succeeded got what was asked, and of one that    *)
(* broke off a beginning of it, whatever else was typed in between.        *)
ArrivesAsAsked ==
  \A r \in Requests :
    LET got == Items(By(r, Target[r]))
    IN  /\ pc[r] = "done" => got = Asked(r)
        /\ Len(got) <= Len(Asked(r)) /\ \A i \in DOMAIN got : got[i] = Asked(r)[i]

(* "A request with an unknown key name, an unknown or repeated modifier, a *)
(* modifier with no key, an empty key sequence, or empty text SHALL fail   *)
(* ... without writing to the pane" (terminal-stream/spec.md:92): not even *)
(* the good keys before a bad one are typed.                               *)
WellFormed(r) ==
  IF Input[r].kind = "paste" THEN Input[r].text # ""
  ELSE /\ Input[r].keys # <<>>
       /\ \A i \in DOMAIN Input[r].keys :
            \E mods \in {<<>>, <<"ctrl+">>, <<"alt+">>, <<"ctrl+", "alt+">>}, base \in NamedKey \cup Chars :
              Input[r].keys[i] = Append(mods, base)
MalformedWritesNothing ==
  \A r \in Requests : ~WellFormed(r) => (\A p \in Panes : By(r, p) = <<>>)

(* An input that the guard or the validation refuses is refused "without   *)
(* writing to the pane" (terminal-stream/spec.md:70), also when the world  *)
(* changes under it: the answer of one that wrote something is another.    *)
RefusedWritesNothing ==
  \A r \in Requests, p \in Panes : pc[r] = "refused" => By(r, p) = <<>>

(* Nothing is typed into a pane that is scrolled back or has a shell in    *)
(* front, nor after init adopted the agent, nor into a pane the request    *)
(* does not name, nor - "a recorded pane ID now refers to an unrelated     *)
(* process after tmux restart or pane replacement"                         *)
(* (multiplexer-integration/spec.md:43) - into another pane of that ID,    *)
(* unless the world changed during the delivery itself.                    *)
TypedAtTheAgent ==
  \A p \in Panes : received'[p] # received[p] =>
    /\ ~pane[p].in_mode /\ pane[p].front = Agent(p) /\ parent[Agent(p)] = Wrapper(p)
    /\ pane[p].id = Expected
    /\ Target[received'[p][Len(received'[p])].by] = p

(* A paste leaves no buffer behind for the user to find.                   *)
NoBufferLeft ==
  (Under = {} /\ \A r \in Requests : pc[r] # "failed") => buffers[BufferName] = None

=============================================================================
