------------------------------ MODULE MCBroker ------------------------------
(* Small instances of Broker for TLC. A behaviour has a theme, chosen in its  *)
(* first state: the events its hooks send and the bounds it stays within.     *)
EXTENDS Broker, TLC

CONSTANTS s1, s2, t1, t2, bash, c1, tail, Themes

VARIABLES
  theme,
  delivered  \* the announcements of turns committed so far, under "delayed"

(* A hook event with nothing but its kind, session and turn. *)
Hook(kind, session, turn) ==
  [kind |-> kind, channel |-> "ManagedHook", session |-> session, turn_id |-> turn,
   tool |-> None, usage |-> None, context |-> FALSE, child |-> None,
   source |-> None, sequence |-> None]

Permute == Permutations(Invocations)

(* Turns, sessions and status reasons. *)
TurnEvents ==
  {Hook("NewTurn", s1, t) : t \in {t1, t2}}
    \cup {Hook(k, s1, t1) : k \in {"Working", "Idle"}}
    \cup {[Hook(k, s1, t) EXCEPT !.context = c] :
            k \in {"WaitingInput", "Completed"}, t \in {t1, t2}, c \in BOOLEAN}
    \cup {[Hook("Interrupted", s1, None) EXCEPT !.context = TRUE]}
    \cup {Hook("ProviderSessionStarted", s2, None)}

(* Tools, usage and the side channel's sequence numbers. *)
Tool(phase, label, id) == [phase |-> phase, label |-> label, correlation_id |-> id]

ToolEvents ==
  {[Hook("Working", s, t1) EXCEPT !.tool = Tool(p, bash, c)] :
      s \in {s1, s2}, p \in {"Start", "Finish"}, c \in {c1, None}}
    \cup {[Hook("WaitingApproval", s1, t1) EXCEPT !.tool = Tool("Attention", bash, c1)]}
    \cup {[Hook("Working", s1, None) EXCEPT !.channel = "SideChannel", !.source = tail,
                                            !.sequence = n] : n \in 1 .. 2}
    \cup {Hook("Completed", s1, t1), Hook("ProviderSessionStarted", s2, None)}
    \cup {[Hook("Idle", s, None) EXCEPT !.usage = s] : s \in {s1, s2}}

Figures ==
  {[Hook("Enrichment", s, None) EXCEPT !.channel = "ProviderArtifact", !.usage = s] :
      s \in {s1, s2}}

(* Child agents: more of them than the cap. *)
ChildEvents ==
  {[Hook(k, s, None) EXCEPT !.child = a] :
      k \in {"Working", "WaitingApproval", "Completed"}, s \in {s1}, a \in AgentIds}
    \cup {[Hook("Working", s2, None) EXCEPT !.child = 1]}
    \cup {Hook("NewTurn", s1, t1), Hook("ProviderSessionStarted", s2, None)}

(* The few events that matter to the life cycle. *)
LifecycleEvents ==
  {Hook("NewTurn", s1, None), [Hook("Failed", s1, None) EXCEPT !.context = TRUE]}

(* A provider that announces turn t1 and then turn t2, each once. Every hook  *)
(* is a process and a connection of its own, so the two commit in either      *)
(* order.                                                                     *)
Announcements == {Hook("NewTurn", s1, t1), Hook("NewTurn", s1, t2)}

AllEvents == TurnEvents \cup ToolEvents \cup ChildEvents \cup LifecycleEvents

Bounds(events, figures, launches, ids, time, faults) ==
  [events |-> events, figures |-> figures, launches |-> launches, ids |-> ids,
   time |-> time, faults |-> faults]

Theme ==
  [turns |-> Bounds(TurnEvents, {}, 1, 4, 1, 1),
   tools |-> Bounds(ToolEvents, Figures, 1, 3, 1, 1),
   children |-> Bounds(ChildEvents, {}, 1, 4, 1, 0),
   lifecycle |-> Bounds(LifecycleEvents, {}, 2, 1, 1, 2),
   silence |-> Bounds(LifecycleEvents, {}, 1, 2, 4, 1),
   delayed |-> Bounds(Announcements, {}, 1, 2, 0, 0)]

(* Event ids are interchangeable, so a new one is the least that is unused.   *)
Within(b) ==
  /\ Cardinality({i \in Invocations : wrapper'[i] # "idle"}) <= b.launches
  /\ dedup' = 1 .. Cardinality(dedup') /\ Cardinality(dedup') <= b.ids
  /\ clock' <= b.time /\ crashes' <= b.faults

ThemeInit == Init /\ theme \in Themes /\ delivered = {}

(* Broker's Next with the events of the theme. *)
ThemeNext ==
  /\ \/ \E i \in Invocations :
          \/ WrapperNext(i) \/ ServeRegister(i) \/ bind_child(i) \/ mark_exit(i)
          \/ \E e \in Theme[theme].figures : EnrichmentChecked(i, e)
     \/ DaemonNext \/ Tick
  /\ Within(Theme[theme])
  /\ UNCHANGED <<theme, delivered>>

HookNext ==
  /\ \E i \in Invocations, id \in EventIds, e \in Theme[theme].events \ delivered :
       /\ ingest_hook(i, id, e)
       /\ delivered' = IF theme = "delayed" THEN delivered \cup {e} ELSE {}
  /\ Within(Theme[theme])
  /\ UNCHANGED theme

ThemeSpec == ThemeInit /\ [][ThemeNext \/ HookNext]_<<vars, theme, delivered>>
FairThemeSpec == ThemeSpec /\ Fairness

(* normalized-session-state/spec.md: "delayed hook events cannot regress      *)
(* current metadata". Once the row shows turn t2, the announcement of t1,     *)
(* which the provider sent before it, does not bring t1 back.                 *)
TurnNeverRegresses ==
  [][\A i \in Invocations :
       Kept(i) /\ rows[i].turn_id = t2 => rows'[i].turn_id # t1]_vars
=============================================================================
