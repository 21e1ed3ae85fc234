-------------------------------- MODULE WebUI --------------------------------
(***************************************************************************)
(* The web UI: the broker of pkg/ui/sse.go, the poller, the switch of      *)
(* context and the list requests of pkg/ui/server.go, and the page that    *)
(* uses them, pkg/ui/assets/index.html.                                    *)
(*                                                                         *)
(* All pages look through one server at one active view, a kube context    *)
(* and a namespace.  Lists of workspaces reach a page in two ways, as      *)
(* messages broadcast by polls and as replies to its own requests; polls   *)
(* and requests overlap, each with the client of the view that was active  *)
(* when it began.                                                          *)
(***************************************************************************)
EXTENDS Naturals, Sequences

CONSTANTS
  Pages,      \* open pages
  Views,      \* contexts with a namespace
  None,       \* no list, no work
  Places,     \* capacity of a client's channel
  Initial,    \* the view the server starts with
  MaxEvents   \* bound on switches, changes, failures and lost connections together

ASSUME UIAssumption ==
  Initial \in Views /\ None \notin Views /\ Places \in Nat \ {0} /\ MaxEvents \in Nat

VARIABLES
  active,     \* the view in the server's state
  world,      \* version of the workspaces each view would list
  clients,    \* pages whose channel is in the broker's map
  channel,    \* the channel of each page
  stream,     \* the page's request for events, and its handler
  stalled,    \* pages that do not take in what is sent to them
  task,       \* the lists under way to the broker or to a page
  switch,     \* the switches asked for: by which page, to what, how far
  list,       \* what each page shows
  events      \* how many so far

brokerVars == <<clients, channel, stream, stalled>>
vars == <<active, world, brokerVars, task, switch, list, events>>

-----------------------------------------------------------------------------

Lists == [view : Views, version : 0 .. MaxEvents]

ASSUME NoList == None \notin Lists

\* The ticker's poll; for each switch, the poll it starts and the request its
\* page makes after it.
Ticker == <<"ticker", 0>>
Tasks == {Ticker} \cup ({"push", "reply"} \X (1 .. MaxEvents))

Switches ==
  [page : Pages, view : Views, step : {"posted", "set", "pushed", "refused", "done"}]

Init ==
  /\ active = Initial /\ world = [v \in Views |-> 0]
  /\ clients = {} /\ channel = [p \in Pages |-> <<>>]
  /\ stream = [p \in Pages |-> "off"] /\ stalled = {}
  /\ task = [t \in Tasks |-> None] /\ switch = <<>>
  /\ list = [p \in Pages |-> None]
  /\ events = 0

Event == events < MaxEvents /\ events' = events + 1

-----------------------------------------------------------------------------
(* Broker and ServeSSE *)

\* A page connects, and its EventSource does again by itself.
Subscribe(p) ==
  /\ stream[p] \in {"off", "closed"}
  /\ stream' = [stream EXCEPT ![p] = "on"]
  /\ channel' = [channel EXCEPT ![p] = <<>>]
  /\ clients' = clients \cup {p}
  /\ UNCHANGED <<active, world, stalled, task, switch, list, events>>

\* The handler takes a message out and writes it to the page.
Deliver(p) ==
  /\ stream[p] = "on" /\ p \notin stalled /\ channel[p] # <<>>
  /\ list' = [list EXCEPT ![p] = Head(channel[p])]
  /\ channel' = [channel EXCEPT ![p] = Tail(@)]
  /\ UNCHANGED <<active, world, clients, stream, stalled, task, switch, events>>

\* The connection ends, and with it the request's context: ServeSSE returns.
Disconnect(p) ==
  /\ stream[p] = "on" /\ Event
  /\ stream' = [stream EXCEPT ![p] = "ended"]
  /\ stalled' = stalled \ {p}
  /\ UNCHANGED <<active, world, clients, channel, task, switch, list>>

\* unsubscribe takes the channel out of the map, then closes it.
Unsubscribe(p) ==
  /\ stream[p] = "ended"
  /\ stream' = [stream EXCEPT ![p] = "leaving"]
  /\ clients' = clients \ {p}
  /\ UNCHANGED <<active, world, channel, stalled, task, switch, list, events>>

CloseChannel(p) ==
  /\ stream[p] = "leaving"
  /\ stream' = [stream EXCEPT ![p] = "closed"]
  /\ UNCHANGED <<active, world, clients, channel, stalled, task, switch, list, events>>

Full(p) == Len(channel[p]) >= Places

-----------------------------------------------------------------------------
(* Polls and requests *)

\* fetchWorkspaces with the client and namespace of the active view, as the list
\* request or the poll finds them; what becomes of the list takes its time.
Begin(t) ==
  \/ task' = [task EXCEPT ![t] = [view |-> active, version |-> world[active]]] /\ UNCHANGED events
  \/ Event /\ UNCHANGED task

\* The ticker's next poll begins after the one before has ended.
TickerPolls ==
  /\ task[Ticker] = None
  /\ Begin(Ticker)
  /\ UNCHANGED <<active, world, brokerVars, switch, list>>

\* Faulty variant: the send waits for a place.
BroadcastToAll(t) ==
  /\ t[1] # "reply" /\ task[t] # None
  /\ \A p \in clients : ~Full(p)
  /\ channel' = [p \in Pages |-> IF p \in clients THEN Append(channel[p], task[t])
                                 ELSE channel[p]]
  /\ task' = [task EXCEPT ![t] = None]
  /\ UNCHANGED <<active, world, clients, stream, stalled, switch, list, events>>

\* Faulty variant: a full channel takes the message all the same.
BroadcastUnbounded(t) ==
  /\ t[1] # "reply" /\ task[t] # None
  /\ channel' = [p \in Pages |-> IF p \in clients THEN Append(channel[p], task[t])
                                 ELSE channel[p]]
  /\ task' = [task EXCEPT ![t] = None]
  /\ UNCHANGED <<active, world, clients, stream, stalled, switch, list, events>>

\* broadcast, all of it under the broker's mutex; full channels miss the message.
Broadcast(t) ==
  /\ t[1] # "reply" /\ task[t] # None
  /\ channel' = [p \in Pages |-> IF p \in clients /\ ~Full(p)
                                 THEN Append(channel[p], task[t])
                                 ELSE channel[p]]
  /\ task' = [task EXCEPT ![t] = None]
  /\ UNCHANGED <<active, world, clients, stream, stalled, switch, list, events>>

-----------------------------------------------------------------------------
(* The switch of context, from the page and back to it *)

SetStep(n, s) == switch' = [switch EXCEPT ![n].step = s]

\* postSwitch: the page empties its list, then asks.
PostSwitch(p, v) ==
  /\ Event
  /\ switch' = Append(switch, [page |-> p, view |-> v, step |-> "posted"])
  /\ list' = [list EXCEPT ![p] = None]
  /\ UNCHANGED <<active, world, brokerVars, task>>

HandleSwitch(n) ==
  /\ n <= Len(switch) /\ switch[n].step = "posted"
  /\ active' = switch[n].view
  /\ SetStep(n, "set")
  /\ UNCHANGED <<world, brokerVars, task, list, events>>

\* No client can be built for the context.
RefuseSwitch(n) ==
  /\ n <= Len(switch) /\ switch[n].step = "posted"
  /\ Event
  /\ SetStep(n, "refused")
  /\ UNCHANGED <<active, world, brokerVars, task, list>>

\* Faulty variant: the poll goes to the view that was switched to.
PushOwnView(n) ==
  /\ n <= Len(switch) /\ switch[n].step = "set"
  /\ task' = [task EXCEPT ![<<"push", n>>] =
                [view |-> switch[n].view, version |-> world[switch[n].view]]]
  /\ SetStep(n, "pushed")
  /\ UNCHANGED <<active, world, brokerVars, list, events>>

\* The handler reads the state again, for the poll it starts.
PushAfterSwitch(n) ==
  /\ n <= Len(switch) /\ switch[n].step = "set"
  /\ Begin(<<"push", n>>)
  /\ SetStep(n, "pushed")
  /\ UNCHANGED <<active, world, brokerVars, list>>

\* fetchWorkspaceList, when the switch is answered.
AskForList(n) ==
  /\ n <= Len(switch) /\ switch[n].step = "pushed"
  /\ Begin(<<"reply", n>>)
  /\ SetStep(n, "done")
  /\ UNCHANGED <<active, world, brokerVars, list>>

ShowReply(n) ==
  LET t == <<"reply", n>> IN
  /\ task[t] # None
  /\ list' = [list EXCEPT ![switch[n].page] = task[t]]
  /\ task' = [task EXCEPT ![t] = None]
  /\ UNCHANGED <<active, world, brokerVars, switch, events>>

-----------------------------------------------------------------------------
(* The world around *)

Change(v) ==
  /\ Event
  /\ world' = [world EXCEPT ![v] = @ + 1]
  /\ UNCHANGED <<active, brokerVars, task, switch, list>>

\* The network to a page, or its browser, comes to a halt for good.
Stall(p) ==
  /\ stream[p] = "on" /\ p \notin stalled /\ Event
  /\ stalled' = stalled \cup {p}
  /\ UNCHANGED <<active, world, clients, channel, stream, task, switch, list>>

-----------------------------------------------------------------------------

Serve(p) == Subscribe(p) \/ Deliver(p) \/ Unsubscribe(p) \/ CloseChannel(p)
Answer(n) ==
  HandleSwitch(n) \/ RefuseSwitch(n) \/ PushAfterSwitch(n) \/ AskForList(n) \/ ShowReply(n)

Next ==
  \/ \E p \in Pages : Serve(p) \/ Disconnect(p) \/ Stall(p)
  \/ TickerPolls \/ (\E t \in Tasks : Broadcast(t))
  \/ \E n \in 1 .. MaxEvents : Answer(n)
  \/ \E p \in Pages, v \in Views : PostSwitch(p, v)
  \/ \E v \in Views : Change(v)

Spec == Init /\ [][Next]_vars

\* The server's goroutines and the pages' scripts go on; the ticker ticks.  A
\* page that has stalled has no obligation, nor have users.
Fairness ==
  /\ \A p \in Pages : WF_vars(Serve(p))
  /\ WF_vars(TickerPolls)
  /\ \A t \in Tasks : WF_vars(Broadcast(t))
  /\ \A n \in 1 .. MaxEvents : WF_vars(Answer(n))

LiveSpec == Spec /\ Fairness

-----------------------------------------------------------------------------
(* Properties *)

TypeOK ==
  /\ active \in Views /\ world \in [Views -> 0 .. MaxEvents]
  /\ clients \subseteq Pages /\ stalled \subseteq Pages
  /\ stream \in [Pages -> {"off", "on", "ended", "leaving", "closed"}]
  /\ channel \in [Pages -> Seq(Lists)] /\ \A p \in Pages : Len(channel[p]) <= Places
  /\ task \in [Tasks -> Lists \cup {None}]
  /\ switch \in Seq(Switches) /\ Len(switch) <= MaxEvents
  /\ list \in [Pages -> Lists \cup {None}]
  /\ events \in 0 .. MaxEvents

\* The lists that a page shows, or may come to show.
Around(l) ==
  \/ \E t \in Tasks : task[t] = l
  \/ \E p \in Pages : list[p] = l \/ \E i \in DOMAIN channel[p] : channel[p][i] = l

OldViews == {v \in Views \ {active} : \E l \in Lists : l.view = v /\ Around(l)}

\* Until the next switch, no page comes to show a view that was neither shown nor
\* under way to a page: the workspaces of earlier views, however their polls,
\* switches and requests overlapped, run out.  [POST /api/switch, which reads the
\* state again for its poll; the ticker, which does each time]
OldViewsRunOut == [][UNCHANGED active => OldViews' \subseteq OldViews]_vars

\* Whatever polls and requests overlapped, messages were dropped and connections
\* lost, a page that takes in what it is sent ends up showing the workspaces of
\* the active view as they are, and goes on doing so, also while another page
\* has stalled.  [broadcast: "drops message for full channels rather than
\* blocking"; the ticker]
ShowsActiveInTheEnd ==
  \A p \in Pages :
    <>[](p \notin stalled => list[p] = [view |-> active, version |-> world[active]])

=============================================================================
