---------------------------- MODULE WebUIProofs ----------------------------
(***************************************************************************)
(* What holds of the web UI for any number of pages, views, switches and   *)
(* places in a channel: the types of the variables, and that lists of      *)
(* earlier views run out.                                                  *)
(***************************************************************************)
EXTENDS WebUI, TLAPS

\* Versions and switches are counted among the events.
Counted ==
  /\ \A v \in Views : world[v] <= events
  /\ Len(switch) <= events

IType == TypeOK /\ Counted

-----------------------------------------------------------------------------
(* Types *)

\* A task that is there is a list.
LEMMA TaskIsList ==
  ASSUME TypeOK, NEW t \in Tasks, task[t] # None
  PROVE  task[t] \in Lists
  BY DEF TypeOK

LEMMA EventCounts ==
  ASSUME events \in 0 .. MaxEvents, Event
  PROVE  events' \in 0 .. MaxEvents /\ events' = events + 1
  BY UIAssumption DEF Event

\* What a poll or a request begins with is a list of the active view.
LEMMA BeginType ==
  ASSUME IType, NEW t \in Tasks, Begin(t)
  PROVE  /\ task' \in [Tasks -> Lists \cup {None}]
         /\ events' \in 0 .. MaxEvents /\ events <= events'
<1>1. events \in 0 .. MaxEvents /\ task \in [Tasks -> Lists \cup {None}]
  BY DEF IType, TypeOK
<1>2. CASE task' = [task EXCEPT ![t] = [view |-> active, version |-> world[active]]]
           /\ UNCHANGED events
  <2>1. active \in Views /\ world[active] \in 0 .. MaxEvents
    BY DEF IType, TypeOK
  <2>2. [view |-> active, version |-> world[active]] \in Lists
    BY <2>1 DEF Lists
  <2> QED
    BY <1>1, <1>2, <2>2
<1>3. CASE Event /\ UNCHANGED task
  BY <1>1, <1>3, EventCounts
<1> QED
  BY <1>2, <1>3 DEF Begin

\* A switch that is there takes a step of its own.
LEMMA StepType ==
  ASSUME IType, NEW n \in 1 .. MaxEvents, n <= Len(switch),
         NEW s \in {"posted", "set", "pushed", "refused", "done"}, SetStep(n, s)
  PROVE  switch' \in Seq(Switches) /\ Len(switch') = Len(switch)
<1>1. switch \in Seq(Switches) /\ n \in 1 .. Len(switch)
  BY UIAssumption DEF IType, TypeOK
<1>2. switch[n] \in Switches
  BY <1>1
<1>3. [switch[n] EXCEPT !.step = s] \in Switches
  BY <1>2 DEF Switches
<1>4. switch' = [switch EXCEPT ![n] = [switch[n] EXCEPT !.step = s]]
  BY DEF SetStep
<1> QED
  BY <1>1, <1>3, <1>4

LEMMA InitType == Init => IType
<1> SUFFICES ASSUME Init PROVE IType
  OBVIOUS
<1>1. events = 0 /\ events \in 0 .. MaxEvents /\ Initial \in Views
  BY UIAssumption DEF Init
<1>2. world \in [Views -> 0 .. MaxEvents] /\ \A v \in Views : world[v] <= events
  BY <1>1, UIAssumption DEF Init
<1>3. switch \in Seq(Switches) /\ Len(switch) = 0
  BY DEF Init
<1>4. ASSUME NEW p \in Pages
      PROVE  channel[p] \in Seq(Lists) /\ Len(channel[p]) <= Places
  <2>1. channel[p] = <<>>
    BY DEF Init
  <2>2. <<>> \in Seq(Lists) /\ Len(<<>>) = 0 /\ 0 <= Places
    BY UIAssumption
  <2> QED
    BY <2>1, <2>2
<1> QED
  BY <1>1, <1>2, <1>3, <1>4, UIAssumption DEF Init, IType, TypeOK, Counted

LEMMA NextType == IType /\ [Next]_vars => IType'
<1> SUFFICES ASSUME IType, [Next]_vars PROVE IType'
  OBVIOUS
<1>e. events \in 0 .. MaxEvents /\ MaxEvents \in Nat /\ Places \in Nat \ {0}
  BY UIAssumption DEF IType, TypeOK
<1>s. switch \in Seq(Switches) /\ Len(switch) \in Nat /\ Len(switch) <= events
  BY DEF IType, TypeOK, Counted
<1>1. ASSUME NEW p \in Pages, Subscribe(p) PROVE IType'
  BY <1>1, <1>e DEF Subscribe, IType, TypeOK, Counted
<1>2. ASSUME NEW p \in Pages, Deliver(p) PROVE IType'
  <2>1. /\ channel[p] \in Seq(Lists) /\ Len(channel[p]) <= Places
        /\ channel[p] # <<>>
    BY <1>2 DEF Deliver, IType, TypeOK
  <2>2. /\ Head(channel[p]) \in Lists /\ Tail(channel[p]) \in Seq(Lists)
        /\ Len(Tail(channel[p])) <= Places
    BY <2>1, <1>e
  <2>3. \A q \in Pages : channel'[q] \in Seq(Lists) /\ Len(channel'[q]) <= Places
    BY <1>2, <2>2 DEF Deliver, IType, TypeOK
  <2> QED
    BY <1>2, <2>2, <2>3 DEF Deliver, IType, TypeOK, Counted
<1>3. ASSUME NEW p \in Pages, Disconnect(p) \/ Stall(p) PROVE IType'
  <2>1. events' \in 0 .. MaxEvents /\ events' = events + 1
    BY <1>3, <1>e, EventCounts DEF Disconnect, Stall
  <2>2. Len(switch) <= events' /\ \A v \in Views : world[v] <= events'
    BY <2>1, <1>e, <1>s DEF IType, TypeOK, Counted
  <2> QED
    BY <1>3, <2>1, <2>2 DEF Disconnect, Stall, IType, TypeOK, Counted
<1>4. ASSUME NEW p \in Pages, Unsubscribe(p) \/ CloseChannel(p) PROVE IType'
  BY <1>4 DEF Unsubscribe, CloseChannel, IType, TypeOK, Counted
<1>5. CASE TickerPolls
  <2>1. Ticker \in Tasks
    BY DEF Tasks
  <2>2. /\ task' \in [Tasks -> Lists \cup {None}]
        /\ events' \in 0 .. MaxEvents /\ events <= events'
    BY <1>5, <2>1, BeginType DEF TickerPolls
  <2>3. Len(switch) <= events' /\ \A v \in Views : world[v] <= events'
    BY <2>2, <1>e, <1>s DEF IType, TypeOK, Counted
  <2> QED
    BY <1>5, <2>2, <2>3 DEF TickerPolls, IType, TypeOK, Counted, brokerVars
<1>6. ASSUME NEW t \in Tasks, Broadcast(t) PROVE IType'
  <2>1. task[t] \in Lists
    BY <1>6, TaskIsList DEF Broadcast, IType
  <2>2. ASSUME NEW q \in Pages
        PROVE  channel'[q] \in Seq(Lists) /\ Len(channel'[q]) <= Places
    <3>1. channel[q] \in Seq(Lists) /\ Len(channel[q]) <= Places
      BY DEF IType, TypeOK
    <3>2. CASE q \in clients /\ ~Full(q)
      <4>1. channel'[q] = Append(channel[q], task[t])
        BY <1>6, <3>2 DEF Broadcast
      <4>2. Len(channel[q]) < Places
        BY <3>1, <3>2, <1>e DEF Full
      <4> QED
        BY <4>1, <4>2, <3>1, <2>1, <1>e
    <3>3. CASE ~(q \in clients /\ ~Full(q))
      <4>1. channel'[q] = channel[q]
        BY <1>6, <3>3 DEF Broadcast
      <4> QED
        BY <4>1, <3>1
    <3> QED
      BY <3>2, <3>3
  <2>3. task' \in [Tasks -> Lists \cup {None}]
    BY <1>6 DEF Broadcast, IType, TypeOK
  <2> QED
    BY <1>6, <2>2, <2>3 DEF Broadcast, IType, TypeOK, Counted
<1>7. ASSUME NEW n \in 1 .. MaxEvents, HandleSwitch(n) PROVE IType'
  <2>1. switch' \in Seq(Switches) /\ Len(switch') = Len(switch)
    BY <1>7, StepType DEF HandleSwitch
  <2>2. switch[n] \in Switches
    BY <1>7, <1>s DEF HandleSwitch
  <2>3. active' \in Views
    BY <1>7, <2>2 DEF HandleSwitch, Switches
  <2> QED
    BY <1>7, <2>1, <2>3 DEF HandleSwitch, IType, TypeOK, Counted, brokerVars
<1>8. ASSUME NEW n \in 1 .. MaxEvents, RefuseSwitch(n) PROVE IType'
  <2>1. switch' \in Seq(Switches) /\ Len(switch') = Len(switch)
    BY <1>8, StepType DEF RefuseSwitch
  <2>2. events' \in 0 .. MaxEvents /\ events' = events + 1
    BY <1>8, <1>e, EventCounts DEF RefuseSwitch
  <2>3. Len(switch') <= events' /\ \A v \in Views : world[v] <= events'
    BY <2>1, <2>2, <1>e, <1>s DEF IType, TypeOK, Counted
  <2> QED
    BY <1>8, <1>e, <1>s, <2>1, <2>2, <2>3 DEF RefuseSwitch, IType, TypeOK, Counted, brokerVars
<1>9. ASSUME NEW n \in 1 .. MaxEvents, PushAfterSwitch(n) \/ AskForList(n) PROVE IType'
  <2>1. <<"push", n>> \in Tasks /\ <<"reply", n>> \in Tasks
    BY DEF Tasks
  <2>2. /\ task' \in [Tasks -> Lists \cup {None}]
        /\ events' \in 0 .. MaxEvents /\ events <= events'
    BY <1>9, <2>1, BeginType DEF PushAfterSwitch, AskForList
  <2>3. switch' \in Seq(Switches) /\ Len(switch') = Len(switch)
    BY <1>9, StepType DEF PushAfterSwitch, AskForList
  <2>4. Len(switch') <= events' /\ \A v \in Views : world[v] <= events'
    BY <2>2, <2>3, <1>e, <1>s DEF IType, TypeOK, Counted
  <2> QED
    BY <1>9, <1>e, <1>s, <2>2, <2>3, <2>4
       DEF PushAfterSwitch, AskForList, IType, TypeOK, Counted, brokerVars
<1>10. ASSUME NEW n \in 1 .. MaxEvents, ShowReply(n) PROVE IType'
  <2>1. <<"reply", n>> \in Tasks
    BY DEF Tasks
  <2>2. task[<<"reply", n>>] \in Lists
    BY <1>10, <2>1, TaskIsList DEF ShowReply, IType
  <2>3. list' \in [Pages -> Lists \cup {None}] /\ task' \in [Tasks -> Lists \cup {None}]
    BY <1>10, <2>2 DEF ShowReply, IType, TypeOK
  <2> QED
    BY <1>10, <2>3 DEF ShowReply, IType, TypeOK, Counted, brokerVars
<1>11. ASSUME NEW p \in Pages, NEW v \in Views, PostSwitch(p, v) PROVE IType'
  <2>1. events' \in 0 .. MaxEvents /\ events' = events + 1
    BY <1>11, <1>e, EventCounts DEF PostSwitch
  <2>2. [page |-> p, view |-> v, step |-> "posted"] \in Switches
    BY DEF Switches
  <2>3. switch' \in Seq(Switches) /\ Len(switch') = Len(switch) + 1
    BY <1>11, <1>s, <2>2 DEF PostSwitch
  <2>4. /\ Len(switch') <= events' /\ Len(switch') <= MaxEvents
        /\ \A w \in Views : world[w] <= events'
    BY <2>1, <2>3, <1>e, <1>s DEF IType, TypeOK, Counted
  <2>5. list' \in [Pages -> Lists \cup {None}]
    BY <1>11 DEF PostSwitch, IType, TypeOK
  <2> QED
    BY <1>11, <2>1, <2>3, <2>4, <2>5 DEF PostSwitch, IType, TypeOK, Counted, brokerVars
<1>12. ASSUME NEW v \in Views, Change(v) PROVE IType'
  <2>1. events' \in 0 .. MaxEvents /\ events' = events + 1
    BY <1>12, <1>e, EventCounts DEF Change
  <2>2. \A w \in Views : world[w] \in 0 .. MaxEvents /\ world[w] <= events
    BY DEF IType, TypeOK, Counted
  <2>3. world' \in [Views -> 0 .. MaxEvents] /\ \A w \in Views : world'[w] <= events'
    BY <1>12, <2>1, <2>2, <1>e DEF Change, IType, TypeOK
  <2>4. Len(switch) <= events'
    BY <2>1, <1>e, <1>s
  <2> QED
    BY <1>12, <2>1, <2>3, <2>4 DEF Change, IType, TypeOK, Counted, brokerVars
<1>13. CASE UNCHANGED vars
  BY <1>13 DEF vars, brokerVars, IType, TypeOK, Counted
<1> QED
  BY <1>1, <1>2, <1>3, <1>4, <1>5, <1>6, <1>7, <1>8, <1>9, <1>10, <1>11, <1>12, <1>13
     DEF Next, Serve, Answer

\* Every variable keeps its type, a channel its capacity included.
THEOREM TypeInvariant == Spec => []TypeOK
<1>1. Spec => []IType
  BY InitType, NextType, PTL DEF Spec
<1>2. IType => TypeOK
  BY DEF IType
<1> QED
  BY <1>1, <1>2, PTL

-----------------------------------------------------------------------------
(* Earlier views *)

\* What is shown or under way after a step was so before, or is of the view that
\* was active.
LEMMA NothingElseTurnsUp ==
  ASSUME IType, [Next]_vars, NEW l \in Lists, Around(l)'
  PROVE  Around(l) \/ l.view = active
<1>t. task \in [Tasks -> Lists \cup {None}] /\ list \in [Pages -> Lists \cup {None}]
  BY DEF IType, TypeOK
<1>c. \A p \in Pages : channel[p] \in Seq(Lists)
  BY DEF IType, TypeOK
<1>n. l # None
  BY NoList
<1>a. ASSUME \A t \in Tasks : task'[t] = l => task[t] = l \/ l.view = active,
             \A p \in Pages : list'[p] = l => Around(l),
             \A p \in Pages : \A i \in DOMAIN channel'[p] : channel'[p][i] = l => Around(l)
      PROVE  Around(l) \/ l.view = active
  BY <1>a DEF Around
<1>b. UNCHANGED <<task, list, channel>> => Around(l)
  BY DEF Around
<1>1. ASSUME NEW p \in Pages, Subscribe(p)
      PROVE  Around(l) \/ l.view = active
  <2>1. /\ UNCHANGED <<task, list>>
        /\ \A q \in Pages : channel'[q] = <<>> \/ channel'[q] = channel[q]
    BY <1>1 DEF Subscribe, IType, TypeOK
  <2> QED
    BY <2>1 DEF Around
<1>2. ASSUME NEW p \in Pages, Deliver(p)
      PROVE  Around(l) \/ l.view = active
  <2>1. /\ channel[p] \in Seq(Lists) /\ channel[p] # <<>> /\ UNCHANGED task
        /\ \A q \in Pages : q # p => list'[q] = list[q] /\ channel'[q] = channel[q]
    BY <1>2, <1>c DEF Deliver
  <2>2. list'[p] = channel[p][1] /\ 1 \in DOMAIN channel[p]
    BY <1>2, <1>t, <2>1 DEF Deliver
  <2>3. ASSUME NEW q \in Pages, NEW i \in DOMAIN channel'[q], channel'[q][i] = l
        PROVE  Around(l)
    <3>1. CASE q # p
      BY <2>1, <2>3, <3>1 DEF Around
    <3>2. CASE q = p
      <4>1. channel'[p] = Tail(channel[p])
        BY <1>2 DEF Deliver, IType, TypeOK
      <4>2. i + 1 \in DOMAIN channel[p] /\ channel[p][i + 1] = l
        BY <2>1, <2>3, <3>2, <4>1
      <4> QED
        BY <4>2 DEF Around
    <3> QED
      BY <3>1, <3>2
  <2>4. \A q \in Pages : list'[q] = l => Around(l)
    BY <2>1, <2>2 DEF Around
  <2> QED
    BY <1>a, <2>1, <2>3, <2>4
<1>3. ASSUME NEW t \in Tasks, Broadcast(t)
      PROVE  Around(l) \/ l.view = active
  <2>1. /\ UNCHANGED list
        /\ \A u \in Tasks : task'[u] = None \/ task'[u] = task[u]
    BY <1>3, <1>t DEF Broadcast
  <2>2. ASSUME NEW q \in Pages, NEW i \in DOMAIN channel'[q], channel'[q][i] = l
        PROVE  Around(l)
    <3>1. CASE channel'[q] = channel[q]
      BY <2>2, <3>1 DEF Around
    <3>2. CASE channel'[q] = Append(channel[q], task[t])
      <4>1. channel[q] \in Seq(Lists)
        BY <1>c
      <4>2. task[t] = l \/ (i \in DOMAIN channel[q] /\ channel[q][i] = l)
        BY <2>2, <3>2, <4>1
      <4> QED
        BY <4>2 DEF Around
    <3> QED
      BY <1>3, <3>1, <3>2 DEF Broadcast
  <2>3. \A q \in Pages : list'[q] = l => Around(l)
    BY <2>1 DEF Around
  <2> QED
    BY <1>a, <1>n, <2>1, <2>2, <2>3
<1>4. ASSUME NEW t \in Tasks, Begin(t), UNCHANGED <<list, channel>>
      PROVE  Around(l) \/ l.view = active
  <2>1. \A u \in Tasks : task'[u] = task[u]
                         \/ task'[u] = [view |-> active, version |-> world[active]]
    BY <1>4, <1>t DEF Begin
  <2>2. \A u \in Tasks : task'[u] = l => task[u] = l \/ l.view = active
    BY <2>1
  <2>3. /\ \A p \in Pages : list'[p] = l => Around(l)
        /\ \A p \in Pages : \A i \in DOMAIN channel'[p] : channel'[p][i] = l => Around(l)
    BY <1>4 DEF Around
  <2> QED
    BY <1>a, <2>2, <2>3
<1>5. ASSUME NEW n \in 1 .. MaxEvents, ShowReply(n)
      PROVE  Around(l) \/ l.view = active
  <2>1. <<"reply", n>> \in Tasks
    BY DEF Tasks
  <2>2. /\ UNCHANGED channel
        /\ \A u \in Tasks : task'[u] = None \/ task'[u] = task[u]
        /\ \A q \in Pages : list'[q] = list[q] \/ list'[q] = task[<<"reply", n>>]
    BY <1>5, <1>t DEF ShowReply, brokerVars
  <2>3. \A q \in Pages : list'[q] = l => Around(l)
    BY <2>1, <2>2 DEF Around
  <2>4. \A p \in Pages : \A i \in DOMAIN channel'[p] : channel'[p][i] = l => Around(l)
    BY <2>2 DEF Around
  <2> QED
    BY <1>a, <1>n, <2>2, <2>3, <2>4
<1>6. ASSUME NEW p \in Pages, NEW v \in Views, PostSwitch(p, v)
      PROVE  Around(l) \/ l.view = active
  <2>1. /\ UNCHANGED <<task, channel>>
        /\ \A q \in Pages : list'[q] = None \/ list'[q] = list[q]
    BY <1>6, <1>t DEF PostSwitch, brokerVars
  <2> QED
    BY <1>n, <2>1 DEF Around
<1>7. ASSUME NEW n \in 1 .. MaxEvents, Answer(n)
      PROVE  Around(l) \/ l.view = active
  <2>1. CASE HandleSwitch(n) \/ RefuseSwitch(n)
    BY <1>b, <2>1 DEF HandleSwitch, RefuseSwitch, brokerVars
  <2>2. CASE PushAfterSwitch(n) \/ AskForList(n)
    <3>1. <<"push", n>> \in Tasks /\ <<"reply", n>> \in Tasks
      BY DEF Tasks
    <3> QED
      BY <1>4, <2>2, <3>1 DEF PushAfterSwitch, AskForList, brokerVars
  <2> QED
    BY <1>5, <1>7, <2>1, <2>2 DEF Answer
<1>8. CASE TickerPolls
  <2>1. Ticker \in Tasks
    BY DEF Tasks
  <2> QED
    BY <1>4, <1>8, <2>1 DEF TickerPolls, brokerVars
<1>9. ASSUME NEW p \in Pages, CloseChannel(p) \/ Unsubscribe(p) \/ Disconnect(p) \/ Stall(p)
      PROVE  Around(l)
  BY <1>b, <1>9 DEF CloseChannel, Unsubscribe, Disconnect, Stall
<1>10. CASE (\E v \in Views : Change(v)) \/ UNCHANGED vars
  BY <1>b, <1>10 DEF Change, vars, brokerVars
<1> QED
  BY <1>1, <1>2, <1>3, <1>6, <1>7, <1>8, <1>9, <1>10 DEF Next, Serve

\* Until the next switch, only the active view's workspaces are read: lists of
\* earlier views become fewer and do not come back, for any number of pages,
\* switches and overlapping polls and requests.  [pollAndBroadcast, POST /api/switch]
THEOREM EarlierViewsRunOut == Spec => OldViewsRunOut
<1>1. IType /\ [Next]_vars => [UNCHANGED active => OldViews' \subseteq OldViews]_vars
  <2> SUFFICES ASSUME IType, [Next]_vars, active' = active, NEW v \in OldViews'
               PROVE  v \in OldViews
    OBVIOUS
  <2>1. PICK l \in Lists : l.view = v /\ Around(l)'
    BY DEF OldViews
  <2>2. v \in Views /\ v # active
    BY DEF OldViews
  <2> QED
    BY <2>1, <2>2, NothingElseTurnsUp DEF OldViews
<1> QED
  BY <1>1, InitType, NextType, PTL DEF Spec, OldViewsRunOut

=============================================================================
