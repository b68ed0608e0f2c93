-------------------------- MODULE GroupContentProofs --------------------------
(***************************************************************************)
(* What the groups of WorkspaceGroups contain, for every value of the      *)
(* constants.                                                              *)
(*                                                                         *)
(*  TabsSound         no tab is in two panes, and a pane whose Remove event *)
(*                    is queued is empty;                                  *)
(*  TabsKept          HandlersKeepTabs: handlers lose no tab;              *)
(*  ContentFollows    GroupContentKept: content follows the group;         *)
(*  BadgesStay        BadgeKept: badges stay until their group is shown;   *)
(*  PlacesInvariance  what a queued event finds when it comes;             *)
(*  TracesFollow      OnlyLateTabsUntraced: the item maps stay right;      *)
(*  ActivePaneFollows ActivePaneKept: the active pane stays on screen;     *)
(*  BellsFollow       a bell lights the badge of its tab's group.          *)
(***************************************************************************)
EXTENDS WorkspaceGroupsProofs

(* An item has an id that was handed out, and is in one pane.                *)
ItemsApart ==
    /\ \A p \in Pane : items[p] \subseteq 1..nItems
    /\ \A p, q \in Pane : p # q => items[p] \cap items[q] = {}

(* A pane that a queued event will remove has lost its last tab.             *)
EmptyRemoved ==
    \A i \in 1..Len(queue) : queue[i].type = "Remove" => items[queue[i].pane] = {}

TabsInv == ItemsApart /\ EmptyRemoved

(* What a step may do to the tabs: close some, move one, or add a new one.   *)
TabsShrink == nItems' = nItems /\ \A p \in Pane : items'[p] \subseteq items[p]

TabMoves(p, q, it) ==
    /\ nItems' = nItems
    /\ p \in Pane /\ q \in Pane /\ p # q /\ it \in items[p] /\ it \notin items'[p]
    /\ items'[q] \subseteq items[q] \cup {it}
    /\ \A r \in Pane \ {q} : items'[r] \subseteq items[r]

TabAdded(q) ==
    /\ nItems' = nItems + 1
    /\ items'[q] \subseteq items[q] \cup {nItems + 1}
    /\ \A r \in Pane \ {q} : items'[r] \subseteq items[r]

LEMMA ShrinkingKeepsApart ==
    ASSUME ItemsApart, TabsShrink
    PROVE  ItemsApart'
  BY DEF ItemsApart, TabsShrink

LEMMA MovingKeepsApart ==
    ASSUME ItemsApart, NEW p, NEW q, NEW it, TabMoves(p, q, it)
    PROVE  ItemsApart'
<1>1. \A r \in Pane : it \in items[r] => r = p
  BY DEF ItemsApart, TabMoves
<1>2. it \in 1..nItems
  BY DEF ItemsApart, TabMoves
<1>3. \A r \in Pane : items'[r] \subseteq 1..nItems'
  BY <1>2 DEF ItemsApart, TabMoves
<1>4. \A r \in Pane \ {q} : it \notin items'[r]
  BY <1>1 DEF TabMoves
<1>5. \A r, s \in Pane : r # s => items'[r] \cap items'[s] = {}
  <2>1. \A r, s \in Pane : r # s => items[r] \cap items[s] = {}
    BY DEF ItemsApart
  <2>2. \A r \in Pane : items'[r] \ {it} \subseteq items[r]
    BY DEF TabMoves
  <2>3. \A r, s \in Pane : r # s => ~ (it \in items'[r] /\ it \in items'[s])
    BY <1>4
  <2>4. QED
    BY <2>1, <2>2, <2>3
<1>6. QED
  BY <1>3, <1>5 DEF ItemsApart

LEMMA AddingKeepsApart ==
    ASSUME ItemsApart, nItems \in Nat, NEW q \in Pane, TabAdded(q)
    PROVE  ItemsApart'
<1>1. /\ 1..nItems \subseteq 1..nItems' /\ nItems + 1 \in 1..nItems'
      /\ nItems + 1 \notin 1..nItems
  BY DEF TabAdded
<1>2. \A r \in Pane : items[r] \subseteq 1..nItems
  BY DEF ItemsApart
<1>3. \A r \in Pane : items'[r] \subseteq 1..nItems'
  BY <1>1, <1>2 DEF TabAdded
<1>4. \A r \in Pane \ {q} : nItems + 1 \notin items'[r]
  BY <1>1, <1>2 DEF TabAdded
<1>5. \A r, s \in Pane : r # s => items'[r] \cap items'[s] = {}
  <2>1. \A r, s \in Pane : r # s => items[r] \cap items[s] = {}
    BY DEF ItemsApart
  <2>2. \A r \in Pane : items'[r] \ {nItems + 1} \subseteq items[r]
    BY DEF TabAdded
  <2>3. \A r, s \in Pane : r # s => ~ (nItems + 1 \in items'[r] /\ nItems + 1 \in items'[s])
    BY <1>4
  <2>4. QED
    BY <2>1, <2>2, <2>3
<1>6. QED
  BY <1>3, <1>5 DEF ItemsApart

(* A handler takes the first event and adds no tab, so the panes that are to *)
(* be removed stay empty.                                                    *)
LEMMA DeliveryKeepsEmpty ==
    ASSUME EmptyRemoved, queue \in Seq(EventType), queue # <<>>, queue' = Tail(queue),
           \A p \in Pane : items'[p] \subseteq items[p]
    PROVE  EmptyRemoved'
<1>1. ASSUME NEW i \in 1..Len(queue')
      PROVE  i + 1 \in 1..Len(queue) /\ queue'[i] = queue[i + 1]
  BY <1>1
<1>2. \A e \in EventType : e.pane \in Pane
  BY DEF EventType
<1>3. \A i \in 1..Len(queue) : queue[i].pane \in Pane
  <2>1. \A i \in 1..Len(queue) : queue[i] \in EventType
    OBVIOUS
  <2>2. QED
    BY <1>2, <2>1
<1>4. ASSUME NEW i \in 1..Len(queue'), queue'[i].type = "Remove"
      PROVE  items'[queue'[i].pane] = {}
  <2>1. i + 1 \in 1..Len(queue) /\ queue'[i] = queue[i + 1]
    BY <1>1
  <2>2. items[queue'[i].pane] = {} /\ queue'[i].pane \in Pane
    BY <1>3, <1>4, <2>1 DEF EmptyRemoved
  <2>3. QED
    BY <2>2
<1>5. QED
  BY <1>4 DEF EmptyRemoved

(* No event removes a pane.                                                  *)
NoneRemoved == \A i \in 1..Len(queue) : queue[i].type # "Remove"

LEMMA EventsOfTabs ==
    ASSUME NEW p, NEW q, NEW it, NEW on
    PROVE  /\ Removed(p, it).type = "RemovedItem" /\ Activated(q).type = "ActivateItem"
           /\ Added(q, it).type = "AddItem"
           /\ EmptyPane(p, on).type = "Remove" /\ EmptyPane(p, on).pane = p
           /\ EmptyPane(p, on).focusOn = on
  BY DEF Removed, Activated, Added, EmptyPane, Event

(* The events of a drag or a close: an emptied pane's Remove comes second.   *)
LEMMA JoinedEvents ==
    ASSUME NEW S, NEW a \in S, NEW b \in S, NEW c \in S, NEW d \in S
    PROVE  /\ (<<a>> \o <<b>>) \o <<c, d>> = <<a, b, c, d>>
           /\ (<<a>> \o <<>>) \o <<c, d>> = <<a, c, d>>
           /\ <<a>> \o <<b>> = <<a, b>>
<1> DEFINE s == <<a, b>>
           t == <<c, d>>
           u == <<a, b, c, d>>
           v == <<a, c, d>>
           w == <<a>>
           x == <<b>>
<1>1. /\ s \in Seq(S) /\ Len(s) = 2 /\ s[1] = a /\ s[2] = b
      /\ t \in Seq(S) /\ Len(t) = 2 /\ t[1] = c /\ t[2] = d
      /\ w \in Seq(S) /\ Len(w) = 1 /\ w[1] = a
      /\ x \in Seq(S) /\ Len(x) = 1 /\ x[1] = b
  OBVIOUS
<1>2. u \in Seq(S) /\ Len(u) = 4 /\ u[1] = a /\ u[2] = b /\ u[3] = c /\ u[4] = d
  OBVIOUS
<1>3. v \in Seq(S) /\ Len(v) = 3 /\ v[1] = a /\ v[2] = c /\ v[3] = d
  OBVIOUS
<1> HIDE DEF s, t, u, v, w, x
<1>4. w \o x = s
  <2>1. w \o x \in Seq(S) /\ Len(w \o x) = 2 /\ \A i \in 1..2 : (w \o x)[i] = IF i <= 1 THEN w[i] ELSE x[i - 1]
    BY <1>1, ConcatProperties
  <2>2. \A i \in 1..2 : (w \o x)[i] = s[i]
    BY <1>1, <2>1
  <2>3. QED
    BY <1>1, <2>1, <2>2, SeqEqual
<1>5. s \o t = u
  <2>1. s \o t \in Seq(S) /\ Len(s \o t) = 4 /\ \A i \in 1..4 : (s \o t)[i] = IF i <= 2 THEN s[i] ELSE t[i - 2]
    BY <1>1, ConcatProperties
  <2>2. \A i \in 1..4 : (s \o t)[i] = u[i]
    BY <1>1, <1>2, <2>1
  <2>3. QED
    BY <1>2, <2>1, <2>2, SeqEqual
<1>6. w \o <<>> = w
  BY <1>1
<1>7. w \o t = v
  <2>1. w \o t \in Seq(S) /\ Len(w \o t) = 3 /\ \A i \in 1..3 : (w \o t)[i] = IF i <= 1 THEN w[i] ELSE t[i - 1]
    <3>1. /\ w \o t \in Seq(S) /\ Len(w \o t) = Len(w) + Len(t)
          /\ \A i \in 1..(Len(w) + Len(t)) :
                (w \o t)[i] = IF i <= Len(w) THEN w[i] ELSE t[i - Len(w)]
      BY <1>1, ConcatProperties
    <3>2. QED
      BY <1>1, <3>1
  <2>2. \A i \in 1..3 : (w \o t)[i] = v[i]
    BY <1>1, <1>3, <2>1
  <2>3. QED
    BY <1>3, <2>1, <2>2, SeqEqual
<1>8. (w \o x) \o t = u /\ (w \o <<>>) \o t = v /\ w \o x = s
  BY <1>4, <1>5, <1>6, <1>7
<1>9. QED
  BY <1>8 DEF s, t, u, v, w, x

(* Operations on the list of groups start with no event queued.              *)
LEMMA RemovalShrinks ==
    ASSUME TypeInv, NEW i, RemoveGroupAt(i)
    PROVE  \A p \in Pane : items'[p] \subseteq items[p]
  BY DEF RemoveGroupAt

LEMMA GroupOperationTabs ==
    ASSUME TypeInv, TabsInv, GroupOperation
    PROVE  TabsInv'
<1>1. queue = <<>> /\ queue' = <<>>
  BY DEF GroupOperation, SwitchGroup, RemoveGroup, MoveGroup, AddGroup, UserTurn, Idle
<1>2. nItems' = nItems
  BY DEF GroupOperation, SwitchGroup, RemoveGroup, MoveGroup, AddGroup, ids
<1>3. \A p \in Pane : items'[p] \subseteq items[p]
  <2>1. CASE items' = items
    BY <2>1
  <2>2. CASE \E i \in 1..Len(groups) : RemoveGroup(i)
    BY <2>2, RemovalShrinks DEF RemoveGroup
  <2>3. QED
    BY <2>1, <2>2 DEF GroupOperation, SwitchGroup, MoveGroup, AddGroup
<1>4. ItemsApart'
  BY <1>2, <1>3, ShrinkingKeepsApart DEF TabsShrink, TabsInv
<1>5. QED
  BY <1>1, <1>4 DEF TabsInv, EmptyRemoved

LEMMA PaneOperationTabs ==
    ASSUME TypeInv, TabsInv, PaneOperation
    PROVE  TabsInv'
<1>0. /\ items \in [Pane -> SUBSET Item] /\ nPanes \in Nat /\ center \subseteq Pane
      /\ (nPanes < MaxPanes => nPanes + 1 \in Pane)
  BY BoundsAssumption DEF TypeInv, TypeOK, Pane
<1>1. CASE items' = items /\ nItems' = nItems /\ queue' = queue
  BY <1>1 DEF TabsInv, ItemsApart, EmptyRemoved
<1>2. ASSUME NEW p \in center, JoinEmpty(p)
      PROVE  TabsInv'
  <2>1. items' = items /\ nItems' = nItems /\ items[p] = {} /\ queue' = <<EmptyPane(p, NoPane)>>
    BY <1>2 DEF JoinEmpty, ids
  <2>2. EmptyPane(p, NoPane).pane = p
    BY EventsOfTabs
  <2>3. EmptyRemoved'
    BY <2>1, <2>2 DEF EmptyRemoved
  <2>4. QED
    BY <2>1, <2>3 DEF TabsInv, ItemsApart
<1>3. ASSUME NEW p \in center, NEW it \in items[p], SplitMove(p, it)
      PROVE  TabsInv'
  <2>0. PICK q : q = nPanes + 1
    OBVIOUS
  <2>1. /\ q \in Pane /\ p \in Pane /\ nItems' = nItems
        /\ items' = [items EXCEPT ![p] = @ \ {it}, ![q] = {it}]
        /\ queue' = <<Removed(p, it), Activated(q), Added(q, it)>>
    BY <1>0, <1>3, <2>0 DEF SplitMove
  <2>2. CASE p = q
    <3>1. items'[p] = {it} /\ \A r \in Pane \ {p} : items'[r] = items[r]
      BY <1>0, <2>1, <2>2
    <3>2. TabsShrink
      BY <2>1, <3>1, <1>3 DEF TabsShrink
    <3>3. QED
      BY <3>2, <2>1, ShrinkingKeepsApart, EventsOfTabs DEF TabsInv, EmptyRemoved
  <2>3. CASE p # q
    <3>1. items'[p] = items[p] \ {it} /\ items'[q] = {it}
          /\ \A r \in Pane \ {p, q} : items'[r] = items[r]
      BY <1>0, <2>1, <2>3
    <3>2. TabMoves(p, q, it)
      BY <2>1, <2>3, <3>1, <1>3 DEF TabMoves
    <3>3. QED
      BY <3>2, <2>1, MovingKeepsApart, EventsOfTabs DEF TabsInv, EmptyRemoved
  <2>4. QED
    BY <2>2, <2>3
<1>4. ASSUME NEW p \in center, NEW it \in items[p], NEW q \in center, MoveItem(p, q, it)
      PROVE  TabsInv'
  <2>1. /\ q \in Pane /\ p \in Pane /\ p # q /\ nItems' = nItems
        /\ items' = [items EXCEPT ![p] = @ \ {it}, ![q] = @ \cup {it}]
    BY <1>0, <1>4 DEF MoveItem, ids
  <2>2. items'[p] = items[p] \ {it} /\ items'[q] = items[q] \cup {it}
        /\ \A r \in Pane \ {p, q} : items'[r] = items[r]
    BY <1>0, <2>1
  <2>3. TabMoves(p, q, it)
    BY <2>1, <2>2, <1>4 DEF TabMoves
  <2>4. ItemsApart'
    BY <2>3, MovingKeepsApart DEF TabsInv
  <2>5. /\ Removed(p, it) \in EventType /\ EmptyPane(p, q) \in EventType
        /\ Activated(q) \in EventType /\ Added(q, it) \in EventType
    BY <1>0, <1>4, <2>1, EventTypes
  <2>6. EmptyRemoved'
    <3>1. CASE items[p] = {it}
      <4>1. queue' = <<Removed(p, it), EmptyPane(p, q), Activated(q), Added(q, it)>>
        BY <1>4, <2>5, <3>1, JoinedEvents DEF MoveItem
      <4>2. items'[p] = {}
        BY <2>2, <3>1
      <4>3. QED
        BY <4>1, <4>2, EventsOfTabs DEF EmptyRemoved
    <3>2. CASE items[p] # {it}
      <4>1. queue' = <<Removed(p, it), Activated(q), Added(q, it)>>
        BY <1>4, <2>5, <3>2, JoinedEvents DEF MoveItem
      <4>2. QED
        BY <4>1, EventsOfTabs DEF EmptyRemoved
    <3>3. QED
      BY <3>1, <3>2
  <2>7. QED
    BY <2>4, <2>6 DEF TabsInv
<1>5. QED
  BY <1>1, <1>2, <1>3, <1>4 DEF PaneOperation, SplitEmpty, FocusPane, CloneItem, DrawFocus,
     OpenTerminal, ids
LEMMA TaskTabs ==
    ASSUME TypeInv, TabsInv, Task
    PROVE  TabsInv'
<1>0. /\ items \in [Pane -> SUBSET Item] /\ nPanes \in Nat /\ nItems \in Nat
      /\ (nPanes < MaxPanes => nPanes + 1 \in Pane)
  BY BoundsAssumption DEF TypeInv, TypeOK, Pane
<1>1. CASE items' = items /\ nItems' = nItems /\ queue' = queue
  BY <1>1 DEF TabsInv, ItemsApart, EmptyRemoved
<1>2. ASSUME NEW p \in Pane, NEW it \in Item, CloseDone(p, it), it \in items[p]
      PROVE  TabsInv'
  <2>1. nItems' = nItems /\ items' = [items EXCEPT ![p] = @ \ {it}]
    BY <1>2 DEF CloseDone, ids
  <2>2. items'[p] = items[p] \ {it} /\ \A r \in Pane \ {p} : items'[r] = items[r]
    BY <1>0, <2>1
  <2>3. ItemsApart'
    BY <2>1, <2>2, ShrinkingKeepsApart DEF TabsInv, TabsShrink
  <2>4. CASE items[p] = {it}
    <3>1. queue' = <<Removed(p, it)>> \o <<EmptyPane(p, NoPane)>>
      BY <1>2, <2>4 DEF CloseDone
    <3>2. queue' = <<Removed(p, it), EmptyPane(p, NoPane)>>
      <4>1. Removed(p, it) \in EventType /\ EmptyPane(p, NoPane) \in EventType
        BY EventTypes
      <4>2. QED
        BY <3>1, <4>1, JoinedEvents
    <3>3. items'[p] = {}
      BY <2>2, <2>4
    <3>4. QED
      BY <2>3, <3>2, <3>3, EventsOfTabs DEF TabsInv, EmptyRemoved
  <2>5. CASE items[p] # {it}
    <3>1. queue' = <<Removed(p, it)>> \o <<>>
      BY <1>2, <2>5 DEF CloseDone
    <3>2. queue' = <<Removed(p, it)>>
      BY <3>1
    <3>3. QED
      BY <2>3, <3>2, EventsOfTabs DEF TabsInv, EmptyRemoved
  <2>6. QED
    BY <2>4, <2>5
<1>3. ASSUME NEW p \in Pane, TerminalReady(p), p \in Owned
      PROVE  TabsInv'
  <2>1. /\ nItems' = nItems + 1 /\ items' = [items EXCEPT ![p] = @ \cup {nItems + 1}]
        /\ queue' = <<Added(p, nItems + 1)>>
    BY <1>3 DEF TerminalReady
  <2>2. TabAdded(p)
    BY <1>0, <2>1 DEF TabAdded
  <2>3. ItemsApart'
    BY <1>0, <2>2, AddingKeepsApart DEF TabsInv
  <2>4. QED
    BY <2>1, <2>3, EventsOfTabs DEF TabsInv, EmptyRemoved
<1>4. ASSUME NEW p \in Pane, CloneReady(p)
      PROVE  TabsInv'
  <2>0. PICK q : q = nPanes + 1
    OBVIOUS
  <2>1. /\ q \in Pane /\ nItems' = nItems + 1 /\ items' = [items EXCEPT ![q] = {nItems + 1}]
        /\ queue' = <<Activated(q), Added(q, nItems + 1)>>
    BY <1>0, <1>4, <2>0 DEF CloneReady
  <2>2. TabAdded(q)
    BY <1>0, <2>1 DEF TabAdded
  <2>3. ItemsApart'
    BY <1>0, <2>1, <2>2, AddingKeepsApart DEF TabsInv
  <2>4. QED
    BY <2>1, <2>3, EventsOfTabs DEF TabsInv, EmptyRemoved
<1>5. QED
  BY <1>1, <1>2, <1>3, <1>4 DEF Task, CloseItem, CloseDone, TerminalReady, SpawnFailed, ids

LEMMA MessageTabs ==
    ASSUME TypeInv, TabsInv, Message
    PROVE  TabsInv'
<1>0. /\ items \in [Pane -> SUBSET Item] /\ nPanes \in Nat /\ nItems \in Nat
      /\ (nPanes < MaxPanes => nPanes + 1 \in Pane)
  BY BoundsAssumption DEF TypeInv, TypeOK, Pane
<1>1. CASE items' = items /\ nItems' = nItems /\ queue' = queue
  BY <1>1 DEF TabsInv, ItemsApart, EmptyRemoved
<1>2. ASSUME NEW p, items' = items, nItems' = nItems, queue' = <<Activated(p)>>
      PROVE  TabsInv'
  BY <1>2, EventsOfTabs DEF TabsInv, ItemsApart, EmptyRemoved
<1>3. ASSUME NEW a, NEW q \in Pane, AddView(a, q)
      PROVE  TabsInv'
  <2>1. /\ nItems' = nItems + 1 /\ items' = [items EXCEPT ![q] = @ \cup {nItems + 1}]
        /\ queue' = <<Activated(q), Added(q, nItems + 1)>>
    BY <1>3 DEF AddView
  <2>2. TabAdded(q)
    BY <1>0, <2>1 DEF TabAdded
  <2>3. ItemsApart'
    BY <1>0, <2>2, AddingKeepsApart DEF TabsInv
  <2>4. QED
    BY <2>1, <2>3, EventsOfTabs DEF TabsInv, EmptyRemoved
<1>4. \A i \in 1..Len(groups) : PanesInGroup(i) \subseteq Pane
  BY DEF PanesInGroup, TypeInv, TypeOK, RosterInv, SnapshotType
<1>5. ASSUME NEW it \in Item, NEW a \in Agent, NEW i \in 1..Len(groups),
             SubagentStart(it, a, i)
      PROVE  TabsInv'
  <2>1. AgentPanes(i) \subseteq Pane
    BY <1>4 DEF AgentPanes
  <2>2. QED
    BY <1>0, <1>2, <1>3, <1>5, <2>1 DEF SubagentStart
<1>6. QED
  BY <1>1, <1>5 DEF Message, NotifyBell, ids

LEMMA HandlerTabs ==
    ASSUME TypeInv, TabsInv, HandlePaneEvent
    PROVE  TabsInv'
<1>1. queue \in Seq(EventType) /\ queue # <<>> /\ queue' = Tail(queue)
  BY DEF HandlePaneEvent, HandleAddItem, HandleActivateItem, HandleRemovedItem,
     HandleRemove, Delivered, TypeInv, TypeOK
<1>2. nItems' = nItems
  BY DEF HandlePaneEvent, HandleAddItem, HandleActivateItem, HandleRemovedItem,
     HandleRemove, ids
<1>3. \A p \in Pane : items'[p] \subseteq items[p]
  <2>1. items' = items \/ RemoveGroupAt(active)
    BY DEF HandlePaneEvent, HandleAddItem, HandleActivateItem, HandleRemovedItem,
       HandleRemove
  <2>2. QED
    BY <2>1, RemovalShrinks
<1>4. QED
  BY <1>1, <1>2, <1>3, ShrinkingKeepsApart, DeliveryKeepsEmpty DEF TabsInv, TabsShrink

LEMMA InitTabs ==
    ASSUME Init
    PROVE  TabsInv
<1>1. PICK n \in 1..RestoredGroups :
          /\ items = [p \in Pane |-> IF p <= n THEN {p} ELSE {}]
          /\ queue = <<>> /\ nItems = n
  BY DEF Init
<1>2. ItemsApart
  BY <1>1, BoundsAssumption DEF ItemsApart, Pane
<1>3. QED
  BY <1>1, <1>2 DEF TabsInv, EmptyRemoved

LEMMA StepTabs ==
    ASSUME TypeInv, TabsInv, [Next]_vars
    PROVE  TabsInv'
<1>1. CASE UNCHANGED vars
  BY <1>1 DEF vars, ids, TabsInv, ItemsApart, EmptyRemoved
<1>2. QED
  BY <1>1, GroupOperationTabs, PaneOperationTabs, TaskTabs, MessageTabs, HandlerTabs DEF Next

(* No tab is in two panes, and a pane whose Remove event is still queued has *)
(* no tab, in whatever order tabs are dragged, closed, spawned and cloned    *)
(* (move_item, remove_item, handle_pane_event).                              *)
THEOREM TabsSound == Spec => []TabsInv
<1>1. Init => TabsInv
  BY InitTabs
<1>2. TypeInv /\ TabsInv /\ [Next]_vars => TabsInv'
  BY StepTabs
<1>3. QED
  BY <1>1, <1>2, TypeInvariance, PTL DEF Spec
-----------------------------------------------------------------------------
(* Handlers keep tabs *)

LEMMA OwnedPanes ==
    ASSUME TypeInv
    PROVE  /\ LiveGroup \in Existing /\ Existing \subseteq Group /\ Owned \subseteq Pane
           /\ \A p : p \in Owned <=> \E g \in Existing : p \in PanesOf(g)
<1>1. LiveGroup \in Existing /\ Existing \subseteq Group
  BY DEF TypeInv, RosterInv, LiveGroup, Existing
<1>2. panes \subseteq Pane /\ \A g \in Group : saved[g].panes \subseteq Pane
  BY DEF TypeInv, TypeOK, SnapshotType
<1>3. \A p : p \in Owned <=> \E g \in Existing : p \in PanesOf(g)
  BY <1>1 DEF Owned, PanesOf, Background
<1>4. QED
  BY <1>1, <1>2, <1>3 DEF PanesOf

TabsTyped == Owned \subseteq Pane /\ Held \subseteq Item

LEMMA TypesOfTabs == TypeInv => TabsTyped
<1>1. TypeInv => items \in [Pane -> SUBSET Item]
  BY DEF TypeInv, TypeOK
<1>2. QED
  BY <1>1, OwnedPanes DEF TabsTyped, Held

(* What removing group i leaves: the other groups with their panes and tabs. *)
LEMMA RemovalKeepsOthers ==
    ASSUME TypeInv, Len(groups) > 1, NEW i \in 1..Len(groups), RemoveGroupAt(i),
           nGroups' = nGroups
    PROVE  /\ Existing' = Existing \ {groups[i]}
           /\ groups[i] = LiveGroup <=> i = active
           /\ \A g \in Existing' : saved'[g] = saved[g]
           /\ i # active => LiveGroup' = LiveGroup /\ Load(Snapshot, PanesInGroup(i))
           /\ i = active => /\ LiveGroup' \in Existing' /\ LiveGroup' # LiveGroup
                            /\ Load(saved[LiveGroup'], panes)
           /\ \A g \in Existing' : PanesOf(g)' = PanesOf(g)
<1>1. /\ Existing' = Existing \ {groups[i]}
      /\ LiveGroup' = IF LiveGroup = groups[i]
                      THEN IF i > 1 THEN groups[i - 1] ELSE groups[2] ELSE LiveGroup
  BY RemovalKeepsRoster DEF TypeInv
<1>2. groups[i] = LiveGroup <=> i = active
  BY DEF LiveGroup, TypeInv, RosterInv
<1>3. saved' = [saved EXCEPT ![groups[i]] = NoSnapshot] /\ saved \in [Group -> SnapshotType]
      /\ Existing \subseteq Group
  BY DEF RemoveGroupAt, TypeInv, TypeOK, RosterInv, Existing
<1>4. \A g \in Existing' : saved'[g] = saved[g]
  BY <1>1, <1>3
<1>5. ASSUME i = active
      PROVE  /\ LiveGroup' \in Existing' /\ LiveGroup' # LiveGroup
             /\ Load(saved[LiveGroup'], panes)
  <2>1. LiveGroup' = groups[FallbackIndex(i)]
    BY <1>1, <1>2, <1>5 DEF FallbackIndex
  <2>2. FallbackIndex(i) \in 1..Len(groups) /\ FallbackIndex(i) # i
    BY DEF FallbackIndex, TypeInv, RosterInv
  <2>3. LiveGroup' # LiveGroup /\ LiveGroup' \in Existing'
    BY <1>1, <1>2, <1>5, <2>1, <2>2 DEF TypeInv, RosterInv, Existing
  <2>4. Load(saved[groups[FallbackIndex(i)]], panes)
    BY <1>5 DEF RemoveGroupAt, PanesInGroup
  <2>5. QED
    BY <2>1, <2>3, <2>4
<1>6. ASSUME i # active
      PROVE  LiveGroup' = LiveGroup /\ Load(Snapshot, PanesInGroup(i))
  BY <1>1, <1>2, <1>6 DEF RemoveGroupAt
<1>7. \A g \in Existing' : PanesOf(g)' = PanesOf(g)
  <2>1. CASE i = active
    <3>1. panes' = saved[LiveGroup'].panes
      BY <1>5, <2>1 DEF Load
    <3>2. \A g \in Existing' : g # LiveGroup
      BY <1>1, <1>2, <2>1
    <3>3. QED
      BY <1>4, <3>1, <3>2 DEF PanesOf
  <2>2. CASE i # active
    <3>1. panes' = panes /\ LiveGroup' = LiveGroup
      BY <1>6, <2>2 DEF Load, Snapshot
    <3>2. QED
      BY <1>4, <3>1 DEF PanesOf
  <2>3. QED
    BY <2>1, <2>2
<1>8. QED
  BY <1>1, <1>2, <1>4, <1>5, <1>6, <1>7

LEMMA SamePanesSameTabs ==
    ASSUME UNCHANGED <<groups, active, saved, panes, items>>
    PROVE  Held' = Held
  BY DEF Held, Owned, Background, Existing, LiveGroup

LEMMA HandlersKeep ==
    ASSUME TypeInv, TypeInv', EmptyRemoved, HandlePaneEvent
    PROVE  Held \subseteq Held'
<1>1. CASE HandleAddItem \/ HandleActivateItem
  BY <1>1, SamePanesSameTabs DEF HandleAddItem, HandleActivateItem
<1>2. CASE HandleRemovedItem
  <2>1. CASE AllPanesEmpty /\ Len(groups) > 1
    <3>1. RemoveGroupAt(active) /\ nGroups' = nGroups /\ active \in 1..Len(groups)
      BY <1>2, <2>1 DEF HandleRemovedItem, ids, TypeInv, RosterInv
    <3>2. /\ Existing' = Existing \ {LiveGroup}
          /\ \A g \in Existing' : PanesOf(g)' = PanesOf(g)
      BY <2>1, <3>1, RemovalKeepsOthers
    <3>3. \A p \in Pane : items'[p] = items[p]
      BY <2>1, <3>1 DEF RemoveGroupAt, PanesInGroup, AllPanesEmpty
    <3>4. ASSUME NEW p \in Owned, items[p] # {}
          PROVE  p \in Owned' /\ items'[p] = items[p]
      <4>1. PICK g \in Existing : p \in PanesOf(g)
        BY OwnedPanes
      <4>2. g # LiveGroup
        BY <2>1, <3>4, <4>1 DEF AllPanesEmpty, PanesOf
      <4>3. p \in PanesOf(g)' /\ g \in Existing'
        BY <3>2, <4>1, <4>2
      <4>4. p \in Owned'
        BY <4>3 DEF Owned, PanesOf, Background
      <4>5. p \in Pane
        BY OwnedPanes
      <4>6. QED
        BY <3>3, <4>4, <4>5
    <3>5. QED
      BY <3>4 DEF Held
  <2>2. CASE ~ (AllPanesEmpty /\ Len(groups) > 1)
    BY <1>2, <2>2, SamePanesSameTabs DEF HandleRemovedItem
  <2>3. QED
    BY <2>1, <2>2
<1>3. CASE HandleRemove
  <2>1. PICK p : p = Head(queue).pane
    OBVIOUS
  <2>2. queue # <<>> /\ queue \in Seq(EventType) /\ Head(queue).type = "Remove"
    BY <1>3 DEF HandleRemove, Delivered, TypeInv, TypeOK
  <2>3. items[p] = {}
    <3>1. Head(queue) = queue[1] /\ 1 \in 1..Len(queue)
      BY <2>2
    <3>2. QED
      BY <2>1, <2>2, <3>1 DEF EmptyRemoved
  <2>4. /\ UNCHANGED <<groups, active, saved, items>>
        /\ panes' = panes \ {p} \/ panes' = panes
    BY <1>3, <2>1 DEF HandleRemove
  <2>5. Background' = Background
    BY <2>4 DEF Background, Existing, LiveGroup
  <2>6. Owned \ {p} \subseteq Owned'
    BY <2>4, <2>5 DEF Owned
  <2>7. QED
    BY <2>3, <2>4, <2>6 DEF Held
<1>4. QED
  BY <1>1, <1>2, <1>3 DEF HandlePaneEvent

(* Delivering an event never loses a tab: a group is removed by a handler,   *)
(* and a pane by its Remove event, only when it is empty at that moment      *)
(* (handle_pane_event, remove_pane, remove_workspace_group).                 *)
THEOREM TabsKept == Spec => HandlersKeepTabs
<1>1. TypeInv /\ TypeInv' /\ TabsInv /\ [Next]_vars => [queue # <<>> => Held \subseteq Held']_vars
  <2>1. SUFFICES ASSUME TypeInv, TypeInv', TabsInv, Next, queue # <<>>
                 PROVE  Held \subseteq Held'
    OBVIOUS
  <2>2. HandlePaneEvent
    BY <2>1 DEF Next, GroupOperation, SwitchGroup, RemoveGroup, MoveGroup, AddGroup,
       PaneOperation, SplitEmpty, JoinEmpty, FocusPane, CloneItem, SplitMove, MoveItem,
       DrawFocus, OpenTerminal, Task, CloseItem, CloseDone, TerminalReady, CloneReady,
       SpawnFailed, Message, NotifyBell, SubagentStart, UserTurn, TaskTurn, Idle
  <2>3. QED
    BY <2>1, <2>2, HandlersKeep DEF TabsInv
<1>2. QED
  BY <1>1, TypeInvariance, TabsSound, PTL DEF Spec, HandlersKeepTabs
-----------------------------------------------------------------------------
(* Content follows the group *)

(* Nothing of a group in the background changes.                             *)
LEMMA BackgroundStays ==
    ASSUME TypeInv, UNCHANGED <<groups, active>>,
           NEW g \in Existing, g # LiveGroup,
           \/ saved'[g] = saved[g]
           \/ \E it : saved'[g] = Rung(it)[g]
    PROVE  SameContent(g)
<1>1. LiveGroup' = LiveGroup /\ g \in Group
  BY DEF LiveGroup, Existing, TypeInv, RosterInv
<1>2. Content(g)' = saved'[g] /\ Content(g) = saved[g]
  BY <1>1 DEF Content
<1>3. /\ saved'[g].panes = saved[g].panes /\ saved'[g].activePane = saved[g].activePane
      /\ saved'[g].byItem = saved[g].byItem
  BY <1>1 DEF Rung, TypeInv, TypeOK, SnapshotType
<1>4. QED
  BY <1>2, <1>3 DEF SameContent

(* The fields of the group's record after loading it, for the tabs that are  *)
(* left.                                                                     *)
LEMMA LoadedContent ==
    ASSUME NEW s, NEW dropped, Load(s, dropped),
           NEW it \in Item, \A p \in dropped : it \notin items[p]
    PROVE  /\ Snapshot.panes' = s.panes /\ Snapshot.activePane' = s.activePane
           /\ Snapshot.byItem[it]' = s.byItem[it]
<1>1. /\ Snapshot.panes' = panes' /\ Snapshot.activePane' = activePane'
      /\ Snapshot.byItem[it]' = byItem'[it]
  BY DEF Snapshot
<1>2. panes' = s.panes /\ activePane' = s.activePane /\ byItem'[it] = s.byItem[it]
  BY DEF Load
<1>3. QED
  BY <1>1, <1>2

LEMMA GroupOperationContent ==
    ASSUME TypeInv, TypeInv', GroupOperation, ~ \E i \in 1..Len(groups) : RemoveGroup(i),
           NEW g \in Existing, g \in Existing', ~ (g = LiveGroup /\ g = LiveGroup')
    PROVE  SameContent(g)
<1>1. g \in Group /\ SyncActiveGroup[LiveGroup] = Snapshot
      /\ (g # LiveGroup => SyncActiveGroup[g] = saved[g])
      /\ SyncActiveGroup \in [Group -> SnapshotType]
  BY SnapshotTypes, OwnedPanes
<1>2. SyncActiveGroup[g] = Content(g)
  BY <1>1 DEF Content
<1>3. ASSUME Content(g)' = Content(g)
      PROVE  SameContent(g)
  BY <1>3 DEF SameContent
<1>4. ASSUME NEW i \in 1..Len(groups), SwitchGroup(i)
      PROVE  SameContent(g)
  <2>0. PICK h : h = groups[i]
    OBVIOUS
  <2>1. LiveGroup' = h /\ h # LiveGroup /\ h \in Group
    BY <1>4, <2>0 DEF SwitchGroup, LiveGroup, TypeInv, RosterInv
  <2>2. /\ saved' = [SyncActiveGroup EXCEPT ![h].bell = FALSE]
        /\ Load(saved[h], {})
    BY <1>4, <2>0 DEF SwitchGroup
  <2>3. CASE g = h
    <3>1. Content(g)' = Snapshot' /\ Content(g) = saved[h]
      BY <2>1, <2>3 DEF Content
    <3>2. /\ Snapshot.panes' = saved[h].panes /\ Snapshot.activePane' = saved[h].activePane
          /\ \A it \in Item : Snapshot.byItem[it]' = saved[h].byItem[it]
      BY <2>2 DEF Load, Snapshot
    <3>3. TabsTyped'
      BY TypesOfTabs, PTL
    <3>4. QED
      BY <3>1, <3>2, <3>3 DEF SameContent, TabsTyped
  <2>4. CASE g # h
    <3>1. Content(g)' = saved'[g]
      BY <2>1, <2>4 DEF Content
    <3>2. saved'[g] = SyncActiveGroup[g]
      BY <1>1, <2>1, <2>2, <2>4
    <3>3. QED
      BY <1>2, <1>3, <3>1, <3>2
  <2>5. QED
    BY <2>3, <2>4
<1>5. ASSUME NEW from \in 1..Len(groups), NEW to \in 1..Len(groups), MoveGroup(from, to)
      PROVE  SameContent(g)
  <2>1. LiveGroup' = LiveGroup
    BY <1>5, MoveKeepsRoster DEF TypeInv
  <2>2. saved' = SyncActiveGroup /\ g # LiveGroup'
    BY <1>5, <2>1 DEF MoveGroup
  <2>3. Content(g)' = Content(g)
    BY <1>2, <2>2 DEF Content
  <2>4. QED
    BY <1>3, <2>3
<1>6. ASSUME AddGroup
      PROVE  SameContent(g)
  <2>0. PICK h : h = nGroups + 1
    OBVIOUS
  <2>1. h \in Group /\ LiveGroup' = h /\ h \notin Existing
    BY <1>6, <2>0, AdditionKeepsRoster DEF TypeInv
  <2>2. saved' = [SyncActiveGroup EXCEPT ![h] = Fresh(nPanes + 1, {})] /\ g # h
    BY <1>6, <2>0, <2>1 DEF AddGroup
  <2>3. saved'[g] = SyncActiveGroup[g]
    BY <1>1, <2>2
  <2>4. Content(g)' = saved'[g]
    BY <2>1, <2>2 DEF Content
  <2>5. QED
    BY <1>2, <1>3, <2>3, <2>4
<1>7. QED
  BY <1>4, <1>5, <1>6 DEF GroupOperation

LEMMA RemovalContent ==
    ASSUME TypeInv, TypeInv', ItemsApart, Len(groups) > 1,
           NEW i \in 1..Len(groups), RemoveGroupAt(i), nGroups' = nGroups,
           NEW g \in Existing, g \in Existing', ~ (g = LiveGroup /\ g = LiveGroup')
    PROVE  SameContent(g)
<1>1. saved'[g] = saved[g] /\ g # groups[i] /\ PanesInGroup(i) \subseteq Pane
  <2>1. panes \subseteq Pane /\ \A h \in Group : saved[h].panes \subseteq Pane
    BY DEF TypeInv, TypeOK, SnapshotType
  <2>2. PanesInGroup(i) \subseteq Pane
    BY <2>1 DEF PanesInGroup, TypeInv, RosterInv
  <2>3. QED
    BY <2>2, RemovalKeepsOthers
<1>2. CASE g # LiveGroup'
  <2>1. g # LiveGroup
    BY <1>1, <1>2, RemovalKeepsOthers
  <2>2. Content(g)' = saved'[g] /\ Content(g) = saved[g]
    BY <1>2, <2>1 DEF Content
  <2>3. QED
    BY <1>1, <2>2 DEF SameContent
<1>3. CASE g = LiveGroup'
  <2>1. i = active /\ g # LiveGroup /\ Load(saved[g], panes)
    BY <1>3, RemovalKeepsOthers
  <2>2. Content(g)' = Snapshot' /\ Content(g) = saved[g]
    BY <1>3, <2>1 DEF Content
  <2>3. ASSUME NEW it \in Held'
        PROVE  it \in Item /\ \A p \in panes : it \notin items[p]
    <3>1. /\ items \in [Pane -> SUBSET Item] /\ panes \subseteq Pane
          /\ items' \in [Pane -> SUBSET Item]
      BY DEF TypeInv, TypeOK
    <3>2. TabsTyped'
      BY TypesOfTabs, PTL
    <3>3. PICK q \in Pane : it \in items'[q]
      BY <3>2 DEF Held, TabsTyped
    <3>4. items' = [p \in Pane |-> IF p \in panes THEN {} ELSE items[p]]
      BY <2>1 DEF RemoveGroupAt, PanesInGroup
    <3>5. q \notin panes /\ it \in items[q]
      BY <3>3, <3>4
    <3>6. QED
      BY <3>1, <3>5 DEF ItemsApart
  <2>4. panes' = saved[g].panes /\ activePane' = saved[g].activePane
    BY <2>1 DEF Load
  <2>5. \A it \in Held' : byItem'[it] = saved[g].byItem[it]
    BY <2>1, <2>3 DEF Load
  <2>6. QED
    BY <2>2, <2>4, <2>5 DEF SameContent, Snapshot
<1>4. QED
  BY <1>2, <1>3

(* The tab of a subagent may add one pane to a group in the background.      *)
LEMMA MessageContent ==
    ASSUME TypeInv, Message, NEW g \in Existing, ~ (g = LiveGroup /\ g = LiveGroup')
    PROVE  SameContent(g)
<1>1. UNCHANGED <<groups, active>> /\ g # LiveGroup /\ g \in Group
  BY OwnedPanes DEF Message, NotifyBell, SubagentStart, LiveGroup
<1>2. ASSUME NEW it, saved' = Rung(it)
      PROVE  SameContent(g)
  BY <1>1, <1>2, BackgroundStays
<1>3. ASSUME NEW it, NEW i \in 1..Len(groups), nPanes' = nPanes + 1,
             saved' = [Rung(it) EXCEPT ![groups[i]].panes = @ \cup {nPanes + 1},
                                       ![groups[i]].center = @ \cup {nPanes + 1}]
      PROVE  SameContent(g)
  <2>0. PICK h : h = groups[i]
    OBVIOUS
  <2>1. h \in Group /\ Rung(it) \in [Group -> SnapshotType] /\ nPanes \in Nat
    <3>1. h \in Group
      BY <2>0 DEF TypeInv, RosterInv
    <3>2. Rung(it) \in [Group -> SnapshotType]
      BY SnapshotTypes
    <3>3. nPanes \in Nat
      BY BoundsAssumption DEF TypeInv, TypeOK
    <3>4. QED
      BY <3>1, <3>2, <3>3
  <2>2. saved' = [Rung(it) EXCEPT ![h].panes = @ \cup {nPanes + 1},
                                  ![h].center = @ \cup {nPanes + 1}]
    BY <1>3, <2>0
  <2>3. CASE g # h
    <3>1. saved'[g] = Rung(it)[g]
      BY <1>1, <2>1, <2>2, <2>3
    <3>2. QED
      BY <1>1, <3>1, BackgroundStays
  <2>4. CASE g = h
    <3>1. /\ saved'[g].panes = Rung(it)[g].panes \cup {nPanes + 1}
          /\ saved'[g].activePane = Rung(it)[g].activePane
          /\ saved'[g].byItem = Rung(it)[g].byItem
      BY <2>1, <2>2, <2>4 DEF SnapshotType
    <3>2. /\ Rung(it)[g].panes = saved[g].panes /\ Rung(it)[g].activePane = saved[g].activePane
          /\ Rung(it)[g].byItem = saved[g].byItem
      BY <1>1 DEF Rung, TypeInv, TypeOK, SnapshotType
    <3>3. Content(g)' = saved'[g] /\ Content(g) = saved[g]
      BY <1>1 DEF Content, LiveGroup
    <3>4. nPanes' > nPanes
      BY <1>3, <2>1
    <3>5. QED
      BY <1>3, <3>1, <3>2, <3>3, <3>4 DEF SameContent
  <2>5. QED
    BY <2>3, <2>4
<1>4. CASE \E it \in Item : NotifyBell(it)
  BY <1>2, <1>4 DEF NotifyBell
<1>5. ASSUME NEW it \in Item, NEW a \in Agent, NEW i \in 1..Len(groups),
             SubagentStart(it, a, i)
      PROVE  SameContent(g)
  BY <1>2, <1>3, <1>5 DEF SubagentStart
<1>6. QED
  BY <1>4, <1>5 DEF Message

(* The content of a group follows the group and not the index, in every      *)
(* order of operations, late events, tasks and messages: put away, shown     *)
(* again or left alone, it keeps its panes, its active pane and its item map *)
(* (sync_active_group, capture, remove_workspace_group).                     *)
THEOREM ContentFollows == Spec => GroupContentKept
<1> DEFINE Kept == \A g \in Existing \cap Existing' :
                      (g = LiveGroup /\ g = LiveGroup') \/ SameContent(g)
<1>1. TypeInv /\ TypeInv' /\ TabsInv /\ [Next]_vars => [Kept]_vars
  <2>1. SUFFICES ASSUME TypeInv, TypeInv', TabsInv, Next,
                        NEW g \in Existing, g \in Existing',
                        ~ (g = LiveGroup /\ g = LiveGroup')
                 PROVE  SameContent(g)
    OBVIOUS
  <2>2. CASE UNCHANGED <<groups, active, saved>>
    <3>1. g # LiveGroup
      BY <2>1, <2>2 DEF LiveGroup
    <3>2. QED
      BY <2>1, <2>2, <3>1, BackgroundStays
  <2>3. CASE \E i \in 1..Len(groups) : RemoveGroup(i)
    BY <2>1, <2>3, RemovalContent DEF RemoveGroup, TabsInv, ids
  <2>4. CASE GroupOperation
    BY <2>1, <2>3, <2>4, GroupOperationContent
  <2>5. CASE PaneOperation
    BY <2>2, <2>5 DEF PaneOperation, SplitEmpty, JoinEmpty, FocusPane, CloneItem, SplitMove,
       MoveItem, DrawFocus, OpenTerminal
  <2>6. CASE Task
    BY <2>2, <2>6 DEF Task, CloseItem, CloseDone, TerminalReady, CloneReady, SpawnFailed
  <2>7. CASE Message
    BY <2>1, <2>7, MessageContent
  <2>8. CASE HandlePaneEvent
    <3>1. CASE HandleRemovedItem /\ AllPanesEmpty /\ Len(groups) > 1
      <4>1. RemoveGroupAt(active) /\ nGroups' = nGroups /\ active \in 1..Len(groups)
        BY <2>1, <3>1 DEF HandleRemovedItem, ids, TypeInv, RosterInv
      <4>2. QED
        BY <2>1, <3>1, <4>1, RemovalContent DEF TabsInv
    <3>2. CASE ~ (HandleRemovedItem /\ AllPanesEmpty /\ Len(groups) > 1)
      BY <2>2, <2>8, <3>2 DEF HandlePaneEvent, HandleAddItem, HandleActivateItem,
         HandleRemovedItem, HandleRemove
    <3>3. QED
      BY <3>1, <3>2
  <2>9. QED
    BY <2>1, <2>4, <2>5, <2>6, <2>7, <2>8 DEF Next
<1>2. QED
  BY <1>1, TypeInvariance, TabsSound, PTL DEF Spec, GroupContentKept

-----------------------------------------------------------------------------
(* Badges *)

LEMMA MessageBadges ==
    ASSUME TypeInv, Message, NEW g \in Group, saved[g].bell
    PROVE  saved'[g].bell
<1>1. saved \in [Group -> SnapshotType]
  BY DEF TypeInv, TypeOK
<1>2. ASSUME NEW it
      PROVE  Rung(it)[g].bell
  BY <1>1 DEF Rung, SnapshotType
<1>3. ASSUME NEW it, NEW i \in 1..Len(groups),
             saved' = [Rung(it) EXCEPT ![groups[i]].panes = @ \cup {nPanes + 1},
                                       ![groups[i]].center = @ \cup {nPanes + 1}]
      PROVE  saved'[g].bell
  <2>0. PICK h : h = groups[i]
    OBVIOUS
  <2>1. h \in Group /\ Rung(it) \in [Group -> SnapshotType]
    BY <2>0, SnapshotTypes DEF TypeInv, RosterInv
  <2>2. saved' = [Rung(it) EXCEPT ![h].panes = @ \cup {nPanes + 1},
                                  ![h].center = @ \cup {nPanes + 1}]
    BY <1>3, <2>0
  <2>3. saved'[g].bell = Rung(it)[g].bell
    BY <2>1, <2>2 DEF SnapshotType
  <2>4. QED
    BY <1>2, <2>3
<1>4. CASE \E it \in Item : NotifyBell(it)
  BY <1>2, <1>4 DEF NotifyBell
<1>5. ASSUME NEW it \in Item, NEW a \in Agent, NEW i \in 1..Len(groups),
             SubagentStart(it, a, i)
      PROVE  saved'[g].bell
  BY <1>2, <1>3, <1>5 DEF SubagentStart
<1>6. QED
  BY <1>4, <1>5 DEF Message

LEMMA GroupOperationBadges ==
    ASSUME TypeInv, GroupOperation, NEW g \in Background, saved[g].bell
    PROVE  saved'[g].bell \/ g = LiveGroup' \/ g \notin Existing'
<1>1. /\ g \in Group /\ g \in Existing /\ g # LiveGroup /\ SyncActiveGroup[g] = saved[g]
      /\ SyncActiveGroup \in [Group -> SnapshotType]
  BY SnapshotTypes, OwnedPanes DEF Background
<1>2. ASSUME NEW i \in 1..Len(groups), SwitchGroup(i)
      PROVE  saved'[g].bell \/ g = LiveGroup'
  <2>0. PICK h : h = groups[i]
    OBVIOUS
  <2>1. LiveGroup' = h /\ h \in Group /\ saved' = [SyncActiveGroup EXCEPT ![h].bell = FALSE]
    BY <1>2, <2>0 DEF SwitchGroup, LiveGroup, TypeInv, RosterInv
  <2>2. QED
    BY <1>1, <2>1
<1>3. ASSUME NEW from \in 1..Len(groups), NEW to \in 1..Len(groups), MoveGroup(from, to)
      PROVE  saved'[g].bell
  BY <1>1, <1>3 DEF MoveGroup
<1>4. ASSUME AddGroup
      PROVE  saved'[g].bell
  <2>0. PICK h : h = nGroups + 1
    OBVIOUS
  <2>1. h \notin Existing
    BY <1>4, <2>0, AdditionKeepsRoster DEF TypeInv
  <2>2. saved' = [SyncActiveGroup EXCEPT ![h] = Fresh(nPanes + 1, {})]
    BY <1>4, <2>0 DEF AddGroup
  <2>3. QED
    BY <1>1, <2>1, <2>2
<1>5. ASSUME NEW i \in 1..Len(groups), RemoveGroup(i)
      PROVE  saved'[g].bell \/ g \notin Existing'
  <2>1. \A h \in Existing' : saved'[h] = saved[h]
    BY <1>5, RemovalKeepsOthers DEF RemoveGroup, ids
  <2>2. QED
    BY <2>1
<1>6. QED
  BY <1>2, <1>3, <1>4, <1>5 DEF GroupOperation

(* A badge that is lit in the background stays lit until its group is shown  *)
(* or removed: nothing that is written back to the snapshots meanwhile puts  *)
(* it out (has_notification).                                                *)
THEOREM BadgesStay == Spec => BadgeKept
<1> DEFINE Kept == \A g \in Background :
                      saved[g].bell => saved'[g].bell \/ g = LiveGroup' \/ g \notin Existing'
<1>1. TypeInv /\ [Next]_vars => [Kept]_vars
  <2>1. SUFFICES ASSUME TypeInv, Next, NEW g \in Background, saved[g].bell
                 PROVE  saved'[g].bell \/ g = LiveGroup' \/ g \notin Existing'
    OBVIOUS
  <2>2. CASE saved' = saved
    BY <2>1, <2>2
  <2>3. CASE GroupOperation
    BY <2>1, <2>3, GroupOperationBadges
  <2>4. CASE PaneOperation \/ Task
    BY <2>2, <2>4 DEF PaneOperation, SplitEmpty, JoinEmpty, FocusPane, CloneItem, SplitMove,
       MoveItem, DrawFocus, OpenTerminal, Task, CloseItem, CloseDone, TerminalReady,
       CloneReady, SpawnFailed
  <2>5. CASE Message
    BY <2>1, <2>5, MessageBadges, OwnedPanes DEF Background
  <2>6. CASE HandlePaneEvent
    <3>1. CASE HandleRemovedItem /\ AllPanesEmpty /\ Len(groups) > 1
      <4>1. RemoveGroupAt(active) /\ nGroups' = nGroups /\ active \in 1..Len(groups)
        BY <2>1, <3>1 DEF HandleRemovedItem, ids, TypeInv, RosterInv
      <4>2. \A h \in Existing' : saved'[h] = saved[h]
        BY <2>1, <3>1, <4>1, RemovalKeepsOthers
      <4>3. QED
        BY <2>1, <4>2
    <3>2. CASE ~ (HandleRemovedItem /\ AllPanesEmpty /\ Len(groups) > 1)
      BY <2>2, <2>6, <3>2 DEF HandlePaneEvent, HandleAddItem, HandleActivateItem,
         HandleRemovedItem, HandleRemove
    <3>3. QED
      BY <3>1, <3>2
  <2>7. QED
    BY <2>1, <2>3, <2>4, <2>5, <2>6 DEF Next
<1>2. QED
  BY <1>1, TypeInvariance, PTL DEF Spec, BadgeKept
-----------------------------------------------------------------------------
(* Item maps and active panes *)

(* The panes of a group are those of its tree, and panes and items that do   *)
(* not exist yet have no tab and no entry.                                   *)
TreesWhole == center = panes /\ \A g \in Background : saved[g].center = saved[g].panes
FreshEmpty == \A p \in Pane : p > nPanes => items[p] = {}
MapsFresh == \A g \in Existing : \A it \in Item : it > nItems => MapOf(g)[it] = NoPane

(* What a handler relies on when its event comes.  A pane in the background  *)
(* emits one for a tab that its group's map does not know, or for one of a   *)
(* subagent.                                                                 *)
LateIn(p, it) == \E g \in Background : p \in saved[g].panes /\ saved[g].byItem[it] = NoPane

EventSound(e) ==
    /\ e.type = "Remove" /\ e.focusOn # NoPane =>
          e.focusOn \in center /\ items[e.focusOn] # {}
    /\ e.type = "ActivateItem" =>
          (e.pane \in center \/ AgentTakes(e.pane)) /\ items[e.pane] # {}
    /\ e.type = "AddItem" =>
          e.item \in items[e.pane] /\ (e.pane \in center \/ LateIn(e.pane, e.item))

EventsSound ==
    /\ \A i \in 1..Len(queue) : EventSound(queue[i])
    /\ \A i \in 1..Len(queue) :
          queue[i].type = "RemovedItem" =>
              i = 1 /\ (queue[i].item \in Held => Awaited(queue[i].item))

PlacesInv == TreesWhole /\ FreshEmpty /\ MapsFresh /\ EventsSound

GroupsInv == TypeInv /\ Separation /\ TabsInv

(* What a step does to the maps and the active panes, in the words of        *)
(* OnlyLateTabsUntraced and ActivePaneKept.                                  *)
TracesKept ==
    \A it \in Held' :
        \/ Traced(it)'
        \/ it \in Held /\ ~ Traced(it)
        \/ it \notin Held /\ \A p \in panes' : it \notin items'[p]

ActiveKept ==
    \A g \in Existing' :
        \/ PaneActive(g)'
        \/ g \in Existing /\ ~ PaneActive(g)
        \/ g = LiveGroup /\ FocusLeaves
        \/ g = LiveGroup /\ activePane \notin center /\ focus \in center \ center'

(* The tabs held are those of the panes of the groups.                       *)
TabsOfGroups ==
    \A it : it \in Held <=> \E g \in Existing : \E p \in PanesOf(g) : it \in items[p]

(* A tab is held by a group that exists, in one of its panes.                *)
LEMMA HeldByGroups == TypeInv => TabsOfGroups
<1>1. SUFFICES ASSUME TypeInv
               PROVE  TabsOfGroups
  OBVIOUS
<1>2. \A it : it \in Held <=> \E p \in Owned : it \in items[p]
  BY DEF Held
<1>3. QED
  BY <1>1, <1>2, OwnedPanes DEF TabsOfGroups

(* Numbers of panes and items, and what holds of ids not handed out.         *)
NumbersTyped ==
    /\ nPanes \in Nat /\ nItems \in Nat /\ NoPane \notin Pane
    /\ (nPanes < MaxPanes => nPanes + 1 \in Pane)
    /\ (nItems < MaxItems => nItems + 1 \in Item)
    /\ \A it \in Item : it \in Nat
    /\ \A it \in Held : it \in Item /\ it \in 1..nItems /\ ~ (it > nItems)
    /\ \A g \in Existing : \A p \in PanesOf(g) : p \in Pane /\ p \in 1..nPanes

(* Ids are handed out in order, so those of tabs held are in range.          *)
LEMMA Numbers == GroupsInv => NumbersTyped
<1>1. SUFFICES ASSUME GroupsInv
               PROVE  NumbersTyped
  OBVIOUS
<1>2. /\ nPanes \in Nat /\ nItems \in Nat /\ NoPane \notin Pane
      /\ (nPanes < MaxPanes => nPanes + 1 \in Pane)
      /\ (nItems < MaxItems => nItems + 1 \in Item)
      /\ \A it \in Item : it \in Nat
  BY <1>1, BoundsAssumption DEF GroupsInv, TypeInv, TypeOK, Pane, Item, NoPane
<1>3. Owned \subseteq Pane /\ \A p : p \in Owned <=> \E g \in Existing : p \in PanesOf(g)
  BY <1>1, OwnedPanes DEF GroupsInv
<1>4. \A g \in Existing : \A p \in PanesOf(g) : p \in Pane /\ p \in 1..nPanes
  BY <1>1, <1>3 DEF GroupsInv, Separation
<1>5. \A it \in Held : it \in Item /\ it \in 1..nItems
  <2>1. \A it \in Held : \E p \in Pane : it \in items[p]
    BY <1>3 DEF Held
  <2>2. QED
    BY <1>1, <2>1 DEF GroupsInv, TypeInv, TypeOK, TabsInv, ItemsApart
<1>6. \A it \in 1..nItems : ~ (it > nItems)
  BY <1>2
<1>7. QED
  BY <1>2, <1>4, <1>5, <1>6 DEF NumbersTyped

(* Where the tabs are after a step that leaves the groups alone.             *)
LEMMA TabsAfter ==
    ASSUME GroupsInv, GroupsInv', UNCHANGED <<groups, active>>,
           \A g \in Background : saved'[g].panes = saved[g].panes
    PROVE  /\ \A it \in Held' :
                 \/ \E p \in panes' : it \in items'[p]
                 \/ \E g \in Background : \E p \in saved[g].panes : it \in items'[p]
           /\ \A p \in panes : \A it \in items[p] : it \in Held
           /\ \A g \in Background : \A p \in saved[g].panes : \A it \in items[p] : it \in Held
<1>1. TabsOfGroups /\ TabsOfGroups'
  <2>1. TabsOfGroups
    BY HeldByGroups DEF GroupsInv
  <2>2. TypeInv'
    BY DEF GroupsInv
  <2>3. TabsOfGroups'
    BY <2>2, HeldByGroups, PTL
  <2>4. QED
    BY <2>1, <2>3
<1>2. /\ Existing' = Existing /\ LiveGroup' = LiveGroup /\ LiveGroup \in Existing
      /\ Background = Existing \ {LiveGroup}
  BY OwnedPanes DEF Existing, LiveGroup, Background, GroupsInv
<1>3. PanesOf(LiveGroup) = panes /\ \A g \in Background : PanesOf(g) = saved[g].panes
  BY <1>2 DEF PanesOf
<1>4. PanesOf(LiveGroup)' = panes' /\ \A g \in Background : PanesOf(g)' = saved[g].panes
  BY <1>2 DEF PanesOf
<1>5. ASSUME NEW it \in Held'
      PROVE  \/ \E p \in panes' : it \in items'[p]
             \/ \E g \in Background : \E p \in saved[g].panes : it \in items'[p]
  <2>1. PICK g \in Existing' : \E p \in PanesOf(g)' : it \in items'[p]
    BY <1>1, <1>5 DEF TabsOfGroups
  <2>2. CASE g = LiveGroup
    BY <1>2, <1>4, <2>1, <2>2
  <2>3. CASE g # LiveGroup
    BY <1>2, <1>4, <2>1, <2>3
  <2>4. QED
    BY <2>2, <2>3
<1>6. QED
  BY <1>1, <1>2, <1>3, <1>5 DEF TabsOfGroups

(* With no event left, no tab waits for the map.                             *)
LEMMA NothingAwaited ==
    ASSUME queue = <<>>
    PROVE  \A it : ~ Awaited(it)
  BY DEF Awaited

(* Panes of the background are not those of the live group, nor new.         *)
LEMMA PanesApart ==
    ASSUME GroupsInv
    PROVE  /\ \A p \in panes : p \in Pane /\ p \in 1..nPanes /\ p # nPanes + 1 /\ p # NoPane
           /\ \A g \in Background : \A p \in saved[g].panes :
                 p \in Pane /\ p \in 1..nPanes /\ p # nPanes + 1 /\ p \notin panes
<1>1. NumbersTyped
  BY Numbers
<1>2. LiveGroup \in Existing
  BY OwnedPanes DEF GroupsInv
<1>3. PanesOf(LiveGroup) = panes /\ \A g \in Background : PanesOf(g) = saved[g].panes
  BY <1>2 DEF PanesOf, Background
<1>4. \A p \in 1..nPanes : p # nPanes + 1
  BY <1>1 DEF NumbersTyped
<1>5. \A p \in panes : p \in Pane /\ p \in 1..nPanes /\ p # nPanes + 1 /\ p # NoPane
  BY <1>1, <1>2, <1>3, <1>4 DEF NumbersTyped
<1>6. \A g \in Background : \A p \in saved[g].panes : p \in Pane /\ p \in 1..nPanes /\ p # nPanes + 1
  BY <1>1, <1>3, <1>4 DEF NumbersTyped, Background
<1>7. \A g \in Background : saved[g].panes \cap panes = {}
  BY <1>2, <1>3 DEF GroupsInv, Separation, Background
<1>8. QED
  BY <1>5, <1>6, <1>7

(* The panes owned, group by group.                                          *)
PanesOfGroups == \A p : p \in Owned <=> \E g \in Existing : p \in PanesOf(g)

(* The panes owned are those of the groups that exist.                       *)
LEMMA OwnedByGroups == TypeInv => PanesOfGroups
  BY OwnedPanes DEF PanesOfGroups

(* The groups after a step that leaves their list alone, in the background   *)
(* but for a pane that may come in.                                          *)
QuietGroups ==
    /\ UNCHANGED <<groups, active>>
    /\ center \subseteq center' /\ panes \subseteq panes'
    /\ \A p \in panes' \ panes : p > nPanes
    /\ \A g \in Background :
          /\ saved'[g].byItem = saved[g].byItem /\ saved'[g].activePane = saved[g].activePane
          /\ saved[g].center \subseteq saved'[g].center
          /\ saved[g].panes \subseteq saved'[g].panes
          /\ \A p \in saved'[g].panes \ saved[g].panes : p > nPanes

(* The groups, and what each of them keeps, after such a step.               *)
LEMMA QuietNames ==
    ASSUME GroupsInv, QuietGroups
    PROVE  /\ Existing' = Existing /\ LiveGroup' = LiveGroup /\ Background' = Background
           /\ LiveGroup \in Existing /\ Existing \subseteq Group
           /\ \A g \in Existing : g # LiveGroup => g \in Background
           /\ \A g \in Existing : /\ PanesOf(g) \subseteq PanesOf(g)'
                                  /\ \A p \in PanesOf(g)' \ PanesOf(g) : p > nPanes
<1>1. /\ Existing' = Existing /\ LiveGroup' = LiveGroup /\ Background' = Background
      /\ \A g \in Existing : g # LiveGroup => g \in Background
  BY DEF QuietGroups, Existing, LiveGroup, Background
<1>2. LiveGroup \in Existing /\ Existing \subseteq Group
  BY OwnedPanes DEF GroupsInv
<1>3. \A g \in Existing : /\ PanesOf(g) \subseteq PanesOf(g)'
                          /\ \A p \in PanesOf(g)' \ PanesOf(g) : p > nPanes
  <2>1. SUFFICES ASSUME NEW g \in Existing
                 PROVE  /\ PanesOf(g) \subseteq PanesOf(g)'
                        /\ \A p \in PanesOf(g)' \ PanesOf(g) : p > nPanes
    OBVIOUS
  <2>2. CASE g = LiveGroup
    BY <1>1, <2>2 DEF QuietGroups, PanesOf
  <2>3. CASE g # LiveGroup
    <3>1. g \in Background
      BY <1>1, <2>3
    <3>2. PanesOf(g) = saved[g].panes /\ PanesOf(g)' = saved'[g].panes
      BY <1>1, <2>3 DEF PanesOf
    <3>3. QED
      BY <3>1, <3>2 DEF QuietGroups
  <2>4. QED
    BY <2>2, <2>3
<1>4. QED
  BY <1>1, <1>2, <1>3

(* Where a tab is held, and nowhere else.                                    *)
LEMMA OnePane ==
    ASSUME GroupsInv, NEW it, NEW p \in Pane, NEW q \in Pane, it \in items[p], it \in items[q]
    PROVE  p = q
  BY DEF GroupsInv, TabsInv, ItemsApart

(* A map that was right about a tab is, if neither of them moved.            *)
LEMMA StillTraced ==
    ASSUME NEW it, NEW g, TracedIn(it, g),
           PanesWith(it, g)' = PanesWith(it, g), MapOf(g)[it]' = MapOf(g)[it],
           g = LiveGroup /\ Awaited(it) => g = LiveGroup' /\ Awaited(it)'
    PROVE  TracedIn(it, g)'
  BY DEF TracedIn

(* Where the tabs are once at most one, m, has come into another pane.       *)
TabsStay(m) == \A p \in Pane : items'[p] \ {m} \subseteq items[p]

(* Any tab but m is where it was.                                            *)
LEMMA PlaceOfTab ==
    ASSUME GroupsInv, GroupsInv', FreshEmpty, QuietGroups, NEW m, TabsStay(m),
           NEW it \in Held', it # m
    PROVE  /\ it \in Held
           /\ \A g \in Existing : PanesWith(it, g)' = PanesWith(it, g)
<1>1. /\ NumbersTyped /\ NumbersTyped'
      /\ TabsOfGroups /\ TabsOfGroups'
  <2>1. NumbersTyped /\ TabsOfGroups
    BY Numbers, HeldByGroups DEF GroupsInv
  <2>2. NumbersTyped'
    BY Numbers, PTL
  <2>3. TypeInv'
    BY DEF GroupsInv
  <2>4. TabsOfGroups'
    BY <2>3, HeldByGroups, PTL
  <2>5. QED
    BY <2>1, <2>2, <2>4
<1>2. PICK h \in Existing' : \E p \in PanesOf(h)' : it \in items'[p]
  BY <1>1 DEF TabsOfGroups
<1>3. PICK r \in PanesOf(h)' : it \in items'[r]
  BY <1>2
<1>4. r \in Pane /\ it \in items[r] /\ h \in Existing
  <2>1. r \in Pane /\ h \in Existing
    BY <1>1, <1>3, QuietNames DEF NumbersTyped
  <2>2. QED
    BY <1>3, <2>1 DEF TabsStay
<1>5. \A p \in Pane : it \in items[p] => p = r
  BY <1>4, OnePane
<1>6. \A p \in Pane : it \in items[p] => ~ (p > nPanes)
  BY DEF FreshEmpty
<1>7. r \in PanesOf(h)
  BY <1>3, <1>4, <1>6, QuietNames
<1>8. it \in Held
  BY <1>1, <1>4, <1>7 DEF TabsOfGroups
<1>9. ASSUME NEW g \in Existing
      PROVE  PanesWith(it, g)' = PanesWith(it, g)
  <2>1. /\ PanesOf(g) \subseteq PanesOf(g)' /\ \A p \in PanesOf(g)' \ PanesOf(g) : p > nPanes
        /\ \A p \in PanesOf(g)' : p \in Pane
    BY <1>1, QuietNames DEF NumbersTyped
  <2>2. \A p \in Pane : it \in items'[p] => it \in items[p]
    BY DEF TabsStay
  <2>3. \A p \in PanesOf(g)' : it \in items'[p] => p \in PanesOf(g) /\ it \in items[p]
    BY <1>6, <2>1, <2>2
  <2>4. \A p \in PanesOf(g) : it \in items[p] => p \in PanesOf(g)' /\ it \in items'[p]
    BY <1>3, <1>5, <2>1
  <2>5. PanesWith(it, g)' = {p \in PanesOf(g)' : it \in items'[p]}
    BY DEF PanesWith
  <2>6. QED
    BY <2>3, <2>4, <2>5 DEF PanesWith
<1>10. QED
  BY <1>8, <1>9

(* The tab m is gone, or came into the live group, or is a new one in the    *)
(* background.                                                               *)
PlaceOfNew(m) ==
    \/ m \notin Held'
    \/ m \notin Held /\ \A p \in panes' : m \notin items'[p]
    \/ /\ Awaited(m)' /\ (m \in Held \/ m > nItems)
       /\ \A g \in Background : PanesWith(m, g) = {} /\ PanesWith(m, g)' = {}

(* The maps stay right, but for the new tab.                                 *)
LEMMA QuietTraces ==
    ASSUME GroupsInv, GroupsInv', FreshEmpty, MapsFresh, queue = <<>>, QuietGroups,
           byItem' = byItem, nItems <= nItems', NEW m, TabsStay(m), PlaceOfNew(m)
    PROVE  TracesKept /\ MapsFresh'
<1>1. NumbersTyped /\ NumbersTyped'
  <2>1. NumbersTyped
    BY Numbers
  <2>2. NumbersTyped'
    BY Numbers, PTL
  <2>3. QED
    BY <2>1, <2>2
<1>2. /\ Existing' = Existing /\ LiveGroup' = LiveGroup /\ LiveGroup \in Existing
      /\ \A g \in Existing : g # LiveGroup => g \in Background
  BY QuietNames
<1>3. \A g \in Existing : MapOf(g)' = MapOf(g)
  BY <1>2 DEF MapOf, QuietGroups
<1>4. MapsFresh'
  <2>1. \A it \in Item : it > nItems' => it > nItems
    BY <1>1 DEF NumbersTyped
  <2>2. QED
    BY <1>2, <1>3, <2>1 DEF MapsFresh
<1>5. ASSUME NEW it \in Held', it # m, Traced(it)
      PROVE  Traced(it)'
  <2>1. ASSUME NEW g \in Existing
        PROVE  TracedIn(it, g)'
    <3>1. PanesWith(it, g)' = PanesWith(it, g)
      BY <1>5, PlaceOfTab
    <3>2. MapOf(g)[it]' = MapOf(g)[it] /\ TracedIn(it, g) /\ ~ Awaited(it)
      BY <1>3, <1>5, NothingAwaited DEF Traced
    <3>3. QED
      BY <3>1, <3>2, StillTraced
  <2>2. QED
    BY <1>2, <2>1 DEF Traced
<1>6. ASSUME m \in Held', m \in Held => Traced(m)
      PROVE  Traced(m)' \/ (m \notin Held /\ \A p \in panes' : m \notin items'[p])
  <2>1. CASE m \notin Held /\ \A p \in panes' : m \notin items'[p]
    BY <2>1
  <2>2. CASE /\ Awaited(m)' /\ (m \in Held \/ m > nItems)
             /\ \A g \in Background : PanesWith(m, g) = {} /\ PanesWith(m, g)' = {}
    <3>1. ASSUME NEW g \in Existing, g # LiveGroup
          PROVE  TracedIn(m, g)'
      <4>1. PanesWith(m, g) = {} /\ PanesWith(m, g)' = {}
        BY <1>2, <2>2, <3>1
      <4>2. MapOf(g)[m] = NoPane
        <5>1. CASE m \in Held
          BY <1>6, <3>1, <4>1, <5>1 DEF Traced, TracedIn
        <5>2. CASE m > nItems
          BY <1>1, <1>6, <3>1, <5>2 DEF MapsFresh, NumbersTyped
        <5>3. QED
          BY <2>2, <5>1, <5>2
      <4>3. MapOf(g)[m]' = NoPane
        BY <1>3, <3>1, <4>2
      <4>4. QED
        BY <4>1, <4>3 DEF TracedIn
    <3>2. TracedIn(m, LiveGroup)'
      BY <1>2, <2>2 DEF TracedIn
    <3>3. QED
      BY <1>2, <3>1, <3>2 DEF Traced
  <2>3. QED
    BY <1>6, <2>1, <2>2 DEF PlaceOfNew
<1>7. TracesKept
  <2>1. ASSUME NEW it \in Held'
        PROVE  \/ Traced(it)'
               \/ it \in Held /\ ~ Traced(it)
               \/ it \notin Held /\ \A p \in panes' : it \notin items'[p]
    <3>1. CASE it = m
      BY <1>6, <3>1
    <3>2. CASE it # m
      BY <1>5, <3>2, PlaceOfTab
    <3>3. QED
      BY <3>1, <3>2
  <2>2. QED
    BY <2>1 DEF TracesKept
<1>8. QED
  BY <1>4, <1>7

(* The active panes stay if the focus goes to a pane on screen only, or to   *)
(* the tab of a subagent.                                                    *)
LEMMA QuietActives ==
    ASSUME GroupsInv, QuietGroups,
           \/ /\ activePane' = activePane
              /\ focus' = focus \/ focus' \in center' \/ AgentTakes(focus)'
           \/ activePane' \in center'
    PROVE  ActiveKept
<1>1. /\ Existing' = Existing /\ LiveGroup' = LiveGroup
      /\ \A g \in Existing : g # LiveGroup => g \in Background
  BY QuietNames
<1>2. ASSUME NEW g \in Existing, g # LiveGroup, PaneActive(g)
      PROVE  PaneActive(g)'
  <2>1. saved'[g].activePane = saved[g].activePane /\ saved[g].center \subseteq saved'[g].center
    BY <1>1, <1>2 DEF QuietGroups
  <2>2. QED
    BY <1>1, <1>2, <2>1 DEF PaneActive
<1>3. ASSUME PaneActive(LiveGroup)
      PROVE  PaneActive(LiveGroup)' \/ FocusLeaves
  <2>1. activePane \in center \/ focus \in center
    BY <1>3 DEF PaneActive
  <2>2. center \subseteq center'
    BY DEF QuietGroups
  <2>3. PaneActive(LiveGroup)' <=> activePane' \in center' \/ focus' \in center'
    BY <1>1 DEF PaneActive
  <2>4. QED
    BY <2>1, <2>2, <2>3 DEF FocusLeaves
<1>4. QED
  BY <1>1, <1>2, <1>3 DEF ActiveKept

(* What an event says of its pane, its tab and the pane to focus.            *)
LEMMA EventFields ==
    ASSUME NEW p, NEW it, NEW on
    PROVE  /\ Removed(p, it).type = "RemovedItem" /\ Removed(p, it).item = it
           /\ Activated(p).type = "ActivateItem" /\ Activated(p).pane = p
           /\ Added(p, it).type = "AddItem" /\ Added(p, it).pane = p /\ Added(p, it).item = it
           /\ EmptyPane(p, on).type = "Remove" /\ EmptyPane(p, on).focusOn = on
  BY DEF Removed, Activated, Added, EmptyPane, Event

(* What each kind of event asks for.                                         *)
Shown(q) == q \in center \/ AgentTakes(q)
Known(q, it) == q \in center \/ LateIn(q, it)

(* Each event is sound if what it asks for is there.                         *)
LEMMA EventsAsk ==
    ASSUME NEW p, NEW it, NEW on
    PROVE  /\ EventSound(Removed(p, it))
           /\ Shown(p) /\ items[p] # {} => EventSound(Activated(p))
           /\ Known(p, it) /\ it \in items[p] => EventSound(Added(p, it))
           /\ on = NoPane => EventSound(EmptyPane(p, on))
           /\ on \in center /\ items[on] # {} => EventSound(EmptyPane(p, on))
  BY EventFields DEF EventSound, Shown, Known

(* The queues that operations leave, and what makes them sound.              *)
QueueShapes ==
    /\ \A p, it : queue = <<Removed(p, it)>> /\ it \notin Held => EventsSound
    /\ \A p, it : queue = <<Removed(p, it), EmptyPane(p, NoPane)>> /\ it \notin Held
                  => EventsSound
    /\ \A p, q, it : queue = <<Removed(p, it), Activated(q), Added(q, it)>>
                  /\ q \in center /\ it \in items[q] => EventsSound
    /\ \A p, q, it : queue = <<Removed(p, it), EmptyPane(p, q), Activated(q), Added(q, it)>>
                  /\ q \in center /\ it \in items[q] => EventsSound
    /\ \A q, it : queue = <<Activated(q), Added(q, it)>>
                  /\ Shown(q) /\ Known(q, it) /\ it \in items[q] => EventsSound
    /\ \A q, it : queue = <<Added(q, it)>> /\ Known(q, it) /\ it \in items[q] => EventsSound
    /\ \A p : queue = <<EmptyPane(p, NoPane)>> => EventsSound
    /\ \A p : queue = <<Activated(p)>> /\ Shown(p) /\ items[p] # {} => EventsSound

(* What these queues ask for is what the operation has provided.             *)
LEMMA QueuesSound == QueueShapes
<1>1. ASSUME NEW p, NEW it, queue = <<Removed(p, it)>>, it \notin Held
      PROVE  EventsSound
  <2>1. /\ 1..Len(queue) = {1}
        /\ queue[1] = Removed(p, it)
    BY <1>1
  <2>2. queue[1].type = "RemovedItem"
    BY <2>1, EventFields
  <2>3. EventSound(queue[1])
    BY <1>1, <2>1, EventsAsk
  <2>4. queue[1].item \in Held => Awaited(queue[1].item)
    BY <1>1, <2>1, EventFields
  <2>5. QED
    BY <2>1, <2>2, <2>3, <2>4 DEF EventsSound
<1>2. ASSUME NEW p, NEW it, queue = <<Removed(p, it), EmptyPane(p, NoPane)>>,
             it \notin Held
      PROVE  EventsSound
  <2>1. /\ 1..Len(queue) = {1, 2}
        /\ queue[1] = Removed(p, it)
        /\ queue[2] = EmptyPane(p, NoPane)
    BY <1>2
  <2>2. queue[1].type = "RemovedItem" /\ queue[2].type = "Remove"
    BY <2>1, EventFields
  <2>3. EventSound(queue[1]) /\ EventSound(queue[2])
    BY <1>2, <2>1, EventsAsk
  <2>4. queue[1].item \in Held => Awaited(queue[1].item)
    BY <1>2, <2>1, EventFields
  <2>5. QED
    BY <2>1, <2>2, <2>3, <2>4 DEF EventsSound
<1>3. ASSUME NEW p, NEW q, NEW it, queue = <<Removed(p, it), Activated(q), Added(q, it)>>,
             q \in center, it \in items[q]
      PROVE  EventsSound
  <2>1. /\ 1..Len(queue) = {1, 2, 3}
        /\ queue[1] = Removed(p, it)
        /\ queue[2] = Activated(q)
        /\ queue[3] = Added(q, it)
    BY <1>3
  <2>2. queue[1].type = "RemovedItem" /\ queue[2].type = "ActivateItem" /\ queue[3].type = "AddItem"
    BY <2>1, EventFields
  <2>3. EventSound(queue[1]) /\ EventSound(queue[2]) /\ EventSound(queue[3])
    BY <1>3, <2>1, EventsAsk DEF Shown, Known
  <2>4. queue[1].item \in Held => Awaited(queue[1].item)
    <3>1. Awaited(it)
      BY <2>1, <2>2, EventFields DEF Awaited
    <3>2. queue[1].item = it
      BY <2>1, EventFields
    <3>3. QED
      BY <3>1, <3>2
  <2>5. QED
    BY <2>1, <2>2, <2>3, <2>4 DEF EventsSound
<1>4. ASSUME NEW p, NEW q, NEW it,
             queue = <<Removed(p, it), EmptyPane(p, q), Activated(q), Added(q, it)>>,
             q \in center, it \in items[q]
      PROVE  EventsSound
  <2>1. /\ 1..Len(queue) = {1, 2, 3, 4}
        /\ queue[1] = Removed(p, it)
        /\ queue[2] = EmptyPane(p, q)
        /\ queue[3] = Activated(q)
        /\ queue[4] = Added(q, it)
    BY <1>4
  <2>2. /\ queue[1].type = "RemovedItem" /\ queue[2].type = "Remove"
        /\ queue[3].type = "ActivateItem" /\ queue[4].type = "AddItem"
    BY <2>1, EventFields
  <2>3. EventSound(queue[1]) /\ EventSound(queue[2]) /\ EventSound(queue[3]) /\ EventSound(queue[4])
    BY <1>4, <2>1, EventsAsk DEF Shown, Known
  <2>4. queue[1].item \in Held => Awaited(queue[1].item)
    <3>1. Awaited(it)
      BY <2>1, <2>2, EventFields DEF Awaited
    <3>2. queue[1].item = it
      BY <2>1, EventFields
    <3>3. QED
      BY <3>1, <3>2
  <2>5. QED
    BY <2>1, <2>2, <2>3, <2>4 DEF EventsSound
<1>5. ASSUME NEW q, NEW it, queue = <<Activated(q), Added(q, it)>>,
             Shown(q), Known(q, it), it \in items[q]
      PROVE  EventsSound
  <2>1. /\ 1..Len(queue) = {1, 2}
        /\ queue[1] = Activated(q)
        /\ queue[2] = Added(q, it)
    BY <1>5
  <2>2. queue[1].type = "ActivateItem" /\ queue[2].type = "AddItem"
    BY <2>1, EventFields
  <2>3. EventSound(queue[1]) /\ EventSound(queue[2])
    BY <1>5, <2>1, EventsAsk
  <2>4. QED
    BY <2>1, <2>2, <2>3 DEF EventsSound
<1>6. ASSUME NEW q, NEW it, queue = <<Added(q, it)>>, Known(q, it), it \in items[q]
      PROVE  EventsSound
  <2>1. /\ 1..Len(queue) = {1}
        /\ queue[1] = Added(q, it)
    BY <1>6
  <2>2. queue[1].type = "AddItem"
    BY <2>1, EventFields
  <2>3. EventSound(queue[1])
    BY <1>6, <2>1, EventsAsk
  <2>4. QED
    BY <2>1, <2>2, <2>3 DEF EventsSound
<1>7. ASSUME NEW p, queue = <<EmptyPane(p, NoPane)>>
      PROVE  EventsSound
  <2>1. /\ 1..Len(queue) = {1}
        /\ queue[1] = EmptyPane(p, NoPane)
    BY <1>7
  <2>2. queue[1].type = "Remove"
    BY <2>1, EventFields
  <2>3. EventSound(queue[1])
    BY <1>7, <2>1, EventsAsk
  <2>4. QED
    BY <2>1, <2>2, <2>3 DEF EventsSound
<1>8. ASSUME NEW p, queue = <<Activated(p)>>, Shown(p), items[p] # {}
      PROVE  EventsSound
  <2>1. /\ 1..Len(queue) = {1}
        /\ queue[1] = Activated(p)
    BY <1>8
  <2>2. queue[1].type = "ActivateItem"
    BY <2>1, EventFields
  <2>3. EventSound(queue[1])
    BY <1>8, <2>1, EventsAsk
  <2>4. QED
    BY <2>1, <2>2, <2>3 DEF EventsSound
<1>9. QED
  BY <1>1, <1>2, <1>3, <1>4, <1>5, <1>6, <1>7, <1>8 DEF QueueShapes

(* With no event left, nothing is asked.                                     *)
LEMMA NoEventsSound == queue = <<>> => EventsSound
  BY DEF EventsSound

(* What a queue awaits.                                                      *)
Awaits ==
    /\ \A q, it : queue = <<Added(q, it)>> => Awaited(it)
    /\ \A q, it : queue = <<Activated(q), Added(q, it)>> => Awaited(it)
    /\ \A p, q, it : queue = <<Removed(p, it), Activated(q), Added(q, it)>> => Awaited(it)
    /\ \A p, q, it : queue = <<Removed(p, it), EmptyPane(p, q), Activated(q), Added(q, it)>>
                     => Awaited(it)

(* A tab that has just come into a pane waits for its AddItem.               *)
LEMMA QueuesAwait == Awaits
<1>1. ASSUME NEW q, NEW it, queue = <<Added(q, it)>>
      PROVE  Awaited(it)
  BY <1>1, EventFields DEF Awaited
<1>2. ASSUME NEW q, NEW it, queue = <<Activated(q), Added(q, it)>>
      PROVE  Awaited(it)
  BY <1>2, EventFields DEF Awaited
<1>3. ASSUME NEW p, NEW q, NEW it, queue = <<Removed(p, it), Activated(q), Added(q, it)>>
      PROVE  Awaited(it)
  BY <1>3, EventFields DEF Awaited
<1>4. ASSUME NEW p, NEW q, NEW it,
             queue = <<Removed(p, it), EmptyPane(p, q), Activated(q), Added(q, it)>>
      PROVE  Awaited(it)
  BY <1>4, EventFields DEF Awaited
<1>5. QED
  BY <1>1, <1>2, <1>3, <1>4 DEF Awaits
-----------------------------------------------------------------------------
(* Operations on panes *)

(* The panes stay, or a new one is added to the live group.                  *)
LEMMA SamePanes ==
    ASSUME GroupsInv, TreesWhole, UNCHANGED <<groups, active, saved, center, panes>>
    PROVE  QuietGroups /\ TreesWhole'
<1>1. Background' = Background
  BY DEF Background, Existing, LiveGroup
<1>2. QED
  BY <1>1 DEF QuietGroups, TreesWhole

(* An operation that adds a pane to the live group.                          *)
LEMMA NewPane ==
    ASSUME GroupsInv, TreesWhole, FreshEmpty, nPanes < MaxPanes, NEW q, q = nPanes + 1,
           UNCHANGED <<groups, active, saved>>, AddPane(q)
    PROVE  /\ QuietGroups /\ TreesWhole' /\ q \in Pane /\ q > nPanes /\ nPanes' = q
           /\ items[q] = {} /\ q \in center' /\ q \in panes' /\ focus' = q /\ q \notin panes
           /\ \A p \in Pane : p > nPanes' => p > nPanes /\ p # q
<1>1. NumbersTyped
  BY Numbers
<1>2. q \in Pane /\ q > nPanes /\ nPanes' = q /\ \A p \in Pane : p > q => p > nPanes /\ p # q
  BY <1>1, SMT DEF NumbersTyped, AddPane, Pane
<1>3. Background' = Background
  BY DEF Background, Existing, LiveGroup
<1>4. QuietGroups /\ TreesWhole'
  BY <1>2, <1>3 DEF QuietGroups, TreesWhole, AddPane
<1>5. items[q] = {} /\ q \notin panes
  BY <1>2, PanesApart DEF FreshEmpty
<1>6. QED
  BY <1>2, <1>4, <1>5 DEF AddPane

(* The steps that leave the tabs where they are.                             *)
LEMMA SameTabs ==
    ASSUME GroupsInv, GroupsInv', PlacesInv, queue = <<>>, QuietGroups,
           UNCHANGED <<byItem, items, nItems>>,
           \A p \in Pane : p > nPanes' => p > nPanes
    PROVE  TracesKept /\ FreshEmpty' /\ MapsFresh'
<1>1. NumbersTyped'
  BY Numbers, PTL
<1>2. PICK m : m = NoPane
  OBVIOUS
<1>3. m \notin Held'
  BY <1>1, <1>2, BoundsAssumption DEF NumbersTyped, NoPane, Item
<1>4. TabsStay(m) /\ PlaceOfNew(m) /\ nItems <= nItems'
  BY <1>3, Numbers DEF TabsStay, PlaceOfNew, NumbersTyped
<1>5. TracesKept /\ MapsFresh'
  BY <1>4, QuietTraces DEF PlacesInv
<1>6. FreshEmpty'
  BY DEF PlacesInv, FreshEmpty
<1>7. QED
  BY <1>5, <1>6

(* A tab of the live group is in no group of the background.                 *)
LEMMA LiveTab ==
    ASSUME GroupsInv, NEW p \in panes, NEW it \in items[p]
    PROVE  it \in Held /\ \A g \in Background : PanesWith(it, g) = {}
<1>1. it \in Held
  BY DEF Held, Owned
<1>2. ASSUME NEW g \in Background
      PROVE  PanesWith(it, g) = {}
  <2>1. PanesOf(g) = saved[g].panes
    BY DEF PanesOf, Background
  <2>2. \A q \in saved[g].panes : q \in Pane /\ q \notin panes
    BY PanesApart
  <2>3. p \in Pane
    BY PanesApart
  <2>4. \A q \in saved[g].panes : it \notin items[q]
    BY <2>2, <2>3, OnePane
  <2>5. QED
    BY <2>1, <2>4 DEF PanesWith
<1>3. QED
  BY <1>1, <1>2

LiveTabsApart ==
    \A p \in panes : \A it \in items[p] :
        it \in Held /\ \A g \in Background : PanesWith(it, g) = {}

(* A tab of the live group is in no group of the background.                 *)
LEMMA LiveTabs == GroupsInv => LiveTabsApart
  BY LiveTab DEF LiveTabsApart

(* A split opens an empty pane beside the others and focuses it.             *)
LEMMA SplitEmptyPlaces ==
    ASSUME GroupsInv, GroupsInv', PlacesInv, NEW p \in center, SplitEmpty(p)
    PROVE  PlacesInv' /\ TracesKept /\ ActiveKept
<1>1. /\ queue = <<>> /\ queue' = <<>> /\ activePane' = activePane /\ nPanes < MaxPanes
      /\ UNCHANGED <<groups, active, saved, byItem, items, nItems>>
  BY DEF SplitEmpty, UserTurn, Idle
<1>2. PICK q : q = nPanes + 1
  OBVIOUS
<1>3. AddPane(q)
  BY <1>2 DEF SplitEmpty
<1>4. /\ QuietGroups /\ TreesWhole' /\ focus' \in center'
      /\ \A r \in Pane : r > nPanes' => r > nPanes
  BY <1>1, <1>2, <1>3, NewPane DEF PlacesInv
<1>5. TracesKept /\ FreshEmpty' /\ MapsFresh'
  BY <1>1, <1>4, SameTabs
<1>6. ActiveKept
  BY <1>1, <1>4, QuietActives
<1>7. EventsSound'
  <2>1. (queue = <<>> => EventsSound)'
    BY NoEventsSound, PTL
  <2>2. QED
    BY <1>1, <2>1
<1>8. QED
  BY <1>4, <1>5, <1>6, <1>7 DEF PlacesInv

(* A split that takes a tab along: its AddItem is on the way.                *)
LEMMA SplitMovePlaces ==
    ASSUME GroupsInv, GroupsInv', PlacesInv, NEW p \in center, NEW it \in items[p],
           SplitMove(p, it)
    PROVE  PlacesInv' /\ TracesKept /\ ActiveKept
<1>1. /\ queue = <<>> /\ activePane' = activePane /\ nPanes < MaxPanes
      /\ UNCHANGED <<groups, active, saved, byItem, nItems>>
  BY DEF SplitMove, UserTurn, Idle
<1>2. PICK q : q = nPanes + 1
  OBVIOUS
<1>3. /\ AddPane(q) /\ queue' = <<Removed(p, it), Activated(q), Added(q, it)>>
      /\ items' = [items EXCEPT ![p] = @ \ {it}, ![q] = {it}]
  BY <1>2 DEF SplitMove
<1>4. /\ QuietGroups /\ TreesWhole' /\ focus' \in center' /\ q \in Pane /\ q \in panes'
      /\ q \in center' /\ q \notin panes /\ items[q] = {}
      /\ \A r \in Pane : r > nPanes' => r > nPanes /\ r # q
  BY <1>1, <1>2, <1>3, NewPane DEF PlacesInv
<1>5. p \in panes /\ p \in Pane /\ p # q
  BY <1>4, PanesApart DEF PlacesInv, TreesWhole
<1>6. /\ items'[p] = items[p] \ {it} /\ items'[q] = {it}
      /\ \A r \in Pane \ {p, q} : items'[r] = items[r]
  BY <1>3, <1>4, <1>5 DEF GroupsInv, TypeInv, TypeOK
<1>7. TabsStay(it) /\ FreshEmpty'
  BY <1>4, <1>5, <1>6 DEF TabsStay, PlacesInv, FreshEmpty
<1>8. PlaceOfNew(it)
  <2>1. Awaited(it)'
    <3>1. Awaits'
      BY QueuesAwait, PTL
    <3>2. QED
      BY <1>3, <3>1 DEF Awaits
  <2>2. it \in Held /\ \A g \in Background : PanesWith(it, g) = {}
    BY <1>5, LiveTab
  <2>3. \A g \in Background' : PanesWith(it, g)' = {}
    <3>1. LiveTabsApart'
      BY LiveTabs, PTL
    <3>2. QED
      BY <1>4, <1>6, <3>1 DEF LiveTabsApart
  <2>4. QED
    BY <1>4, <2>1, <2>2, <2>3, QuietNames DEF PlaceOfNew
<1>9. nItems <= nItems'
  BY <1>1, Numbers DEF NumbersTyped
<1>10. TracesKept /\ MapsFresh'
  BY <1>1, <1>4, <1>7, <1>8, <1>9, QuietTraces DEF PlacesInv
<1>11. ActiveKept
  BY <1>1, <1>4, QuietActives
<1>12. EventsSound'
  <2>1. QueueShapes'
    BY QueuesSound, PTL
  <2>2. QED
    BY <1>3, <1>4, <1>6, <2>1 DEF QueueShapes
<1>13. QED
  BY <1>4, <1>7, <1>10, <1>11, <1>12 DEF PlacesInv

(* A tab dragged to another pane of the group.                               *)
LEMMA MoveItemPlaces ==
    ASSUME GroupsInv, GroupsInv', PlacesInv, NEW p \in center, NEW it \in items[p],
           NEW q \in center, MoveItem(p, q, it)
    PROVE  PlacesInv' /\ TracesKept /\ ActiveKept
<1>1. /\ queue = <<>> /\ activePane' = activePane /\ focus' = q /\ p # q
      /\ UNCHANGED <<groups, active, saved, center, panes, byItem, nPanes, nItems>>
      /\ items' = [items EXCEPT ![p] = @ \ {it}, ![q] = @ \cup {it}]
  BY DEF MoveItem, UserTurn, Idle, live, ids
<1>2. QuietGroups /\ TreesWhole'
  BY <1>1, SamePanes DEF PlacesInv
<1>3. p \in panes /\ p \in Pane /\ q \in panes /\ q \in Pane
  BY PanesApart DEF PlacesInv, TreesWhole
<1>4. /\ items'[p] = items[p] \ {it} /\ items'[q] = items[q] \cup {it}
      /\ \A r \in Pane \ {p, q} : items'[r] = items[r]
  BY <1>1, <1>3 DEF GroupsInv, TypeInv, TypeOK
<1>5. it \in Item
  BY <1>3 DEF GroupsInv, TypeInv, TypeOK
<1>6. /\ Removed(p, it) \in EventType /\ EmptyPane(p, q) \in EventType
      /\ Activated(q) \in EventType /\ Added(q, it) \in EventType
  BY <1>3, <1>5, EventTypes
<1>7. \/ queue' = <<Removed(p, it), EmptyPane(p, q), Activated(q), Added(q, it)>>
      \/ queue' = <<Removed(p, it), Activated(q), Added(q, it)>>
  <2>1. CASE items[p] = {it}
    BY <1>6, <2>1, JoinedEvents DEF MoveItem
  <2>2. CASE items[p] # {it}
    BY <1>6, <2>2, JoinedEvents DEF MoveItem
  <2>3. QED
    BY <2>1, <2>2
<1>8. TabsStay(it)
  BY <1>3, <1>4 DEF TabsStay
<1>9. FreshEmpty'
  <2>1. \A r \in panes : ~ (r > nPanes)
    BY PanesApart, Numbers DEF NumbersTyped
  <2>2. QED
    BY <1>1, <1>3, <1>4, <2>1 DEF PlacesInv, FreshEmpty
<1>10. PlaceOfNew(it)
  <2>1. Awaited(it)'
    <3>1. Awaits'
      BY QueuesAwait, PTL
    <3>2. QED
      BY <1>7, <3>1 DEF Awaits
  <2>2. it \in Held /\ \A g \in Background : PanesWith(it, g) = {}
    BY <1>3, LiveTab
  <2>3. \A g \in Background' : PanesWith(it, g)' = {}
    <3>1. LiveTabsApart'
      BY LiveTabs, PTL
    <3>2. QED
      BY <1>1, <1>3, <1>4, <3>1 DEF LiveTabsApart
  <2>4. QED
    BY <1>2, <2>1, <2>2, <2>3, QuietNames DEF PlaceOfNew
<1>11. nItems <= nItems'
  BY <1>1, Numbers DEF NumbersTyped
<1>12. TracesKept /\ MapsFresh'
  BY <1>1, <1>2, <1>8, <1>10, <1>11, QuietTraces DEF PlacesInv
<1>13. ActiveKept
  BY <1>1, <1>2, QuietActives
<1>14. EventsSound'
  <2>1. QueueShapes'
    BY QueuesSound, PTL
  <2>2. q \in center' /\ it \in items'[q]
    BY <1>1, <1>4
  <2>3. QED
    BY <1>7, <2>1, <2>2 DEF QueueShapes
<1>15. QED
  BY <1>2, <1>9, <1>12, <1>13, <1>14 DEF PlacesInv

(* The steps that leave the panes and the tabs alone.                        *)
LEMMA StillPlaces ==
    ASSUME GroupsInv, GroupsInv', PlacesInv, queue = <<>>, EventsSound',
           UNCHANGED <<groups, active, saved, center, panes, byItem, items, nPanes, nItems>>,
           \/ activePane' = activePane /\ (focus' = focus \/ focus' \in center')
           \/ activePane' \in center'
    PROVE  PlacesInv' /\ TracesKept /\ ActiveKept
<1>1. QuietGroups /\ TreesWhole'
  BY SamePanes DEF PlacesInv
<1>2. \A p \in Pane : p > nPanes' => p > nPanes
  OBVIOUS
<1>3. TracesKept /\ FreshEmpty' /\ MapsFresh'
  BY <1>1, <1>2, SameTabs
<1>4. ActiveKept
  BY <1>1, QuietActives
<1>5. QED
  BY <1>1, <1>3, <1>4 DEF PlacesInv

(* The operations of a user on panes, and the focus that a frame reports.    *)
LEMMA PaneOperationPlaces ==
    ASSUME GroupsInv, GroupsInv', PlacesInv, PaneOperation
    PROVE  PlacesInv' /\ TracesKept /\ ActiveKept
<1>1. (queue = <<>> => EventsSound)' /\ QueueShapes'
  <2>1. (queue = <<>> => EventsSound)'
    BY NoEventsSound, PTL
  <2>2. QueueShapes'
    BY QueuesSound, PTL
  <2>3. QED
    BY <2>1, <2>2
<1>2. ASSUME NEW p \in center, JoinEmpty(p)
      PROVE  PlacesInv' /\ TracesKept /\ ActiveKept
  <2>1. /\ queue = <<>> /\ queue' = <<EmptyPane(p, NoPane)>>
        /\ UNCHANGED <<groups, active, saved, center, panes, byItem, items, nPanes, nItems>>
        /\ activePane' = activePane /\ focus' = focus
    BY <1>2 DEF JoinEmpty, UserTurn, Idle, live, ids
  <2>2. EventsSound'
    BY <1>1, <2>1 DEF QueueShapes
  <2>3. QED
    BY <2>1, <2>2, StillPlaces
<1>3. ASSUME NEW p \in center, FocusPane(p) \/ CloneItem(p)
      PROVE  PlacesInv' /\ TracesKept /\ ActiveKept
  <2>1. /\ queue = <<>> /\ queue' = <<>>
        /\ UNCHANGED <<groups, active, saved, center, panes, byItem, items, nPanes, nItems>>
        /\ activePane' = activePane /\ (focus' = focus \/ focus' \in center')
    BY <1>3 DEF FocusPane, CloneItem, UserTurn, Idle, live, ids
  <2>2. QED
    BY <1>1, <2>1, StillPlaces
<1>4. ASSUME OpenTerminal
      PROVE  PlacesInv' /\ TracesKept /\ ActiveKept
  <2>1. /\ queue = <<>> /\ queue' = <<>>
        /\ UNCHANGED <<groups, active, saved, center, panes, byItem, items, nPanes, nItems>>
        /\ activePane' = activePane /\ focus' = focus
    BY <1>4 DEF OpenTerminal, UserTurn, Idle, live, ids
  <2>2. QED
    BY <1>1, <2>1, StillPlaces
<1>5. ASSUME DrawFocus
      PROVE  PlacesInv' /\ TracesKept /\ ActiveKept
  <2>1. /\ queue = <<>> /\ queue' = <<>>
        /\ UNCHANGED <<groups, active, saved, center, panes, byItem, items, nPanes, nItems>>
    BY <1>5 DEF DrawFocus, Idle, ids
  <2>2. CASE focus \in center
    <3>1. activePane' \in center'
      BY <1>5, <2>1, <2>2 DEF DrawFocus
    <3>2. QED
      BY <1>1, <2>1, <3>1, StillPlaces
  <2>3. CASE focus \notin center
    <3>1. activePane' = activePane
      BY <1>5, <2>3 DEF DrawFocus
    <3>2. CASE activePane \in center
      BY <1>1, <2>1, <3>1, <3>2, StillPlaces
    <3>3. CASE activePane \notin center
      <4>1. QuietGroups /\ TreesWhole'
        BY <2>1, SamePanes DEF PlacesInv
      <4>2. TracesKept /\ FreshEmpty' /\ MapsFresh'
        BY <2>1, <4>1, SameTabs
      <4>3. ~ PaneActive(LiveGroup) /\ Existing' = Existing /\ LiveGroup' = LiveGroup
        BY <2>3, <3>3, <4>1, QuietNames DEF PaneActive
      <4>4. \A g \in Existing : g # LiveGroup /\ PaneActive(g) => PaneActive(g)'
        BY <2>1, <4>3 DEF PaneActive
      <4>5. ActiveKept
        BY <4>3, <4>4, QuietNames, <4>1 DEF ActiveKept
      <4>6. QED
        BY <1>1, <2>1, <4>1, <4>2, <4>5 DEF PlacesInv
    <3>4. QED
      BY <3>2, <3>3
  <2>4. QED
    BY <2>2, <2>3
<1>6. QED
  BY <1>2, <1>3, <1>4, <1>5, SplitEmptyPlaces, SplitMovePlaces, MoveItemPlaces
     DEF PaneOperation

-----------------------------------------------------------------------------
(* Tasks and messages *)

(* The end of a close: the tab is gone for good.                             *)
LEMMA CloseDonePlaces ==
    ASSUME GroupsInv, GroupsInv', PlacesInv, NEW p \in Pane, NEW it \in Item,
           CloseDone(p, it), it \in items[p]
    PROVE  PlacesInv' /\ TracesKept /\ ActiveKept
<1>1. /\ queue = <<>> /\ items' = [items EXCEPT ![p] = @ \ {it}]
      /\ activePane' = activePane /\ focus' = focus
      /\ UNCHANGED <<groups, active, saved, center, panes, byItem, nPanes, nItems>>
  BY DEF CloseDone, TaskTurn, Idle, live, ids
<1>2. items'[p] = items[p] \ {it} /\ \A r \in Pane \ {p} : items'[r] = items[r]
  BY <1>1 DEF GroupsInv, TypeInv, TypeOK
<1>3. QuietGroups /\ TreesWhole'
  BY <1>1, SamePanes DEF PlacesInv
<1>4. it \notin Held'
  <2>1. \A r \in Pane : it \notin items'[r]
    BY <1>2, OnePane
  <2>2. TypeInv'
    BY DEF GroupsInv
  <2>3. TabsTyped'
    BY <2>2, TypesOfTabs, PTL
  <2>4. QED
    BY <2>1, <2>3 DEF TabsTyped, Held
<1>5. TabsStay(it) /\ PlaceOfNew(it) /\ nItems <= nItems'
  BY <1>1, <1>2, <1>4, Numbers DEF TabsStay, PlaceOfNew, NumbersTyped
<1>6. TracesKept /\ MapsFresh'
  BY <1>1, <1>3, <1>5, QuietTraces DEF PlacesInv
<1>7. FreshEmpty'
  BY <1>1, <1>2 DEF PlacesInv, FreshEmpty
<1>8. ActiveKept
  BY <1>1, <1>3, QuietActives
<1>9. EventsSound'
  <2>1. QueueShapes'
    BY QueuesSound, PTL
  <2>2. Removed(p, it) \in EventType /\ EmptyPane(p, NoPane) \in EventType
    BY EventTypes
  <2>3. \/ queue' = <<Removed(p, it), EmptyPane(p, NoPane)>>
        \/ queue' = <<Removed(p, it)>>
    <3>1. CASE items[p] = {it}
      <4>1. queue' = <<Removed(p, it)>> \o <<EmptyPane(p, NoPane)>>
        BY <3>1 DEF CloseDone
      <4>2. QED
        BY <2>2, <4>1, JoinedEvents
    <3>2. CASE items[p] # {it}
      <4>1. queue' = <<Removed(p, it)>> \o <<>>
        BY <3>2 DEF CloseDone
      <4>2. QED
        BY <4>1
    <3>3. QED
      BY <3>1, <3>2
  <2>4. QED
    BY <1>4, <2>1, <2>3 DEF QueueShapes
<1>10. QED
  BY <1>3, <1>6, <1>7, <1>8, <1>9 DEF PlacesInv

(* A new tab m in pane q, which may be new itself.                           *)
TabComes(q, m) ==
    /\ m = nItems + 1 /\ nItems' = m /\ nItems < MaxItems
    /\ m \in items'[q] /\ items'[q] \subseteq items[q] \cup {m}
    /\ \A r \in Pane \ {q} : items'[r] = items[r]
    /\ q \in Owned' /\ ~ (q > nPanes')
    /\ q \in panes' => Awaited(m)'

(* A new tab comes into a pane that is there, or into a new one.             *)
LEMMA TabComesPlaces ==
    ASSUME GroupsInv, GroupsInv', PlacesInv, queue = <<>>, QuietGroups, byItem' = byItem,
           \A p \in Pane : p > nPanes' => p > nPanes,
           NEW q \in Pane, NEW m, TabComes(q, m)
    PROVE  TracesKept /\ FreshEmpty' /\ MapsFresh'
<1>1. /\ m = nItems + 1 /\ nItems' = m /\ m \in items'[q] /\ items'[q] \subseteq items[q] \cup {m}
      /\ \A r \in Pane \ {q} : items'[r] = items[r]
      /\ ~ (q > nPanes') /\ (q \in panes' => Awaited(m)')
  BY DEF TabComes
<1>2. NumbersTyped /\ m \notin 1..nItems /\ m > nItems /\ nItems <= nItems'
  <2>1. NumbersTyped
    BY Numbers
  <2>2. QED
    BY <1>1, <2>1 DEF NumbersTyped
<1>3. \A r \in Pane : m \notin items[r]
  BY <1>2 DEF GroupsInv, TabsInv, ItemsApart
<1>4. TabsStay(m)
  BY <1>1 DEF TabsStay
<1>5. FreshEmpty'
  BY <1>1 DEF FreshEmpty, PlacesInv
<1>6. \A g \in Background : PanesWith(m, g) = {}
  <2>1. \A g \in Background : \A r \in PanesOf(g) : r \in Pane
    BY <1>2 DEF NumbersTyped, Background
  <2>2. QED
    BY <1>3, <2>1 DEF PanesWith
<1>7. m \notin Held
  BY <1>2 DEF NumbersTyped
<1>8. PlaceOfNew(m)
  <2>1. CASE q \in panes'
    <3>1. LiveTabsApart'
      BY LiveTabs, PTL
    <3>2. \A g \in Background' : PanesWith(m, g)' = {}
      BY <1>1, <2>1, <3>1 DEF LiveTabsApart
    <3>3. QED
      BY <1>1, <1>2, <1>6, <2>1, <3>2, QuietNames DEF PlaceOfNew
  <2>2. CASE q \notin panes'
    <3>1. \A r \in panes' : r \in Pane
      BY DEF GroupsInv, TypeInv, TypeOK
    <3>2. \A r \in panes' : m \notin items'[r]
      BY <1>1, <1>3, <2>2, <3>1
    <3>3. QED
      BY <1>7, <3>2 DEF PlaceOfNew
  <2>3. QED
    BY <2>1, <2>2
<1>9. TracesKept /\ MapsFresh'
  BY <1>2, <1>4, <1>8, QuietTraces DEF PlacesInv
<1>10. QED
  BY <1>5, <1>9

(* No map knows the new tab yet.                                             *)
LEMMA TabComesLate ==
    ASSUME GroupsInv, GroupsInv', PlacesInv, QuietGroups, TreesWhole',
           NEW q \in Pane, NEW m, TabComes(q, m)
    PROVE  Known(q, m)'
<1>1. NumbersTyped /\ m > nItems /\ m \in Item
  <2>1. NumbersTyped
    BY Numbers
  <2>2. QED
    BY <2>1 DEF NumbersTyped, TabComes
<1>2. Background' = Background /\ \A g \in Background : saved'[g].byItem = saved[g].byItem
  BY QuietNames DEF QuietGroups
<1>3. \A g \in Background : saved[g].byItem[m] = NoPane
  BY <1>1 DEF PlacesInv, MapsFresh, MapOf, Background
<1>4. CASE q \in panes'
  BY <1>4 DEF Known, TreesWhole
<1>5. CASE q \notin panes'
  <2>1. PICK g \in Background' : q \in saved'[g].panes
    BY <1>5 DEF TabComes, Owned
  <2>2. saved'[g].byItem[m] = NoPane
    BY <1>2, <1>3, <2>1
  <2>3. LateIn(q, m)'
    BY <2>1, <2>2 DEF LateIn
  <2>4. QED
    BY <2>3 DEF Known
<1>6. QED
  BY <1>4, <1>5

(* A spawned terminal comes into the pane captured for it.                   *)
LEMMA TerminalReadyPlaces ==
    ASSUME GroupsInv, GroupsInv', PlacesInv, NEW p \in Pane, TerminalReady(p), p \in Owned
    PROVE  PlacesInv' /\ TracesKept /\ ActiveKept
<1>1. PICK m : m = nItems + 1
  OBVIOUS
<1>2. /\ queue = <<>> /\ queue' = <<Added(p, m)>> /\ items' = [items EXCEPT ![p] = @ \cup {m}]
      /\ nItems' = m /\ nItems < MaxItems
      /\ UNCHANGED <<groups, active, saved, center, panes, activePane, byItem, focus, nPanes>>
  BY <1>1 DEF TerminalReady, TaskTurn, Idle, live
<1>3. QuietGroups /\ TreesWhole'
  BY <1>2, SamePanes DEF PlacesInv
<1>4. items'[p] = items[p] \cup {m} /\ \A r \in Pane \ {p} : items'[r] = items[r]
  BY <1>2 DEF GroupsInv, TypeInv, TypeOK
<1>5. p \in Owned' /\ ~ (p > nPanes')
  <2>1. Owned' = Owned
    BY <1>2 DEF Owned, Background, Existing, LiveGroup
  <2>2. PICK g \in Existing : p \in PanesOf(g)
    BY OwnedPanes DEF GroupsInv
  <2>3. ~ (p > nPanes)
    BY <2>2, Numbers DEF NumbersTyped
  <2>4. QED
    BY <1>2, <2>1, <2>3
<1>6. Awaited(m)'
  <2>1. Awaits'
    BY QueuesAwait, PTL
  <2>2. QED
    BY <1>2, <2>1 DEF Awaits
<1>7. TabComes(p, m)
  BY <1>1, <1>2, <1>4, <1>5, <1>6 DEF TabComes
<1>8. TracesKept /\ FreshEmpty' /\ MapsFresh'
  BY <1>2, <1>3, <1>7, TabComesPlaces
<1>9. ActiveKept
  BY <1>2, <1>3, QuietActives
<1>10. EventsSound'
  <2>1. QueueShapes'
    BY QueuesSound, PTL
  <2>2. Known(p, m)'
    BY <1>3, <1>7, TabComesLate
  <2>3. QED
    BY <1>2, <1>4, <2>1, <2>2 DEF QueueShapes
<1>11. QED
  BY <1>3, <1>8, <1>9, <1>10 DEF PlacesInv

(* A clone comes into a new pane of the live group.                          *)
LEMMA CloneReadyPlaces ==
    ASSUME GroupsInv, GroupsInv', PlacesInv, NEW p \in Pane, CloneReady(p)
    PROVE  PlacesInv' /\ TracesKept /\ ActiveKept
<1>1. PICK m, q : m = nItems + 1 /\ q = nPanes + 1
  OBVIOUS
<1>2. /\ queue = <<>> /\ queue' = <<Activated(q), Added(q, m)>> /\ nPanes < MaxPanes
      /\ items' = [items EXCEPT ![q] = {m}] /\ nItems' = m /\ nItems < MaxItems /\ AddPane(q)
      /\ UNCHANGED <<groups, active, saved, activePane, byItem>>
  BY <1>1 DEF CloneReady, TaskTurn, Idle
<1>3. /\ QuietGroups /\ TreesWhole' /\ focus' \in center' /\ q \in Pane /\ q \in panes'
      /\ q \in center' /\ nPanes' = q
      /\ \A r \in Pane : r > nPanes' => r > nPanes
  BY <1>1, <1>2, NewPane DEF PlacesInv
<1>4. items'[q] = {m} /\ \A r \in Pane \ {q} : items'[r] = items[r]
  BY <1>2, <1>3 DEF GroupsInv, TypeInv, TypeOK
<1>5. Awaited(m)'
  <2>1. Awaits'
    BY QueuesAwait, PTL
  <2>2. QED
    BY <1>2, <2>1 DEF Awaits
<1>6. q \in Owned' /\ ~ (q > nPanes')
  BY <1>3, SMT DEF Owned, Pane
<1>7. TabComes(q, m)
  BY <1>1, <1>2, <1>4, <1>5, <1>6 DEF TabComes
<1>8. TracesKept /\ FreshEmpty' /\ MapsFresh'
  BY <1>2, <1>3, <1>7, TabComesPlaces
<1>9. ActiveKept
  BY <1>2, <1>3, QuietActives
<1>10. EventsSound'
  <2>1. QueueShapes'
    BY QueuesSound, PTL
  <2>2. Known(q, m)' /\ Shown(q)'
    BY <1>3 DEF Known, Shown
  <2>3. QED
    BY <1>2, <1>4, <2>1, <2>2 DEF QueueShapes
<1>11. QED
  BY <1>3, <1>8, <1>9, <1>10 DEF PlacesInv

(* The tasks.                                                                *)
LEMMA TaskPlaces ==
    ASSUME GroupsInv, GroupsInv', PlacesInv, Task
    PROVE  PlacesInv' /\ TracesKept /\ ActiveKept
<1>1. CASE /\ queue = <<>> /\ queue' = <<>> /\ activePane' = activePane /\ focus' = focus
           /\ UNCHANGED <<groups, active, saved, center, panes, byItem, items, nPanes, nItems>>
  <2>1. (queue = <<>> => EventsSound)'
    BY NoEventsSound, PTL
  <2>2. QED
    BY <1>1, <2>1, StillPlaces
<1>2. ASSUME NEW p \in Pane, NEW it \in Item, CloseItem(p, it)
      PROVE  PlacesInv' /\ TracesKept /\ ActiveKept
  BY <1>1, <1>2 DEF CloseItem, UserTurn, TaskTurn, Idle, live, ids
<1>3. ASSUME NEW p \in Pane, NEW it \in Item, CloseDone(p, it)
      PROVE  PlacesInv' /\ TracesKept /\ ActiveKept
  <2>1. CASE it \in items[p]
    BY <1>3, <2>1, CloseDonePlaces
  <2>2. CASE it \notin items[p]
    BY <1>1, <1>3, <2>2 DEF CloseDone, TaskTurn, Idle, live, ids
  <2>3. QED
    BY <2>1, <2>2
<1>4. ASSUME NEW p \in Pane, TerminalReady(p)
      PROVE  PlacesInv' /\ TracesKept /\ ActiveKept
  <2>1. CASE p \in Owned
    BY <1>4, <2>1, TerminalReadyPlaces
  <2>2. CASE p \notin Owned
    BY <1>1, <1>4, <2>2 DEF TerminalReady, TaskTurn, Idle, live
  <2>3. QED
    BY <2>1, <2>2
<1>5. ASSUME NEW t \in pending, SpawnFailed(t)
      PROVE  PlacesInv' /\ TracesKept /\ ActiveKept
  BY <1>1, <1>5 DEF SpawnFailed, TaskTurn, Idle, live, ids
<1>6. QED
  BY <1>2, <1>3, <1>4, <1>5, CloneReadyPlaces DEF Task

(* A badge changes nothing else of the groups.                               *)
LEMMA RungSnapshots ==
    ASSUME GroupsInv, NEW it, NEW g \in Group
    PROVE  /\ Rung(it)[g] \in SnapshotType
           /\ Rung(it)[g].byItem = saved[g].byItem
           /\ Rung(it)[g].activePane = saved[g].activePane
           /\ Rung(it)[g].center = saved[g].center
           /\ Rung(it)[g].panes = saved[g].panes
<1>1. saved[g] \in SnapshotType
  BY DEF GroupsInv, TypeInv, TypeOK
<1>2. Rung(it)[g] = saved[g] \/ Rung(it)[g] = [saved[g] EXCEPT !.bell = TRUE]
  BY DEF Rung
<1>3. QED
  BY <1>1, <1>2 DEF SnapshotType

(* A badge is lit, and a pane may come into a group h of the background.     *)
LEMMA RungGroups ==
    ASSUME GroupsInv, TreesWhole, UNCHANGED <<groups, active, center, panes>>, NEW it,
           saved' = Rung(it)
    PROVE  QuietGroups /\ TreesWhole'
<1>1. Background' = Background /\ Background \subseteq Group
  BY OwnedPanes DEF Background, Existing, LiveGroup, GroupsInv
<1>2. \A g \in Background :
         /\ saved'[g].byItem = saved[g].byItem /\ saved'[g].activePane = saved[g].activePane
         /\ saved'[g].center = saved[g].center /\ saved'[g].panes = saved[g].panes
  BY <1>1, RungSnapshots
<1>3. QED
  BY <1>1, <1>2 DEF QuietGroups, TreesWhole

(* A pane is added to the live group, and a badge is lit.                    *)
LEMMA RungAddsPane ==
    ASSUME GroupsInv, TreesWhole, UNCHANGED <<groups, active>>, NEW it, saved' = Rung(it),
           NEW q, q > nPanes, center' = center \cup {q}, panes' = panes \cup {q}
    PROVE  QuietGroups /\ TreesWhole'
<1>1. Background' = Background /\ Background \subseteq Group
  BY OwnedPanes DEF Background, Existing, LiveGroup, GroupsInv
<1>2. \A g \in Background :
         /\ saved'[g].byItem = saved[g].byItem /\ saved'[g].activePane = saved[g].activePane
         /\ saved'[g].center = saved[g].center /\ saved'[g].panes = saved[g].panes
  BY <1>1, RungSnapshots
<1>3. QED
  BY <1>1, <1>2 DEF QuietGroups, TreesWhole

(* The same for the pane that split_pane_in_group adds in the background.    *)
LEMMA RungNewPane ==
    ASSUME GroupsInv, TreesWhole, UNCHANGED <<groups, active, center, panes>>, NEW it,
           nPanes < MaxPanes, NEW q, q = nPanes + 1, NEW h \in Background,
           saved' = [Rung(it) EXCEPT ![h].panes = @ \cup {q}, ![h].center = @ \cup {q}]
    PROVE  QuietGroups /\ TreesWhole' /\ q \in saved'[h].panes
<1>1. Background' = Background /\ Background \subseteq Group
  BY OwnedPanes DEF Background, Existing, LiveGroup, GroupsInv
<1>2. q > nPanes
  <2>1. NumbersTyped
    BY Numbers
  <2>2. QED
    BY <2>1 DEF NumbersTyped
<1>3. \A g \in Group : /\ Rung(it)[g] \in SnapshotType
                       /\ Rung(it)[g].byItem = saved[g].byItem
                       /\ Rung(it)[g].activePane = saved[g].activePane
                       /\ Rung(it)[g].center = saved[g].center
                       /\ Rung(it)[g].panes = saved[g].panes
  BY RungSnapshots
<1>4. Rung(it) \in [Group -> SnapshotType]
  BY SnapshotTypes DEF GroupsInv
<1>5. /\ \A g \in Background : g # h => saved'[g] = Rung(it)[g]
      /\ saved'[h].byItem = saved[h].byItem /\ saved'[h].activePane = saved[h].activePane
      /\ saved'[h].center = saved[h].center \cup {q}
      /\ saved'[h].panes = saved[h].panes \cup {q}
  BY <1>1, <1>3, <1>4 DEF SnapshotType
<1>6. ASSUME NEW g \in Background
      PROVE  /\ saved'[g].byItem = saved[g].byItem /\ saved'[g].activePane = saved[g].activePane
             /\ \/ saved'[g].center = saved[g].center /\ saved'[g].panes = saved[g].panes
                \/ /\ saved'[g].center = saved[g].center \cup {q}
                   /\ saved'[g].panes = saved[g].panes \cup {q}
  BY <1>1, <1>3, <1>5
<1>7. QuietGroups
  BY <1>2, <1>6 DEF QuietGroups
<1>8. TreesWhole'
  <2>1. \A g \in Background : saved'[g].center = saved'[g].panes
    BY <1>6 DEF TreesWhole
  <2>2. QED
    BY <1>1, <2>1 DEF TreesWhole
<1>9. QED
  BY <1>5, <1>7, <1>8

(* A new tab of agent a, wherever its pane q is.                             *)
LEMMA AddViewPlaces ==
    ASSUME GroupsInv, GroupsInv', PlacesInv, queue = <<>>, QuietGroups, TreesWhole',
           byItem' = byItem, activePane' = activePane, nItems < MaxItems,
           \A p \in Pane : p > nPanes' => p > nPanes,
           NEW a \in Agent, NEW q \in Pane, AddView(a, q), q \in Owned', focus' = q
    PROVE  PlacesInv' /\ TracesKept /\ ActiveKept
<1>1. PICK m : m = nItems + 1
  OBVIOUS
<1>2. /\ items' = [items EXCEPT ![q] = @ \cup {m}] /\ kind' = [kind EXCEPT ![m] = a]
      /\ queue' = <<Activated(q), Added(q, m)>> /\ nItems' = m
  BY <1>1 DEF AddView
<1>3. items'[q] = items[q] \cup {m} /\ \A r \in Pane \ {q} : items'[r] = items[r]
  BY <1>2 DEF GroupsInv, TypeInv, TypeOK
<1>4. m \in Item /\ kind'[m] = a
  <2>1. m \in Item
    BY <1>1, Numbers DEF NumbersTyped
  <2>2. QED
    BY <1>2, <2>1 DEF GroupsInv, TypeInv, TypeOK
<1>5. Awaited(m)'
  <2>1. Awaits'
    BY QueuesAwait, PTL
  <2>2. QED
    BY <1>2, <2>1 DEF Awaits
<1>6. ~ (q > nPanes')
  <2>1. PanesOfGroups'
    <3>1. TypeInv'
      BY DEF GroupsInv
    <3>2. QED
      BY <3>1, OwnedByGroups, PTL
  <2>2. NumbersTyped'
    BY Numbers, PTL
  <2>3. q \in 1..nPanes' /\ nPanes' \in Nat
    BY <2>1, <2>2 DEF PanesOfGroups, NumbersTyped
  <2>4. QED
    BY <2>3
<1>7. TabComes(q, m)
  BY <1>1, <1>2, <1>3, <1>5, <1>6 DEF TabComes
<1>8. TracesKept /\ FreshEmpty' /\ MapsFresh'
  BY <1>7, TabComesPlaces
<1>9. Shown(q)' /\ Known(q, m)'
  <2>1. Known(q, m)'
    BY <1>7, TabComesLate
  <2>2. CASE q \in panes'
    BY <2>1, <2>2 DEF Shown, TreesWhole
  <2>3. CASE q \notin panes'
    <3>1. AgentTakes(q)'
      BY <1>3, <1>4, <2>3 DEF AgentTakes
    <3>2. QED
      BY <2>1, <3>1 DEF Shown
  <2>4. QED
    BY <2>1, <2>2, <2>3
<1>10. ActiveKept
  BY <1>9, QuietActives DEF Shown
<1>11. EventsSound'
  <2>1. QueueShapes'
    BY QueuesSound, PTL
  <2>2. QED
    BY <1>2, <1>3, <1>9, <2>1 DEF QueueShapes
<1>12. QED
  BY <1>8, <1>10, <1>11 DEF PlacesInv

(* The panes of the i-th group.                                              *)
LEMMA GroupAt ==
    ASSUME GroupsInv, NEW i \in 1..Len(groups)
    PROVE  /\ i = active => PanesInGroup(i) = panes
           /\ i # active => groups[i] \in Background /\ PanesInGroup(i) = saved[groups[i]].panes
           /\ \A p \in PanesInGroup(i) : p \in Pane /\ p \in Owned /\ ~ (p > nPanes)
<1>1. i = active => PanesInGroup(i) = panes
  BY DEF PanesInGroup
<1>2. i # active => groups[i] \in Background /\ PanesInGroup(i) = saved[groups[i]].panes
  BY DEF PanesInGroup, Background, Existing, LiveGroup, GroupsInv, TypeInv, RosterInv
<1>3. \A p \in PanesInGroup(i) : p \in Owned
  BY <1>1, <1>2 DEF Owned
<1>4. \A p \in Owned : p \in Pane /\ ~ (p > nPanes)
  <2>1. NumbersTyped /\ PanesOfGroups
    BY Numbers, OwnedByGroups DEF GroupsInv
  <2>2. \A p \in Owned : p \in Pane /\ p \in 1..nPanes
    BY <2>1 DEF NumbersTyped, PanesOfGroups
  <2>3. QED
    BY <2>1, <2>2 DEF NumbersTyped
<1>5. QED
  BY <1>1, <1>2, <1>3, <1>4

(* A message of a subagent shows its tab, in the group of its sender.        *)
LEMMA SubagentPlaces ==
    ASSUME GroupsInv, GroupsInv', PlacesInv, NEW it \in Item, NEW a \in Agent,
           NEW i \in 1..Len(groups), SubagentStart(it, a, i)
    PROVE  PlacesInv' /\ TracesKept /\ ActiveKept
<1>1. /\ queue = <<>> /\ UNCHANGED <<groups, active, activePane, byItem>>
  BY DEF SubagentStart, TaskTurn, Idle
<1>2. /\ i = active => PanesInGroup(i) = panes
      /\ i # active => groups[i] \in Background /\ PanesInGroup(i) = saved[groups[i]].panes
      /\ \A p \in PanesInGroup(i) : p \in Pane /\ p \in Owned /\ ~ (p > nPanes)
  BY GroupAt
<1>3. ASSUME UNCHANGED <<center, panes>>, saved' = Rung(it)
      PROVE  QuietGroups /\ TreesWhole' /\ Owned' = Owned
  <2>1. QuietGroups /\ TreesWhole'
    BY <1>1, <1>3, RungGroups DEF PlacesInv
  <2>2. \A g \in Background : saved'[g].panes = saved[g].panes
    BY <1>3, SnapshotTypes, OwnedPanes DEF GroupsInv, Background
  <2>3. QED
    BY <1>3, <2>1, <2>2, QuietNames DEF Owned
<1>4. ASSUME NEW p \in TabsOf(a, i), queue' = <<Activated(p)>>, focus' = p, saved' = Rung(it),
             UNCHANGED <<items, kind, center, panes, nPanes, nItems>>
      PROVE  PlacesInv' /\ TracesKept /\ ActiveKept
  <2>1. p \in PanesInGroup(i) /\ \E v \in items[p] : kind[v] = a
    BY <1>4 DEF TabsOf
  <2>2. QuietGroups /\ TreesWhole' /\ Owned' = Owned
    BY <1>3, <1>4
  <2>3. TracesKept /\ FreshEmpty' /\ MapsFresh'
    BY <1>1, <1>4, <2>2, SameTabs
  <2>4. Shown(p)'
    <3>1. CASE p \in panes'
      BY <2>2, <3>1 DEF Shown, TreesWhole
    <3>2. CASE p \notin panes'
      <4>1. AgentTakes(p)'
        BY <1>2, <1>4, <2>1, <2>2, <3>2 DEF AgentTakes
      <4>2. QED
        BY <4>1 DEF Shown
    <3>3. QED
      BY <3>1, <3>2
  <2>5. ActiveKept
    BY <1>1, <1>4, <2>2, <2>4, QuietActives DEF Shown
  <2>6. EventsSound'
    <3>1. QueueShapes'
      BY QueuesSound, PTL
    <3>2. items'[p] # {}
      BY <1>4, <2>1
    <3>3. QED
      BY <1>4, <2>4, <3>1, <3>2 DEF QueueShapes
  <2>7. QED
    BY <2>2, <2>3, <2>5, <2>6 DEF PlacesInv
<1>5. ASSUME nItems < MaxItems, NEW p \in AgentPanes(i), AddView(a, p), focus' = p,
             saved' = Rung(it), UNCHANGED <<center, panes, nPanes>>
      PROVE  PlacesInv' /\ TracesKept /\ ActiveKept
  <2>1. p \in Pane /\ p \in Owned
    BY <1>2, <1>5 DEF AgentPanes
  <2>2. QuietGroups /\ TreesWhole' /\ p \in Owned'
    BY <1>3, <1>5, <2>1
  <2>3. \A r \in Pane : r > nPanes' => r > nPanes
    BY <1>5
  <2>4. QED
    BY <1>1, <1>5, <2>1, <2>2, <2>3, AddViewPlaces
<1>6. ASSUME nItems < MaxItems, nPanes < MaxPanes, NEW q, q = nPanes + 1, AddPane(q),
             AddView(a, q), saved' = Rung(it)
      PROVE  PlacesInv' /\ TracesKept /\ ActiveKept
  <2>1. q \in Pane /\ q > nPanes /\ \A r \in Pane : r > q => r > nPanes
    <3>1. NumbersTyped
      BY Numbers
    <3>2. QED
      BY <1>6, <3>1, SMT DEF NumbersTyped, Pane
  <2>2. /\ center' = center \cup {q} /\ panes' = panes \cup {q} /\ focus' = q /\ nPanes' = q
    BY <1>6 DEF AddPane
  <2>3. QuietGroups /\ TreesWhole'
    BY <1>1, <1>6, <2>1, <2>2, RungAddsPane DEF PlacesInv
  <2>4. q \in Owned'
    BY <2>2 DEF Owned
  <2>5. QED
    BY <1>1, <1>6, <2>1, <2>2, <2>3, <2>4, AddViewPlaces
<1>7. ASSUME nItems < MaxItems, nPanes < MaxPanes, i # active, NEW q, q = nPanes + 1,
             AddView(a, q), focus' = q, nPanes' = q, UNCHANGED <<center, panes>>,
             NEW h, h = groups[i],
             saved' = [Rung(it) EXCEPT ![h].panes = @ \cup {q}, ![h].center = @ \cup {q}]
      PROVE  PlacesInv' /\ TracesKept /\ ActiveKept
  <2>1. q \in Pane /\ \A r \in Pane : r > nPanes' => r > nPanes
    <3>1. NumbersTyped
      BY Numbers
    <3>2. QED
      BY <1>7, <3>1, SMT DEF NumbersTyped, Pane
  <2>2. h \in Background
    BY <1>2, <1>7
  <2>3. QuietGroups /\ TreesWhole' /\ q \in saved'[h].panes
    BY <1>1, <1>7, <2>2, RungNewPane DEF PlacesInv
  <2>4. q \in Owned'
    BY <2>2, <2>3, QuietNames DEF Owned
  <2>5. QED
    BY <1>1, <1>7, <2>1, <2>3, <2>4, AddViewPlaces
<1>8. QED
  <2>1. PICK q, h : q = nPanes + 1 /\ h = groups[i]
    OBVIOUS
  <2>2. CASE \E p \in TabsOf(a, i) :
               /\ queue' = <<Activated(p)>> /\ focus' = p /\ saved' = Rung(it)
               /\ UNCHANGED <<items, kind, center, panes, nPanes, nItems>>
    BY <1>4, <2>2
  <2>3. CASE /\ nItems < MaxItems
             /\ \E p \in AgentPanes(i) : /\ AddView(a, p) /\ focus' = p /\ saved' = Rung(it)
                                         /\ UNCHANGED <<center, panes, nPanes>>
    BY <1>5, <2>3
  <2>4. CASE /\ nItems < MaxItems /\ nPanes < MaxPanes
             /\ AddPane(q) /\ AddView(a, q) /\ saved' = Rung(it)
    BY <1>6, <2>1, <2>4
  <2>5. CASE /\ nItems < MaxItems /\ nPanes < MaxPanes /\ i # active
             /\ AddView(a, q) /\ focus' = q /\ nPanes' = q
             /\ saved' = [Rung(it) EXCEPT ![h].panes = @ \cup {q}, ![h].center = @ \cup {q}]
             /\ UNCHANGED <<center, panes>>
    BY <1>7, <2>1, <2>5
  <2>6. QED
    BY <2>1, <2>2, <2>3, <2>4, <2>5 DEF SubagentStart

(* The messages of the hooks.                                                *)
LEMMA MessagePlaces ==
    ASSUME GroupsInv, GroupsInv', PlacesInv, Message
    PROVE  PlacesInv' /\ TracesKept /\ ActiveKept
<1>1. ASSUME NEW it \in Item, NotifyBell(it)
      PROVE  PlacesInv' /\ TracesKept /\ ActiveKept
  <2>1. /\ queue = <<>> /\ queue' = <<>> /\ activePane' = activePane /\ focus' = focus
        /\ UNCHANGED <<groups, active, center, panes, byItem, items, nPanes, nItems>>
        /\ saved' = Rung(it)
    BY <1>1 DEF NotifyBell, TaskTurn, Idle, live, ids
  <2>2. QuietGroups /\ TreesWhole'
    BY <2>1, RungGroups DEF PlacesInv
  <2>3. TracesKept /\ FreshEmpty' /\ MapsFresh'
    BY <2>1, <2>2, SameTabs
  <2>4. ActiveKept
    BY <2>1, <2>2, QuietActives
  <2>5. EventsSound'
    <3>1. (queue = <<>> => EventsSound)'
      BY NoEventsSound, PTL
    <3>2. QED
      BY <2>1, <3>1
  <2>6. QED
    BY <2>2, <2>3, <2>4, <2>5 DEF PlacesInv
<1>2. QED
  BY <1>1, SubagentPlaces DEF Message

-----------------------------------------------------------------------------
(* Operations on groups *)

(* The content of g after a step, for the tabs that are left.                *)
Carried(g) ==
    /\ Content(g).panes' = Content(g).panes
    /\ Content(g).center' = Content(g).center
    /\ Content(g).activePane' = Content(g).activePane
    /\ \A it \in Item : Content(g).byItem[it]' \in {Content(g).byItem[it], NoPane}
    /\ \A it \in Held' : Content(g).byItem[it]' = Content(g).byItem[it]

(* The panes of a group are those of its content.                            *)
LEMMA ContentPanes ==
    ASSUME NEW g
    PROVE  Content(g).panes = PanesOf(g)
  BY DEF Content, PanesOf, Snapshot

(* The tabs held after groups were put away, shown or removed.               *)
LEMMA HeldAfter ==
    ASSUME GroupsInv, GroupsInv',
           \A g \in Existing' \cap Existing : Content(g).panes' = Content(g).panes,
           \A p \in Pane : items'[p] \subseteq items[p],
           \A g \in Existing' \ Existing : \A p \in PanesOf(g)' : items'[p] = {}
    PROVE  \A it \in Held' : it \in Held
<1>1. TabsOfGroups /\ TabsOfGroups'
  <2>1. TabsOfGroups
    BY HeldByGroups DEF GroupsInv
  <2>2. TypeInv'
    BY DEF GroupsInv
  <2>3. TabsOfGroups'
    BY <2>2, HeldByGroups, PTL
  <2>4. QED
    BY <2>1, <2>3
<1>2. SUFFICES ASSUME NEW it \in Held'
               PROVE  it \in Held
  OBVIOUS
<1>3. PICK g \in Existing' : \E p \in PanesOf(g)' : it \in items'[p]
  BY <1>1, <1>2 DEF TabsOfGroups
<1>4. PICK p \in PanesOf(g)' : it \in items'[p]
  BY <1>3
<1>5. g \in Existing
  BY <1>4
<1>6. p \in PanesOf(g)
  <2>1. Content(g).panes' = PanesOf(g)' /\ Content(g).panes = PanesOf(g)
    <3>1. Content(g).panes = PanesOf(g)
      BY ContentPanes
    <3>2. Content(g).panes' = PanesOf(g)'
      BY DEF Content, PanesOf, Snapshot
    <3>3. QED
      BY <3>1, <3>2
  <2>2. QED
    BY <1>4, <1>5, <2>1
<1>7. p \in Pane
  BY <1>5, <1>6, Numbers DEF NumbersTyped
<1>8. it \in items[p]
  BY <1>4, <1>7
<1>9. QED
  BY <1>1, <1>5, <1>6, <1>8 DEF TabsOfGroups

(* So are its tree and its map.                                              *)
ContentParts ==
    /\ \A g : Content(g).panes = PanesOf(g) /\ Content(g).byItem = MapOf(g)
    /\ Content(LiveGroup).center = center /\ Content(LiveGroup).activePane = activePane
    /\ \A g \in Background : /\ Content(g).center = saved[g].center
                             /\ Content(g).activePane = saved[g].activePane

(* They are, by the definitions.                                             *)
LEMMA PartsOfContent == ContentParts
<1>1. \A g : Content(g).panes = PanesOf(g) /\ Content(g).byItem = MapOf(g)
  BY DEF Content, PanesOf, MapOf, Snapshot
<1>2. Content(LiveGroup).center = center /\ Content(LiveGroup).activePane = activePane
  BY DEF Content, Snapshot
<1>3. \A g \in Background : /\ Content(g).center = saved[g].center
                            /\ Content(g).activePane = saved[g].activePane
  BY DEF Content, Background
<1>4. QED
  BY <1>1, <1>2, <1>3 DEF ContentParts

(* What holds of a group is said of its content.                             *)
Whole(g) == Content(g).center = Content(g).panes
FreshMap(g) == \A it \in Item : it > nItems => Content(g).byItem[it] = NoPane
Settled(g) == Content(g).activePane \in Content(g).center

GroupsAsContent ==
    /\ TreesWhole <=> \A g \in Existing : Whole(g)
    /\ MapsFresh <=> \A g \in Existing : FreshMap(g)
    /\ \A g \in Existing : Settled(g) => PaneActive(g)
    /\ \A g \in Existing : g # LiveGroup /\ PaneActive(g) => Settled(g)
    /\ activePane \in center => Settled(LiveGroup)

(* The parts of the invariant, group by group.                               *)
LEMMA ContentOfGroups == GroupsInv => GroupsAsContent
<1>1. SUFFICES ASSUME GroupsInv
               PROVE  GroupsAsContent
  OBVIOUS
<1>2. ContentParts
  BY PartsOfContent
<1>3. /\ LiveGroup \in Existing /\ PanesOf(LiveGroup) = panes
      /\ \A g \in Existing : g = LiveGroup \/ g \in Background
      /\ \A g \in Background : g \in Existing /\ g # LiveGroup /\ PanesOf(g) = saved[g].panes
  BY <1>1, OwnedPanes DEF GroupsInv, Background, PanesOf
<1>4. TreesWhole <=> \A g \in Existing : Whole(g)
  <2>1. Whole(LiveGroup) <=> center = panes
    BY <1>2, <1>3 DEF ContentParts, Whole
  <2>2. \A g \in Background : Whole(g) <=> saved[g].center = saved[g].panes
    BY <1>2, <1>3 DEF ContentParts, Whole
  <2>3. QED
    BY <1>3, <2>1, <2>2 DEF TreesWhole
<1>5. MapsFresh <=> \A g \in Existing : FreshMap(g)
  BY <1>2 DEF ContentParts, MapsFresh, FreshMap
<1>6. /\ PaneActive(LiveGroup) <=> activePane \in center \/ focus \in center
      /\ \A g \in Background : PaneActive(g) <=> saved[g].activePane \in saved[g].center
  BY <1>3 DEF PaneActive
<1>7. /\ Settled(LiveGroup) <=> activePane \in center
      /\ \A g \in Background : Settled(g) <=> saved[g].activePane \in saved[g].center
  BY <1>2 DEF ContentParts, Settled
<1>8. QED
  BY <1>3, <1>4, <1>5, <1>6, <1>7 DEF GroupsAsContent

(* Groups that were there before keep what they have, and new ones have      *)
(* nothing but an active pane.                                               *)
CarriedOver(g) == Carried(g) /\ \A p \in PanesOf(g) : items'[p] = items[p]

(* Nothing is lost by putting away, showing, adding and removing groups.     *)
LEMMA CarriedPlaces ==
    ASSUME GroupsInv, GroupsInv', TreesWhole, MapsFresh, nItems' = nItems,
           \A p \in Pane : items'[p] \subseteq items[p],
           \A g \in Existing' \cap Existing : CarriedOver(g),
           \A g \in Existing' \ Existing :
              /\ Whole(g)' /\ FreshMap(g)' /\ Settled(g)'
              /\ \A it : it \in Held' => TracedIn(it, g)'
              /\ \A p \in PanesOf(g)' : items'[p] = {},
           LiveGroup \in Existing' => queue = <<>> /\ (PaneActive(LiveGroup) => activePane \in center)
    PROVE  TreesWhole' /\ MapsFresh' /\ TracesKept /\ ActiveKept
<1>1. GroupsAsContent /\ GroupsAsContent' /\ ContentParts /\ ContentParts'
  <2>1. GroupsAsContent /\ ContentParts
    BY ContentOfGroups, PartsOfContent
  <2>2. GroupsAsContent'
    BY ContentOfGroups, PTL
  <2>3. ContentParts'
    BY PartsOfContent, PTL
  <2>4. QED
    BY <2>1, <2>2, <2>3
<1>2. ASSUME NEW g \in Existing', g \in Existing
      PROVE  /\ Whole(g)' /\ FreshMap(g)' /\ (Settled(g) => Settled(g)')
             /\ PanesOf(g)' = PanesOf(g)
             /\ \A it \in Held' : MapOf(g)[it]' = MapOf(g)[it]
  <2>1. PICK s, t : s = Content(g) /\ t = Content(g)'
    OBVIOUS
  <2>2. /\ t.panes = s.panes /\ t.center = s.center /\ t.activePane = s.activePane
        /\ \A it \in Item : t.byItem[it] \in {s.byItem[it], NoPane}
        /\ \A it \in Held' : t.byItem[it] = s.byItem[it]
    BY <1>2, <2>1 DEF CarriedOver, Carried
  <2>3. Whole(g) /\ FreshMap(g)
    BY <1>1, <1>2 DEF GroupsAsContent
  <2>4. Whole(g)'
    BY <2>1, <2>2, <2>3 DEF Whole
  <2>5. FreshMap(g)'
    BY <2>1, <2>2, <2>3 DEF FreshMap
  <2>6. Settled(g) => Settled(g)'
    BY <2>1, <2>2 DEF Settled
  <2>7. t.panes = PanesOf(g)' /\ s.panes = PanesOf(g) /\ t.byItem = MapOf(g)' /\ s.byItem = MapOf(g)
    BY <1>1, <2>1 DEF ContentParts
  <2>8. QED
    BY <2>2, <2>4, <2>5, <2>6, <2>7
<1>3. TreesWhole' /\ MapsFresh'
  BY <1>1, <1>2 DEF GroupsAsContent
<1>4. ActiveKept
  <2>1. ASSUME NEW g \in Existing', g \in Existing, PaneActive(g)
        PROVE  PaneActive(g)'
    <3>1. Settled(g)
      BY <1>1, <2>1 DEF GroupsAsContent
    <3>2. QED
      BY <1>1, <1>2, <2>1, <3>1 DEF GroupsAsContent
  <2>2. \A g \in Existing' : g \notin Existing => PaneActive(g)'
    BY <1>1 DEF GroupsAsContent
  <2>3. QED
    BY <2>1, <2>2 DEF ActiveKept
<1>5. \A it \in Held' : it \in Held
  <2>1. \A g \in Existing' \cap Existing : Content(g).panes' = Content(g).panes
    BY DEF CarriedOver, Carried
  <2>2. \A g \in Existing' \ Existing : \A p \in PanesOf(g)' : items'[p] = {}
    OBVIOUS
  <2>3. QED
    BY <2>1, <2>2, HeldAfter
<1>6. TracesKept
  <2>1. ASSUME NEW it \in Held', Traced(it), NEW g \in Existing'
        PROVE  TracedIn(it, g)'
    <3>1. CASE g \in Existing
      <4>1. PanesWith(it, g)' = PanesWith(it, g)
        <5>1. PanesOf(g)' = PanesOf(g) /\ \A p \in PanesOf(g) : items'[p] = items[p]
          BY <1>2, <2>1, <3>1 DEF CarriedOver
        <5>2. PanesWith(it, g)' = {p \in PanesOf(g)' : it \in items'[p]}
          BY DEF PanesWith
        <5>3. QED
          BY <5>1, <5>2 DEF PanesWith
      <4>2. MapOf(g)[it]' = MapOf(g)[it]
        BY <1>2, <2>1, <3>1
      <4>3. TracedIn(it, g) /\ ~ (g = LiveGroup /\ Awaited(it))
        BY <2>1, <3>1, NothingAwaited DEF Traced
      <4>4. QED
        BY <4>1, <4>2, <4>3, StillTraced
    <3>2. CASE g \notin Existing
      BY <2>1, <3>2
    <3>3. QED
      BY <3>1, <3>2
  <2>2. \A it \in Held' : Traced(it) => Traced(it)'
    BY <2>1 DEF Traced
  <2>3. QED
    BY <1>5, <2>2 DEF TracesKept
<1>7. QED
  BY <1>3, <1>4, <1>6

(* A group is removed: what is left is carried, and only its own is lost.    *)
LEMMA RemovalCarried ==
    ASSUME GroupsInv, GroupsInv', Len(groups) > 1, NEW i \in 1..Len(groups), RemoveGroupAt(i),
           nGroups' = nGroups
    PROVE  Existing' \subseteq Existing /\ \A g \in Existing' : CarriedOver(g)
<1>1. /\ Existing' = Existing \ {groups[i]}
      /\ groups[i] = LiveGroup <=> i = active
      /\ \A g \in Existing' : saved'[g] = saved[g]
      /\ i # active => LiveGroup' = LiveGroup /\ Load(Snapshot, PanesInGroup(i))
      /\ i = active => /\ LiveGroup' \in Existing' /\ LiveGroup' # LiveGroup
                       /\ Load(saved[LiveGroup'], panes)
      /\ groups[i] \in Existing
  BY RemovalKeepsOthers DEF GroupsInv, Existing
<1>2. PICK dropped : dropped = PanesInGroup(i)
  OBVIOUS
<1>3. Load(Content(LiveGroup'), dropped) /\ dropped = PanesOf(groups[i])
  <2>1. CASE i = active
    BY <1>1, <1>2, <2>1 DEF Content, PanesInGroup, PanesOf
  <2>2. CASE i # active
    <3>1. dropped = PanesOf(groups[i])
      BY <1>1, <1>2, <2>2 DEF PanesInGroup, PanesOf
    <3>2. Content(LiveGroup') = Snapshot
      BY <1>1, <2>2 DEF Content
    <3>3. QED
      BY <1>1, <1>2, <2>2, <3>1, <3>2
  <2>3. QED
    BY <2>1, <2>2
<1>4. /\ \A p \in dropped : p \in Pane
      /\ \A g \in Existing' : \A p \in PanesOf(g) : p \in Pane /\ p \notin dropped
  <2>1. \A g \in Existing : \A p \in PanesOf(g) : p \in Pane
    BY Numbers DEF NumbersTyped
  <2>2. \A g \in Existing' : PanesOf(g) \cap PanesOf(groups[i]) = {}
    BY <1>1 DEF GroupsInv, Separation
  <2>3. QED
    BY <1>1, <1>3, <2>1, <2>2
<1>5. /\ \A p \in Pane : p \in dropped => items'[p] = {}
      /\ \A p \in Pane : p \notin dropped => items'[p] = items[p]
  BY <1>2 DEF RemoveGroupAt
<1>6. \A it \in Held' : it \in Item /\ \A p \in dropped : it \notin items[p]
  <2>1. SUFFICES ASSUME NEW it \in Held'
                 PROVE  it \in Item /\ \A p \in dropped : it \notin items[p]
    OBVIOUS
  <2>2. TypeInv'
    BY DEF GroupsInv
  <2>3. TabsTyped'
    BY <2>2, TypesOfTabs, PTL
  <2>4. PICK q \in Pane : it \in items'[q]
    BY <2>1, <2>3 DEF TabsTyped, Held
  <2>5. q \notin dropped /\ it \in items[q]
    BY <1>5, <2>4
  <2>6. \A p \in Pane : p # q => it \notin items[p]
    BY <2>5 DEF GroupsInv, TabsInv, ItemsApart
  <2>7. it \in Item
    BY <2>1, <2>3 DEF TabsTyped
  <2>8. QED
    BY <1>4, <2>5, <2>6, <2>7
<1>7. ASSUME NEW g \in Existing'
      PROVE  Carried(g)
  <2>1. PICK s : s = Content(g)
    OBVIOUS
  <2>2. CASE g = LiveGroup'
    <3>1. Load(s, dropped)
      BY <1>3, <2>1, <2>2
    <3>2. Content(g)' = Snapshot'
      BY <2>2 DEF Content
    <3>3. /\ panes' = s.panes /\ center' = s.center /\ activePane' = s.activePane
          /\ \A it \in Item : byItem'[it] \in {s.byItem[it], NoPane}
          /\ \A it \in Held' : byItem'[it] = s.byItem[it]
      BY <1>6, <3>1 DEF Load
    <3>4. QED
      BY <2>1, <3>2, <3>3 DEF Carried, Snapshot
  <2>3. CASE g # LiveGroup'
    <3>1. g # LiveGroup
      BY <1>1, <1>7, <2>3
    <3>2. Content(g)' = saved'[g] /\ Content(g) = saved[g]
      BY <2>3, <3>1 DEF Content
    <3>3. QED
      BY <1>1, <3>2 DEF Carried
  <2>4. QED
    BY <2>2, <2>3
<1>8. \A g \in Existing' : \A p \in PanesOf(g) : items'[p] = items[p]
  BY <1>4, <1>5
<1>9. QED
  BY <1>1, <1>7, <1>8 DEF CarriedOver

(* What a user finds: every event was delivered, and the frame was drawn.    *)
LEMMA UserFinds ==
    ASSUME GroupsInv, PlacesInv, UserTurn
    PROVE  queue = <<>> /\ (PaneActive(LiveGroup) => activePane \in center)
<1>1. queue = <<>> /\ focus = NoPane
  BY DEF UserTurn, Idle
<1>2. NoPane \notin center
  BY PanesApart DEF PlacesInv, TreesWhole
<1>3. QED
  BY <1>1, <1>2 DEF PaneActive

(* remove_workspace_group                                                    *)
LEMMA RemoveGroupPlaces ==
    ASSUME GroupsInv, GroupsInv', PlacesInv, NEW i \in 1..Len(groups), RemoveGroup(i)
    PROVE  PlacesInv' /\ TracesKept /\ ActiveKept
<1>1. /\ queue = <<>> /\ queue' = <<>> /\ Len(groups) > 1
      /\ (PaneActive(LiveGroup) => activePane \in center)
      /\ RemoveGroupAt(i) /\ UNCHANGED <<nGroups, nPanes, nItems>>
  BY UserFinds DEF RemoveGroup, ids
<1>2. Existing' \subseteq Existing /\ \A g \in Existing' : CarriedOver(g)
  BY <1>1, RemovalCarried
<1>3. \A p \in Pane : items'[p] \subseteq items[p]
  BY <1>1, RemovalShrinks DEF GroupsInv
<1>4. TreesWhole' /\ MapsFresh' /\ TracesKept /\ ActiveKept
  BY <1>1, <1>2, <1>3, CarriedPlaces DEF PlacesInv
<1>5. FreshEmpty'
  BY <1>1, <1>3 DEF PlacesInv, FreshEmpty
<1>6. EventsSound'
  <2>1. (queue = <<>> => EventsSound)'
    BY NoEventsSound, PTL
  <2>2. QED
    BY <1>1, <2>1
<1>7. QED
  BY <1>4, <1>5, <1>6 DEF PlacesInv

(* activate_workspace_group: one group is put away, one is shown.            *)
LEMMA SwitchGroupPlaces ==
    ASSUME GroupsInv, GroupsInv', PlacesInv, NEW i \in 1..Len(groups), SwitchGroup(i)
    PROVE  PlacesInv' /\ TracesKept /\ ActiveKept
<1>1. /\ queue = <<>> /\ queue' = <<>> /\ (PaneActive(LiveGroup) => activePane \in center)
      /\ UNCHANGED <<groups, items, nGroups, nPanes, nItems>>
  BY UserFinds DEF SwitchGroup, ids
<1>2. PICK h : h = groups[i]
  OBVIOUS
<1>3. /\ LiveGroup' = h /\ h # LiveGroup /\ h \in Existing /\ Existing' = Existing
      /\ Existing \subseteq Group /\ LiveGroup \in Existing
  BY <1>1, <1>2, OwnedPanes DEF SwitchGroup, LiveGroup, Existing, GroupsInv, TypeInv, RosterInv
<1>4. /\ saved' = [SyncActiveGroup EXCEPT ![h].bell = FALSE] /\ Load(saved[h], {})
  BY <1>2 DEF SwitchGroup
<1>5. /\ SyncActiveGroup \in [Group -> SnapshotType]
      /\ SyncActiveGroup[LiveGroup] = Snapshot
      /\ \A g \in Group \ {LiveGroup} : SyncActiveGroup[g] = saved[g]
  BY SnapshotTypes DEF GroupsInv
<1>6. ASSUME NEW g \in Existing
      PROVE  Carried(g)
  <2>1. CASE g = h
    <3>1. Content(g)' = Snapshot' /\ Content(g) = saved[h]
      BY <1>3, <2>1 DEF Content
    <3>2. /\ panes' = saved[h].panes /\ center' = saved[h].center
          /\ activePane' = saved[h].activePane
          /\ \A it \in Item : byItem'[it] = saved[h].byItem[it]
      BY <1>4 DEF Load
    <3>3. \A it \in Held' : it \in Item
      <4>1. TypeInv'
        BY DEF GroupsInv
      <4>2. TabsTyped'
        BY <4>1, TypesOfTabs, PTL
      <4>3. QED
        BY <4>2 DEF TabsTyped
    <3>4. QED
      BY <3>1, <3>2, <3>3 DEF Carried, Snapshot
  <2>2. CASE g # h
    <3>1. Content(g)' = saved'[g]
      BY <1>3, <2>2 DEF Content
    <3>2. saved'[g] = SyncActiveGroup[g]
      BY <1>3, <1>4, <1>5, <2>2
    <3>3. SyncActiveGroup[g] = Content(g)
      BY <1>3, <1>5 DEF Content
    <3>4. QED
      BY <3>1, <3>2, <3>3 DEF Carried
  <2>3. QED
    BY <2>1, <2>2
<1>7. TreesWhole' /\ MapsFresh' /\ TracesKept /\ ActiveKept
  <2>1. \A g \in Existing : CarriedOver(g)
    BY <1>1, <1>6 DEF CarriedOver
  <2>2. \A p \in Pane : items'[p] \subseteq items[p]
    BY <1>1
  <2>3. QED
    BY <1>1, <1>3, <2>1, <2>2, CarriedPlaces DEF PlacesInv
<1>8. FreshEmpty'
  BY <1>1 DEF PlacesInv, FreshEmpty
<1>9. EventsSound'
  <2>1. (queue = <<>> => EventsSound)'
    BY NoEventsSound, PTL
  <2>2. QED
    BY <1>1, <2>1
<1>10. QED
  BY <1>7, <1>8, <1>9 DEF PlacesInv

(* move_workspace_group: the live group is put away and stays on screen.     *)
LEMMA MoveGroupPlaces ==
    ASSUME GroupsInv, GroupsInv', PlacesInv,
           NEW from \in 1..Len(groups), NEW to \in 1..Len(groups), MoveGroup(from, to)
    PROVE  PlacesInv' /\ TracesKept /\ ActiveKept
<1>1. /\ queue = <<>> /\ queue' = <<>> /\ (PaneActive(LiveGroup) => activePane \in center)
      /\ UNCHANGED <<center, panes, activePane, byItem, items, nGroups, nPanes, nItems>>
      /\ saved' = SyncActiveGroup
  BY UserFinds DEF MoveGroup, live, ids
<1>2. LiveGroup' = LiveGroup /\ Existing' = Existing /\ Existing \subseteq Group
  BY MoveKeepsRoster, OwnedPanes DEF GroupsInv, TypeInv
<1>3. \A g \in Group \ {LiveGroup} : SyncActiveGroup[g] = saved[g]
  BY SnapshotTypes DEF GroupsInv
<1>4. ASSUME NEW g \in Existing
      PROVE  Carried(g)
  <2>1. CASE g = LiveGroup
    BY <1>1, <1>2, <2>1 DEF Content, Carried, Snapshot
  <2>2. CASE g # LiveGroup
    <3>1. saved'[g] = saved[g]
      BY <1>1, <1>2, <1>3, <2>2
    <3>2. Content(g)' = saved'[g] /\ Content(g) = saved[g]
      BY <1>2, <2>2 DEF Content
    <3>3. QED
      BY <3>1, <3>2 DEF Carried
  <2>3. QED
    BY <2>1, <2>2
<1>5. TreesWhole' /\ MapsFresh' /\ TracesKept /\ ActiveKept
  <2>1. \A g \in Existing : CarriedOver(g)
    BY <1>1, <1>4 DEF CarriedOver
  <2>2. \A p \in Pane : items'[p] \subseteq items[p]
    BY <1>1
  <2>3. QED
    BY <1>1, <1>2, <2>1, <2>2, CarriedPlaces DEF PlacesInv
<1>6. FreshEmpty'
  BY <1>1 DEF PlacesInv, FreshEmpty
<1>7. EventsSound'
  <2>1. (queue = <<>> => EventsSound)'
    BY NoEventsSound, PTL
  <2>2. QED
    BY <1>1, <2>1
<1>8. QED
  BY <1>5, <1>6, <1>7 DEF PlacesInv

(* add_workspace_group: a new group with an empty pane is shown.             *)
LEMMA AddGroupPlaces ==
    ASSUME GroupsInv, GroupsInv', PlacesInv, AddGroup
    PROVE  PlacesInv' /\ TracesKept /\ ActiveKept
<1>1. /\ queue = <<>> /\ queue' = <<>> /\ (PaneActive(LiveGroup) => activePane \in center)
      /\ UNCHANGED <<items, nItems>>
  BY UserFinds DEF AddGroup, ids
<1>2. PICK h, q : h = nGroups + 1 /\ q = nPanes + 1
  OBVIOUS
<1>3. /\ h \in Group /\ LiveGroup' = h /\ h \notin Existing
      /\ Existing' = Existing \cup {h} /\ Existing \subseteq Group
  BY <1>2, AdditionKeepsRoster, OwnedPanes DEF GroupsInv, TypeInv
<1>4. /\ saved' = [SyncActiveGroup EXCEPT ![h] = Fresh(q, {})] /\ Load(Fresh(q, {}), {})
      /\ nPanes' = q /\ nPanes < MaxPanes
  BY <1>1, <1>2 DEF AddGroup
<1>5. /\ panes' = {q} /\ center' = {q} /\ activePane' = q
      /\ \A it \in Item : byItem'[it] = NoPane
  BY <1>4 DEF Load, Fresh
<1>6. q \in Pane /\ nPanes \in Nat
  BY <1>2, <1>4, Numbers DEF NumbersTyped
<1>7. items[q] = {} /\ FreshEmpty'
  BY <1>1, <1>2, <1>4, <1>6, SMT DEF PlacesInv, FreshEmpty, Pane
<1>8. /\ SyncActiveGroup \in [Group -> SnapshotType]
      /\ SyncActiveGroup[LiveGroup] = Snapshot
      /\ \A g \in Group \ {LiveGroup} : SyncActiveGroup[g] = saved[g]
  BY SnapshotTypes DEF GroupsInv
<1>9. ASSUME NEW g \in Existing
       PROVE  Carried(g)
  <2>1. g # h
    BY <1>3
  <2>2. Content(g)' = saved'[g]
    BY <1>3, <2>1 DEF Content
  <2>3. saved'[g] = SyncActiveGroup[g]
    BY <1>3, <1>4, <1>8, <2>1
  <2>4. SyncActiveGroup[g] = Content(g)
    BY <1>3, <1>8 DEF Content
  <2>5. QED
    BY <2>2, <2>3, <2>4 DEF Carried
<1>10. /\ Whole(h)' /\ FreshMap(h)' /\ Settled(h)'
       /\ \A it : it \in Held' => TracedIn(it, h)'
       /\ \A p \in PanesOf(h)' : items'[p] = {}
  <2>1. Content(h)' = Snapshot' /\ PanesOf(h)' = {q} /\ MapOf(h)' = byItem'
    BY <1>3, <1>5 DEF Content, PanesOf, MapOf
  <2>2. Whole(h)' /\ FreshMap(h)' /\ Settled(h)'
    BY <1>5, <2>1 DEF Whole, FreshMap, Settled, Snapshot
  <2>3. \A p \in PanesOf(h)' : items'[p] = {}
    BY <1>1, <1>7, <2>1
  <2>4. \A it \in Held' : it \in Item
    <3>1. NumbersTyped'
      BY Numbers, PTL
    <3>2. QED
      BY <3>1 DEF NumbersTyped
  <2>5. \A it \in Held' : TracedIn(it, h)'
    BY <1>5, <2>1, <2>3, <2>4 DEF TracedIn, PanesWith
  <2>6. QED
    BY <2>2, <2>3, <2>5
<1>11. TreesWhole' /\ MapsFresh' /\ TracesKept /\ ActiveKept
  <2>1. \A g \in Existing' \cap Existing : CarriedOver(g)
    BY <1>1, <1>9 DEF CarriedOver
  <2>2. \A p \in Pane : items'[p] \subseteq items[p]
    BY <1>1
  <2>3. \A g \in Existing' \ Existing : g = h
    BY <1>3
  <2>4. \A g \in Existing' \ Existing :
           /\ Whole(g)' /\ FreshMap(g)' /\ Settled(g)'
           /\ \A it : it \in Held' => TracedIn(it, g)'
           /\ \A p \in PanesOf(g)' : items'[p] = {}
    BY <1>10, <2>3
  <2>5. QED
    BY <1>1, <2>1, <2>2, <2>4, CarriedPlaces DEF PlacesInv
<1>12. EventsSound'
  <2>1. (queue = <<>> => EventsSound)'
    BY NoEventsSound, PTL
  <2>2. QED
    BY <1>1, <2>1
<1>13. QED
  BY <1>7, <1>11, <1>12 DEF PlacesInv

(* The operations of a user on groups.                                       *)
LEMMA GroupOperationPlaces ==
    ASSUME GroupsInv, GroupsInv', PlacesInv, GroupOperation
    PROVE  PlacesInv' /\ TracesKept /\ ActiveKept
  BY SwitchGroupPlaces, RemoveGroupPlaces, MoveGroupPlaces, AddGroupPlaces DEF GroupOperation

-----------------------------------------------------------------------------
(* Handlers *)

(* The queue once its first event is taken.                                  *)
LEMMA QueueAfter ==
    ASSUME GroupsInv, queue # <<>>, queue' = Tail(queue)
    PROVE  /\ \A i \in 1..Len(queue') : /\ i + 1 \in 1..Len(queue) /\ i + 1 # 1
                                        /\ queue'[i] = queue[i + 1]
           /\ \A i \in 1..Len(queue) : i # 1 => /\ i - 1 \in 1..Len(queue')
                                                /\ queue'[i - 1] = queue[i]
           /\ 1 \in 1..Len(queue) /\ queue[1] = Head(queue)
           /\ \A i \in 1..Len(queue) : queue[i] \in EventType
<1>1. queue \in Seq(EventType)
  BY DEF GroupsInv, TypeInv, TypeOK
<1>2. Len(queue) \in Nat /\ Len(queue) > 0 /\ Len(queue') = Len(queue) - 1
      /\ \A i \in 1..(Len(queue) - 1) : queue'[i] = queue[i + 1]
  BY <1>1
<1>3. \A i \in 1..Len(queue) : i # 1 => /\ i - 1 \in 1..Len(queue')
                                        /\ queue'[i - 1] = queue[i]
  <2>1. SUFFICES ASSUME NEW i \in 1..Len(queue), i # 1
                 PROVE  i - 1 \in 1..Len(queue') /\ queue'[i - 1] = queue[i]
    OBVIOUS
  <2>2. i - 1 \in 1..(Len(queue) - 1) /\ (i - 1) + 1 = i
    BY <1>2, <2>1
  <2>3. QED
    BY <1>2, <2>2
<1>4. 1 \in 1..Len(queue) /\ queue[1] = Head(queue)
  BY <1>1, <1>2
<1>5. \A i \in 1..Len(queue) : queue[i] \in EventType
  BY <1>1
<1>6. \A i \in 1..Len(queue') : i + 1 \in 1..Len(queue) /\ i + 1 # 1
                                 /\ queue'[i] = queue[i + 1]
  BY <1>2
<1>7. QED
  BY <1>3, <1>4, <1>5, <1>6

(* The events that are left ask nothing new, if what they ask for is kept.   *)
LEMMA EventsLeft ==
    ASSUME GroupsInv, EventsSound, queue # <<>>, queue' = Tail(queue),
           \A i \in 1..Len(queue) : i # 1 => \A e : e = queue[i] => EventSound(e)'
    PROVE  EventsSound'
<1>1. \A i \in 1..Len(queue') : /\ i + 1 \in 1..Len(queue) /\ i + 1 # 1
                                /\ queue'[i] = queue[i + 1]
  BY QueueAfter
<1>2. ASSUME NEW i \in 1..Len(queue')
      PROVE  EventSound(queue[i])'
  <2>1. PICK e : e = queue[i + 1]
    OBVIOUS
  <2>2. EventSound(e)' /\ queue'[i] = e
    BY <1>1, <2>1
  <2>3. QED
    BY <2>2 DEF EventSound
<1>3. \A i \in 1..Len(queue') : queue'[i].type # "RemovedItem"
  BY <1>1 DEF EventsSound
<1>4. QED
  BY <1>2, <1>3 DEF EventsSound

(* A handler forgets nothing that is awaited, but for its own event.         *)
LEMMA StillAwaited ==
    ASSUME GroupsInv, queue # <<>>, queue' = Tail(queue), NEW it, Awaited(it)
    PROVE  Awaited(it)' \/ (Head(queue).type = "AddItem" /\ Head(queue).item = it)
<1>1. PICK i \in 1..Len(queue) : queue[i].type = "AddItem" /\ queue[i].item = it
  BY DEF Awaited
<1>2. CASE i = 1
  BY <1>1, <1>2, QueueAfter
<1>3. CASE i # 1
  <2>1. i - 1 \in 1..Len(queue') /\ queue'[i - 1] = queue[i]
    BY <1>3, QueueAfter
  <2>2. QED
    BY <1>1, <2>1 DEF Awaited
<1>4. QED
  BY <1>2, <1>3

(* The handler of an event about tab m: the panes that go have no tab, and   *)
(* the map changes for m only.                                               *)
LEMMA HandlerPlaces ==
    ASSUME GroupsInv, GroupsInv', PlacesInv, queue # <<>>, queue' = Tail(queue),
           UNCHANGED <<groups, active, saved, items, kind, nPanes, nItems>>,
           panes' \subseteq panes, \A p \in panes \ panes' : items[p] = {}, center' = panes',
           NEW m, Head(queue).type = "AddItem" => Head(queue).item = m,
           \A it \in Item : it # m => byItem'[it] = byItem[it],
           m \in Item /\ m > nItems => byItem'[m] = NoPane,
           m \in Held' /\ Traced(m) => TracedIn(m, LiveGroup)',
           PaneActive(LiveGroup) =>
              \/ PaneActive(LiveGroup)'
              \/ FocusLeaves
              \/ activePane \notin center /\ focus \in center \ center'
    PROVE  PlacesInv' /\ TracesKept /\ ActiveKept
<1>1. /\ Existing' = Existing /\ LiveGroup' = LiveGroup /\ Background' = Background
      /\ \A g \in Existing : g # LiveGroup => g \in Background
      /\ \A g \in Background : g \in Existing /\ g # LiveGroup
      /\ LiveGroup \in Existing
  BY OwnedPanes DEF Existing, LiveGroup, Background, GroupsInv
<1>2. /\ PanesOf(LiveGroup) = panes /\ PanesOf(LiveGroup)' = panes'
      /\ MapOf(LiveGroup) = byItem /\ MapOf(LiveGroup)' = byItem'
      /\ \A g \in Background : PanesOf(g)' = PanesOf(g) /\ MapOf(g)' = MapOf(g)
  BY <1>1 DEF PanesOf, MapOf
<1>3. ASSUME NEW it, NEW g \in Existing
      PROVE  PanesWith(it, g)' = PanesWith(it, g)
  <2>1. PanesWith(it, g)' = {p \in PanesOf(g)' : it \in items'[p]}
    BY DEF PanesWith
  <2>2. CASE g = LiveGroup
    BY <1>1, <1>2, <2>1, <2>2 DEF PanesWith
  <2>3. CASE g \in Background
    BY <1>2, <2>1, <2>3 DEF PanesWith
  <2>4. QED
    BY <1>1, <2>2, <2>3
<1>4. \A it \in Held' : it \in Held /\ it \in Item
  <2>1. \A it \in Held' : it \in Held
    BY TabsAfter
  <2>2. QED
    BY <2>1, Numbers DEF NumbersTyped
<1>5. TracesKept
  <2>1. ASSUME NEW it \in Held', Traced(it), NEW g \in Existing
        PROVE  TracedIn(it, g)'
    <3>1. TracedIn(it, g) /\ PanesWith(it, g)' = PanesWith(it, g)
      BY <1>3, <2>1 DEF Traced
    <3>2. CASE g # LiveGroup
      <4>1. MapOf(g)[it]' = MapOf(g)[it]
        BY <1>1, <1>2, <3>2
      <4>2. QED
        BY <3>1, <3>2, <4>1, StillTraced
    <3>3. CASE g = LiveGroup /\ it # m
      <4>1. MapOf(g)[it]' = MapOf(g)[it]
        BY <1>1, <1>2, <1>4, <2>1, <3>3
      <4>2. Awaited(it) => Awaited(it)'
        BY <3>3, StillAwaited
      <4>3. QED
        BY <1>1, <3>1, <3>3, <4>1, <4>2, StillTraced
    <3>4. CASE g = LiveGroup /\ it = m
      <4>1. TracedIn(m, LiveGroup)'
        BY <2>1, <3>4
      <4>2. QED
        BY <1>1, <3>4, <4>1
    <3>5. QED
      BY <3>2, <3>3, <3>4
  <2>2. \A it \in Held' : Traced(it) => Traced(it)'
    BY <1>1, <2>1 DEF Traced
  <2>3. QED
    BY <1>4, <2>2 DEF TracesKept
<1>6. ActiveKept
  <2>1. \A g \in Background : PaneActive(g) => PaneActive(g)'
    BY <1>1 DEF PaneActive
  <2>2. QED
    BY <1>1, <2>1 DEF ActiveKept
<1>7. MapsFresh'
  <2>1. \A g \in Background : \A it \in Item : it > nItems => MapOf(g)'[it] = NoPane
    BY <1>1, <1>2 DEF PlacesInv, MapsFresh
  <2>2. \A it \in Item : it > nItems => byItem'[it] = NoPane
    BY <1>1, <1>2 DEF PlacesInv, MapsFresh
  <2>3. QED
    BY <1>1, <1>2, <2>1, <2>2 DEF MapsFresh
<1>8. TreesWhole' /\ FreshEmpty'
  BY <1>1 DEF PlacesInv, TreesWhole, FreshEmpty
<1>9. EventsSound'
  <2>1. \A p \in center : items[p] # {} => p \in center'
    BY DEF PlacesInv, TreesWhole
  <2>2. \A p : AgentTakes(p) => AgentTakes(p)'
    BY <1>1 DEF AgentTakes, Owned
  <2>3. \A p, it : LateIn(p, it) => LateIn(p, it)'
    BY <1>1 DEF LateIn
  <2>4. ASSUME NEW d, EventSound(d)
        PROVE  EventSound(d)'
    BY <2>1, <2>2, <2>3, <2>4 DEF EventSound
  <2>5. \A i \in 1..Len(queue) : EventSound(queue[i])
    BY DEF PlacesInv, EventsSound
  <2>6. QED
    BY <2>4, <2>5, EventsLeft DEF PlacesInv
<1>10. QED
  BY <1>5, <1>6, <1>7, <1>8, <1>9 DEF PlacesInv

(* What the first event asked for when it was emitted still holds.           *)
LEMMA FirstSound ==
    ASSUME GroupsInv, PlacesInv, queue # <<>>, queue' = Tail(queue)
    PROVE  /\ EventSound(Head(queue))
           /\ Head(queue).type = "RemovedItem" /\ Head(queue).item \in Held
              => Awaited(Head(queue).item)
<1>1. 1 \in 1..Len(queue) /\ queue[1] = Head(queue)
  BY QueueAfter
<1>2. QED
  BY <1>1 DEF PlacesInv, EventsSound

(* The map learns of a tab of the live group; of one that came into the      *)
(* background it learns in vain.                                             *)
LEMMA HandleAddItemPlaces ==
    ASSUME GroupsInv, GroupsInv', PlacesInv, HandleAddItem
    PROVE  PlacesInv' /\ TracesKept /\ ActiveKept
<1>1. PICK e, m : e = Head(queue) /\ m = e.item
  OBVIOUS
<1>2. /\ queue # <<>> /\ queue' = Tail(queue) /\ e.type = "AddItem"
      /\ byItem' = [byItem EXCEPT ![m] = e.pane]
      /\ UNCHANGED <<groups, active, saved, center, panes, activePane, items, focus, kind,
                     nPanes, nItems>>
  BY <1>1 DEF HandleAddItem, Delivered, tasks, ids
<1>3. m \in items[e.pane] /\ (e.pane \in center \/ LateIn(e.pane, m))
  BY <1>1, <1>2, FirstSound DEF EventSound
<1>4. m \in Held /\ center = panes
  <2>1. center = panes
    BY DEF PlacesInv, TreesWhole
  <2>2. m \in Held
    BY <1>2, <1>3, <2>1, TabsAfter DEF LateIn
  <2>3. QED
    BY <2>1, <2>2
<1>5. m \in Item /\ ~ (m > nItems) /\ NumbersTyped
  BY <1>4, Numbers DEF NumbersTyped
<1>6. /\ byItem'[m] = e.pane
      /\ \A it \in Item : it # m => byItem'[it] = byItem[it]
  BY <1>2, <1>5 DEF GroupsInv, TypeInv, TypeOK
<1>7. ASSUME Traced(m)
      PROVE  TracedIn(m, LiveGroup)'
  <2>1. CASE e.pane \in center
    <3>1. LiveGroup' = LiveGroup /\ PanesOf(LiveGroup)' = panes' /\ MapOf(LiveGroup)' = byItem'
      BY <1>2 DEF LiveGroup, PanesOf, MapOf
    <3>2. PanesWith(m, LiveGroup)' = {p \in PanesOf(LiveGroup)' : m \in items'[p]}
      BY DEF PanesWith
    <3>3. e.pane \in PanesWith(m, LiveGroup)'
      BY <1>2, <1>3, <1>4, <2>1, <3>1, <3>2
    <3>4. QED
      BY <1>6, <3>1, <3>3 DEF TracedIn
  <2>2. CASE LateIn(e.pane, m)
    <3>1. PICK g \in Background : e.pane \in saved[g].panes /\ saved[g].byItem[m] = NoPane
      BY <2>2 DEF LateIn
    <3>2. g \in Existing /\ g # LiveGroup
      BY DEF Background
    <3>3. PanesOf(g) = saved[g].panes /\ MapOf(g) = saved[g].byItem
      BY <3>2 DEF PanesOf, MapOf
    <3>4. e.pane \in PanesWith(m, g)
      BY <1>3, <3>1, <3>3 DEF PanesWith
    <3>5. NoPane \notin PanesWith(m, g)
      BY <1>5, <3>2 DEF PanesWith, NumbersTyped
    <3>6. ~ TracedIn(m, g)
      BY <3>1, <3>2, <3>3, <3>4, <3>5 DEF TracedIn
    <3>7. QED
      BY <1>7, <3>2, <3>6 DEF Traced
  <2>3. QED
    BY <1>3, <2>1, <2>2
<1>8. PaneActive(LiveGroup) => PaneActive(LiveGroup)'
  BY <1>2 DEF PaneActive, LiveGroup
<1>9. QED
  BY <1>1, <1>2, <1>4, <1>5, <1>6, <1>7, <1>8, HandlerPlaces

(* The active pane becomes the one of the event, which is on screen or has   *)
(* the tab of a subagent.                                                    *)
LEMMA HandleActivateItemPlaces ==
    ASSUME GroupsInv, GroupsInv', PlacesInv, HandleActivateItem
    PROVE  PlacesInv' /\ TracesKept /\ ActiveKept
<1>1. PICK e, m : e = Head(queue) /\ m = 0
  OBVIOUS
<1>2. /\ queue # <<>> /\ queue' = Tail(queue) /\ e.type = "ActivateItem"
      /\ activePane' = e.pane
      /\ UNCHANGED <<groups, active, saved, center, panes, byItem, items, focus, kind,
                     nPanes, nItems>>
  BY <1>1 DEF HandleActivateItem, Delivered, tasks, ids
<1>3. e.pane \in center \/ AgentTakes(e.pane)
  BY <1>1, <1>2, FirstSound DEF EventSound
<1>4. ASSUME PaneActive(LiveGroup)
      PROVE  PaneActive(LiveGroup)' \/ FocusLeaves
  <2>1. PaneActive(LiveGroup)' <=> activePane' \in center' \/ focus' \in center'
    BY DEF PaneActive
  <2>2. CASE e.pane \in center
    BY <1>2, <2>1, <2>2
  <2>3. CASE AgentTakes(e.pane)
    <3>1. CASE activePane' = activePane
      BY <1>2, <1>4, <2>1, <3>1 DEF PaneActive
    <3>2. CASE activePane' # activePane
      <4>1. AgentTakes(e.pane)'
        BY <1>2, <2>3 DEF AgentTakes, Owned, Background, Existing, LiveGroup
      <4>2. AgentTakes(activePane)'
        BY <1>2, <4>1 DEF AgentTakes
      <4>3. QED
        BY <3>2, <4>2 DEF FocusLeaves
    <3>3. QED
      BY <3>1, <3>2
  <2>4. QED
    BY <1>3, <2>2, <2>3
<1>5. m \notin Item
  BY <1>1 DEF Item
<1>6. m \notin Held'
  <2>1. NumbersTyped'
    BY Numbers, PTL
  <2>2. QED
    BY <1>5, <2>1 DEF NumbersTyped, Item
<1>7. center' = panes'
  BY <1>2 DEF PlacesInv, TreesWhole
<1>8. QED
  BY <1>1, <1>2, <1>4, <1>5, <1>6, <1>7, HandlerPlaces

(* An empty pane leaves the tree, and if need be the active pane moves.      *)
LEMMA HandleRemovePlaces ==
    ASSUME GroupsInv, GroupsInv', PlacesInv, HandleRemove
    PROVE  PlacesInv' /\ TracesKept /\ ActiveKept
<1>1. PICK e, p, on, m : e = Head(queue) /\ p = e.pane /\ on = e.focusOn /\ m = 0
  OBVIOUS
<1>2. /\ queue # <<>> /\ queue' = Tail(queue) /\ e.type = "Remove"
      /\ UNCHANGED <<groups, active, saved, items, kind, nPanes, nItems>>
  BY <1>1 DEF HandleRemove, Delivered, tasks, ids
<1>3. e = queue[1] /\ 1 \in 1..Len(queue)
  BY <1>1, <1>2, QueueAfter
<1>4. items[p] = {} /\ EventSound(e) /\ center = panes /\ NoPane \notin center
  <2>1. items[p] = {} /\ EventSound(e) /\ center = panes
    BY <1>1, <1>2, <1>3 DEF GroupsInv, TabsInv, EmptyRemoved, PlacesInv, EventsSound, TreesWhole
  <2>2. QED
    BY <2>1, PanesApart
<1>5. \/ /\ p \in center /\ center' = center \ {p} /\ panes' = panes \ {p}
         /\ byItem' = [it \in Item |-> IF it \in items[p] THEN NoPane ELSE byItem[it]]
         /\ Refocus(p, on)
      \/ UNCHANGED <<center, panes, byItem, focus, activePane>>
  BY <1>1 DEF HandleRemove
<1>6. /\ \A it \in Item : byItem'[it] = byItem[it]
      /\ panes' \subseteq panes /\ \A q \in panes \ panes' : items[q] = {}
      /\ center' = panes'
  BY <1>4, <1>5
<1>7. ASSUME PaneActive(LiveGroup)
      PROVE  \/ PaneActive(LiveGroup)'
             \/ activePane \notin center /\ focus \in center \ center'
  <2>1. /\ PaneActive(LiveGroup)' <=> activePane' \in center' \/ focus' \in center'
        /\ activePane \in center \/ focus \in center
    BY <1>7 DEF PaneActive
  <2>2. CASE UNCHANGED <<center, panes, byItem, focus, activePane>>
    BY <2>1, <2>2
  <2>3. CASE center' = center \ {p} /\ panes' = panes \ {p} /\ Refocus(p, on)
    <3>1. CASE on # NoPane
      <4>1. on \in center /\ items[on] # {}
        BY <1>1, <1>2, <1>4, <3>1 DEF EventSound
      <4>2. focus' = on /\ on # p
        BY <1>4, <2>3, <3>1, <4>1 DEF Refocus
      <4>3. QED
        BY <2>1, <2>3, <4>1, <4>2
    <3>2. CASE on = NoPane /\ activePane = p
      BY <1>4, <2>1, <2>3, <3>2 DEF Refocus
    <3>3. CASE on = NoPane /\ activePane # p
      <4>1. activePane' = activePane /\ focus' = focus
        BY <2>3, <3>3 DEF Refocus
      <4>2. QED
        BY <2>1, <2>3, <3>3, <4>1
    <3>4. QED
      BY <3>1, <3>2, <3>3
  <2>4. QED
    BY <1>5, <2>2, <2>3
<1>8. m \notin Item
  BY <1>1 DEF Item
<1>9. m \notin Held'
  <2>1. NumbersTyped'
    BY Numbers, PTL
  <2>2. QED
    BY <1>8, <2>1 DEF NumbersTyped, Item
<1>10. Head(queue).type # "AddItem"
  BY <1>1, <1>2
<1>11. QED
  BY <1>2, <1>6, <1>7, <1>8, <1>9, <1>10, HandlerPlaces

(* The live group is removed: a group of the background is shown, and what   *)
(* is left in the queue is about panes that are gone or in the background.   *)
LEMMA EmptyGroupPlaces ==
    ASSUME GroupsInv, GroupsInv', PlacesInv, HandleRemovedItem,
           AllPanesEmpty, Len(groups) > 1
    PROVE  PlacesInv' /\ TracesKept /\ ActiveKept
<1>1. /\ queue # <<>> /\ queue' = Tail(queue) /\ Head(queue).type = "RemovedItem"
      /\ RemoveGroupAt(active) /\ UNCHANGED <<kind, nGroups, nPanes, nItems>>
  BY DEF HandleRemovedItem, Delivered, ids
<1>2. active \in 1..Len(groups)
  BY DEF GroupsInv, TypeInv, RosterInv
<1>3. /\ Existing' = Existing \ {LiveGroup} /\ LiveGroup' \in Existing'
      /\ \A g \in Existing' : saved'[g] = saved[g]
      /\ Load(saved[LiveGroup'], panes)
  BY <1>1, <1>2, RemovalKeepsOthers DEF GroupsInv, LiveGroup
<1>4. \A g \in Existing' : CarriedOver(g)
  BY <1>1, <1>2, RemovalCarried
<1>5. \A p \in Pane : items'[p] \subseteq items[p]
  BY <1>1, RemovalShrinks DEF GroupsInv
<1>6. TreesWhole' /\ MapsFresh' /\ TracesKept /\ ActiveKept
  BY <1>1, <1>3, <1>4, <1>5, CarriedPlaces DEF PlacesInv
<1>7. FreshEmpty'
  BY <1>1, <1>5 DEF PlacesInv, FreshEmpty
<1>8. /\ \A g \in Background : g \in Existing' /\ PanesOf(g) = saved[g].panes
      /\ \A g \in Background : saved[g].center = saved[g].panes
      /\ \A p \in center : items[p] = {}
  BY <1>3 DEF Background, PanesOf, PlacesInv, TreesWhole, AllPanesEmpty
<1>9. \A g \in Background : \A p \in saved[g].panes : items'[p] = items[p]
  BY <1>4, <1>8 DEF CarriedOver
<1>10. /\ \A p \in saved[LiveGroup'].panes : p \in center' /\ p \in panes'
       /\ \A g \in Background : g # LiveGroup' => g \in Background'
  <2>1. panes' = saved[LiveGroup'].panes
    BY <1>3 DEF Load
  <2>2. center' = panes'
    BY <1>6 DEF TreesWhole
  <2>3. \A g \in Background : g # LiveGroup' => g \in Background'
    BY <1>8 DEF Background
  <2>4. QED
    BY <2>1, <2>2, <2>3
<1>11. ASSUME NEW p, AgentTakes(p)
       PROVE  items'[p] = items[p] /\ (p \in center' \/ AgentTakes(p)')
  <2>1. PICK g \in Background : p \in saved[g].panes
    BY <1>11 DEF AgentTakes, Owned
  <2>2. items'[p] = items[p]
    BY <1>9, <2>1
  <2>3. CASE g = LiveGroup'
    BY <1>10, <2>1, <2>2, <2>3
  <2>4. CASE g # LiveGroup'
    <3>1. g \in Background' /\ p \in saved'[g].panes
      BY <1>3, <1>8, <1>10, <2>1, <2>4
    <3>2. p \in Owned'
      BY <3>1 DEF Owned
    <3>3. CASE p \in panes'
      <4>1. p \in center'
        BY <1>6, <3>3 DEF TreesWhole
      <4>2. QED
        BY <2>2, <4>1
    <3>4. CASE p \notin panes'
      BY <1>1, <1>11, <2>2, <3>2, <3>4 DEF AgentTakes
    <3>5. QED
      BY <3>3, <3>4
  <2>5. QED
    BY <2>3, <2>4
<1>12. ASSUME NEW p, NEW it, LateIn(p, it)
       PROVE  items'[p] = items[p] /\ (p \in center' \/ LateIn(p, it)')
  <2>1. PICK g \in Background : p \in saved[g].panes /\ saved[g].byItem[it] = NoPane
    BY <1>12 DEF LateIn
  <2>2. items'[p] = items[p]
    BY <1>9, <2>1
  <2>3. CASE g = LiveGroup'
    BY <1>10, <2>1, <2>2, <2>3
  <2>4. CASE g # LiveGroup'
    <3>1. g \in Background' /\ saved'[g] = saved[g]
      BY <1>3, <1>8, <1>10, <2>4
    <3>2. QED
      BY <2>1, <2>2, <3>1 DEF LateIn
  <2>5. QED
    BY <2>3, <2>4
<1>13. EventsSound'
  <2>1. SUFFICES ASSUME NEW i \in 1..Len(queue), i # 1, NEW d, d = queue[i]
                 PROVE  EventSound(d)'
    BY <1>1, EventsLeft DEF PlacesInv
  <2>2. EventSound(d)
    BY <2>1 DEF PlacesInv, EventsSound
  <2>3. /\ ~ (d.type = "Remove" /\ d.focusOn # NoPane)
        /\ d.type = "ActivateItem" => AgentTakes(d.pane) /\ items[d.pane] # {}
        /\ d.type = "AddItem" => d.item \in items[d.pane] /\ LateIn(d.pane, d.item)
    BY <1>8, <2>2 DEF EventSound
  <2>4. d.type = "ActivateItem" =>
           (d.pane \in center' \/ AgentTakes(d.pane)') /\ items'[d.pane] # {}
    BY <1>11, <2>3
  <2>5. d.type = "AddItem" =>
           d.item \in items'[d.pane] /\ (d.pane \in center' \/ LateIn(d.pane, d.item)')
    BY <1>12, <2>3
  <2>6. QED
    BY <2>3, <2>4, <2>5 DEF EventSound
<1>14. QED
  BY <1>6, <1>7, <1>13 DEF PlacesInv

(* A tab is gone, or has moved and is awaited: its entry may go.             *)
LEMMA HandleRemovedItemPlaces ==
    ASSUME GroupsInv, GroupsInv', PlacesInv, HandleRemovedItem
    PROVE  PlacesInv' /\ TracesKept /\ ActiveKept
<1>1. CASE AllPanesEmpty /\ Len(groups) > 1
  BY <1>1, EmptyGroupPlaces
<1>2. CASE ~ (AllPanesEmpty /\ Len(groups) > 1)
  <2>1. PICK m, p : m = Head(queue).item /\ p = Head(queue).pane
    OBVIOUS
  <2>2. /\ queue # <<>> /\ queue' = Tail(queue) /\ Head(queue).type = "RemovedItem"
        /\ byItem' = Forget(m, p)
        /\ UNCHANGED <<groups, active, saved, center, panes, activePane, items, focus, kind,
                       nPanes, nItems>>
    BY <1>2, <2>1 DEF HandleRemovedItem, Delivered, ids
  <2>3. m \in Held => Awaited(m)
    BY <2>1, <2>2, FirstSound
  <2>4. Awaited(m) => Awaited(m)'
    BY <2>2, StillAwaited
  <2>5. /\ m \in Item => byItem'[m] \in {byItem[m], NoPane}
        /\ \A x \in Item : x # m => byItem'[x] = byItem[x]
    BY <2>2 DEF Forget, GroupsInv, TypeInv, TypeOK
  <2>6. m \in Item /\ m > nItems => byItem'[m] = NoPane
    <3>1. m \in Item /\ m > nItems => byItem[m] = NoPane
      <4>1. LiveGroup \in Existing /\ MapOf(LiveGroup) = byItem
        BY OwnedPanes DEF GroupsInv, MapOf
      <4>2. QED
        BY <4>1 DEF PlacesInv, MapsFresh
    <3>2. QED
      BY <2>5, <3>1
  <2>7. m \in Held' => TracedIn(m, LiveGroup)'
    <3>1. m \in Held' => m \in Held
      BY <2>2, TabsAfter
    <3>2. Awaited(m)' => TracedIn(m, LiveGroup)'
      BY DEF TracedIn
    <3>3. QED
      BY <2>3, <2>4, <3>1, <3>2
  <2>8. PaneActive(LiveGroup) => PaneActive(LiveGroup)'
    BY <2>2 DEF PaneActive, LiveGroup
  <2>9. center' = panes'
    BY <2>2 DEF PlacesInv, TreesWhole
  <2>10. QED
    BY <2>2, <2>5, <2>6, <2>7, <2>8, <2>9, HandlerPlaces
<1>3. QED
  BY <1>1, <1>2

-----------------------------------------------------------------------------
(* The theorems *)

(* The groups restored at start are as their snapshots say.                  *)
LEMMA InitPlaces ==
    ASSUME Init, GroupsInv
    PROVE  /\ PlacesInv
           /\ \A it \in Held : Traced(it)
           /\ \A g \in Existing : PaneActive(g)
<1>1. PICK n \in 1..RestoredGroups :
          /\ groups = [i \in 1..n |-> i]
          /\ active \in 1..n
          /\ saved = [g \in Group |-> IF g <= n THEN Fresh(g, {g}) ELSE NoSnapshot]
          /\ center = {active} /\ panes = {active} /\ activePane = active
          /\ byItem = Fresh(active, {active}).byItem
          /\ items = [p \in Pane |-> IF p <= n THEN {p} ELSE {}]
          /\ queue = <<>>
          /\ nPanes = n /\ nItems = n
  BY DEF Init
<1>2. n \in Nat /\ n <= MaxGroups /\ n <= MaxPanes /\ n <= MaxItems
  BY BoundsAssumption
<1>3. 1..n \subseteq Pane /\ 1..n \subseteq Item /\ 1..n \subseteq Group
  BY <1>2, BoundsAssumption DEF Pane, Item, Group
<1>4. LiveGroup = active /\ \A g \in Existing : g \in 1..n
  BY <1>1, <1>2 DEF LiveGroup, Existing
<1>5. ASSUME NEW g \in 1..n
      PROVE  /\ PanesOf(g) = {g} /\ items[g] = {g} /\ g # NoPane
             /\ \A it \in Item : MapOf(g)[it] = IF it = g THEN g ELSE NoPane
             /\ g # active => saved[g].panes = {g} /\ saved[g].center = {g} /\ saved[g].activePane = g
  <2>1. saved[g] = Fresh(g, {g}) /\ items[g] = {g} /\ g # NoPane
    BY <1>1, <1>2, <1>3 DEF NoPane
  <2>2. saved[g].panes = {g} /\ saved[g].center = {g} /\ saved[g].activePane = g
    BY <2>1 DEF Fresh
  <2>3. PanesOf(g) = {g}
    <3>1. CASE g = active
      BY <1>1, <1>4, <3>1 DEF PanesOf
    <3>2. CASE g # active
      BY <1>4, <2>2, <3>2 DEF PanesOf
    <3>3. QED
      BY <3>1, <3>2
  <2>4. MapOf(g) = Fresh(g, {g}).byItem
    BY <1>1, <1>4, <2>1 DEF MapOf
  <2>5. \A it \in Item : Fresh(g, {g}).byItem[it] = IF it = g THEN g ELSE NoPane
    BY DEF Fresh
  <2>6. QED
    BY <2>1, <2>2, <2>3, <2>4, <2>5
<1>6. TreesWhole /\ \A g \in Existing : PaneActive(g)
  <2>1. \A g \in Existing : g # active =>
           saved[g].center = {g} /\ saved[g].panes = {g} /\ saved[g].activePane = g
    BY <1>4, <1>5
  <2>2. center = {active} /\ panes = {active} /\ activePane = active
    BY <1>1
  <2>3. TreesWhole
    BY <1>4, <2>1, <2>2 DEF TreesWhole, Background
  <2>4. ASSUME NEW g \in Existing
        PROVE  PaneActive(g)
    <3>1. CASE g = LiveGroup
      BY <2>2, <3>1 DEF PaneActive
    <3>2. CASE g # LiveGroup
      BY <1>4, <2>1, <3>2 DEF PaneActive
    <3>3. QED
      BY <3>1, <3>2
  <2>5. QED
    BY <2>3, <2>4
<1>7. MapsFresh
  <2>1. SUFFICES ASSUME NEW g \in Existing, NEW it \in Item, it > nItems
                 PROVE  MapOf(g)[it] = NoPane
    BY DEF MapsFresh
  <2>2. g \in 1..n /\ it # g
    BY <1>1, <1>2, <1>4, <2>1
  <2>3. QED
    BY <1>5, <2>2
<1>8. ASSUME NEW it \in Held, NEW g \in Existing
      PROVE  TracedIn(it, g)
  <2>1. g \in 1..n /\ it \in Item
    BY <1>4, Numbers DEF NumbersTyped
  <2>2. PanesOf(g) = {g} /\ items[g] = {g}
    BY <1>5, <2>1
  <2>3. MapOf(g)[it] = IF it = g THEN g ELSE NoPane
    BY <1>5, <2>1
  <2>4. PanesWith(it, g) = IF it = g THEN {g} ELSE {}
    BY <2>2 DEF PanesWith
  <2>5. QED
    BY <2>3, <2>4 DEF TracedIn
<1>9. FreshEmpty
  BY <1>1, <1>2 DEF FreshEmpty, Pane
<1>10. EventsSound
  BY <1>1, NoEventsSound
<1>11. QED
  BY <1>6, <1>7, <1>8, <1>9, <1>10 DEF PlacesInv, Traced

(* Every step keeps the invariant, the traces and the active panes.          *)
LEMMA StepPlaces ==
    ASSUME GroupsInv, GroupsInv', PlacesInv, Next
    PROVE  PlacesInv' /\ TracesKept /\ ActiveKept
<1>1. CASE HandlePaneEvent
  BY <1>1, HandleAddItemPlaces, HandleActivateItemPlaces, HandleRemovedItemPlaces,
     HandleRemovePlaces DEF HandlePaneEvent
<1>2. QED
  BY <1>1, GroupOperationPlaces, PaneOperationPlaces, TaskPlaces, MessagePlaces DEF Next

(* A stuttering step changes nothing that the invariant speaks of.           *)
LEMMA StutterPlaces ==
    ASSUME PlacesInv, UNCHANGED vars
    PROVE  PlacesInv'
<1>1. /\ UNCHANGED <<groups, active, saved, center, panes, byItem, items, queue, kind,
                     nPanes, nItems>>
  BY DEF vars, live, tasks, ids
<1>2. /\ Existing' = Existing /\ LiveGroup' = LiveGroup /\ Background' = Background
      /\ Owned' = Owned /\ Held' = Held
  BY <1>1 DEF Existing, LiveGroup, Background, Owned, Held
<1>3. /\ \A it : Awaited(it) => Awaited(it)'
      /\ \A p : AgentTakes(p) => AgentTakes(p)'
      /\ \A p, it : LateIn(p, it) => LateIn(p, it)'
      /\ \A g : MapOf(g)' = MapOf(g)
  BY <1>1, <1>2 DEF Awaited, AgentTakes, LateIn, MapOf
<1>4. EventsSound'
  BY <1>1, <1>2, <1>3 DEF PlacesInv, EventsSound, EventSound
<1>5. TreesWhole' /\ FreshEmpty' /\ MapsFresh'
  BY <1>1, <1>2, <1>3 DEF PlacesInv, TreesWhole, FreshEmpty, MapsFresh
<1>6. QED
  BY <1>4, <1>5 DEF PlacesInv

(* The invariants proved so far hold together.                               *)
LEMMA GroupsInvariance == Spec => []GroupsInv
<1>1. Init => Separation
  BY InitSeparates
<1>2. TypeInv /\ Separation /\ [Next]_vars => Separation'
  BY StepSeparates
<1>3. Spec => []Separation
  BY <1>1, <1>2, TypeInvariance, PTL DEF Spec
<1>4. TypeInv /\ Separation /\ TabsInv => GroupsInv
  BY DEF GroupsInv
<1>5. QED
  BY <1>3, <1>4, TypeInvariance, TabsSound, PTL

(* Whatever users, tasks and messages do in between, a queued event finds    *)
(* what it was emitted for: its pane is on screen, or belongs to a group in  *)
(* the background that does not know the tab or shows a subagent there       *)
(* (handle_pane_event).  The panes of every group are those of its tree, and *)
(* no map has an entry for a tab that does not exist yet (capture).          *)
THEOREM PlacesInvariance == Spec => []PlacesInv
<1>1. Init /\ GroupsInv => PlacesInv
  BY InitPlaces
<1>2. GroupsInv /\ GroupsInv' /\ PlacesInv /\ [Next]_vars => PlacesInv'
  BY StepPlaces, StutterPlaces
<1>3. QED
  BY <1>1, <1>2, GroupsInvariance, PTL DEF Spec

(* Only a tab that comes into a group in the background, like a terminal     *)
(* that finishes spawning after a switch, is unknown to the item maps; of    *)
(* every other tab the map of each group stays right (handle_pane_event,     *)
(* sync_active_group, capture, remove_pane).                                 *)
THEOREM TracesFollow == Spec => OnlyLateTabsUntraced
<1>1. Init /\ GroupsInv => \A it \in Held : Traced(it)
  BY InitPlaces
<1>2. GroupsInv /\ GroupsInv' /\ PlacesInv /\ [Next]_vars => [TracesKept]_vars
  BY StepPlaces
<1>3. [TracesKept]_vars
      => [\A it \in Held' :
             \/ Traced(it)'
             \/ it \in Held /\ ~ Traced(it)
             \/ it \notin Held /\ \A p \in panes' : it \notin items'[p]]_vars
  BY DEF TracesKept
<1>4. QED
  BY <1>1, <1>2, <1>3, PlacesInvariance, GroupsInvariance, PTL DEF Spec, OnlyLateTabsUntraced

(* A group loses its active pane only to the tab of a subagent in another    *)
(* group, or when the pane to be focused in place of a removed one goes too  *)
(* (set_active_pane, force_remove_pane); a group that is put away, shown,    *)
(* added or moved has one on screen if it had one before                     *)
(* (sync_active_group, remove_workspace_group).                              *)
THEOREM ActivePaneFollows == Spec => ActivePaneKept
<1>1. Init /\ GroupsInv => \A g \in Existing : PaneActive(g)
  BY InitPlaces
<1>2. GroupsInv /\ GroupsInv' /\ PlacesInv /\ [Next]_vars => [ActiveKept]_vars
  BY StepPlaces
<1>3. [ActiveKept]_vars
      => [\A g \in Existing' :
             \/ PaneActive(g)'
             \/ g \in Existing /\ ~ PaneActive(g)
             \/ g = LiveGroup /\ FocusLeaves
             \/ g = LiveGroup /\ activePane \notin center /\ focus \in center \ center']_vars
  BY DEF ActiveKept
<1>4. QED
  BY <1>1, <1>2, <1>3, PlacesInvariance, GroupsInvariance, PTL DEF Spec, ActivePaneKept

(* A tab of which the maps are right rings at the group that has it, if that *)
(* group is in the background, and nowhere otherwise.                        *)
TracedRing ==
    \A it \in Held : Traced(it) =>
        BellTarget(it) = {g \in Background : \E p \in saved[g].panes : it \in items[p]}

(* It is found among the groups in the background as no tab is in two.       *)
LEMMA FirstOwner == GroupsInv => TracedRing
<1>1. SUFFICES ASSUME GroupsInv, NEW it \in Held, Traced(it)
               PROVE  BellTarget(it) = {g \in Background : \E p \in saved[g].panes : it \in items[p]}
  BY DEF TracedRing
<1>2. ASSUME NEW g \in Background
      PROVE  saved[g].byItem[it] # NoPane <=> \E p \in saved[g].panes : it \in items[p]
  <2>1. g \in Existing /\ g # LiveGroup
    BY DEF Background
  <2>2. PanesOf(g) = saved[g].panes /\ MapOf(g) = saved[g].byItem
    BY <2>1 DEF PanesOf, MapOf
  <2>3. /\ PanesWith(it, g) = {p \in saved[g].panes : it \in items[p]}
        /\ NoPane \notin saved[g].panes
    BY <1>1, <2>1, <2>2, Numbers DEF PanesWith, NumbersTyped
  <2>4. TracedIn(it, g)
    BY <1>1, <2>1 DEF Traced
  <2>5. QED
    BY <2>1, <2>2, <2>3, <2>4 DEF TracedIn
<1>3. ASSUME NEW j \in (1..Len(groups)) \ {active}
      PROVE  groups[j] \in Background
  BY <1>1 DEF Background, Existing, LiveGroup, GroupsInv, TypeInv, RosterInv
<1>4. ASSUME NEW g \in Background
      PROVE  \E j \in (1..Len(groups)) \ {active} : groups[j] = g
  BY DEF Background, Existing, LiveGroup
<1>5. ASSUME NEW g \in Background, NEW h \in Background,
             \E p \in saved[g].panes : it \in items[p],
             \E p \in saved[h].panes : it \in items[p]
      PROVE  g = h
  <2>1. PICK p \in saved[g].panes : it \in items[p]
    BY <1>5
  <2>2. PICK q \in saved[h].panes : it \in items[q]
    BY <1>5
  <2>3. p \in Pane /\ q \in Pane
    BY <1>1, PanesApart
  <2>4. p = q
    BY <1>1, <2>1, <2>2, <2>3, OnePane
  <2>5. PanesOf(g) = saved[g].panes /\ PanesOf(h) = saved[h].panes
    BY DEF PanesOf, Background
  <2>6. QED
    BY <1>1, <2>1, <2>2, <2>4, <2>5 DEF GroupsInv, Separation, Background
<1>6. ASSUME NEW g \in BellTarget(it)
      PROVE  g \in Background /\ \E p \in saved[g].panes : it \in items[p]
  <2>1. PICK j \in (1..Len(groups)) \ {active} : g = groups[j] /\ saved[groups[j]].byItem[it] # NoPane
    BY DEF BellTarget
  <2>2. QED
    BY <1>2, <1>3, <2>1
<1>7. ASSUME NEW g \in Background, \E p \in saved[g].panes : it \in items[p]
      PROVE  g \in BellTarget(it)
  <2>1. PICK j \in (1..Len(groups)) \ {active} : groups[j] = g
    BY <1>4
  <2>2. saved[groups[j]].byItem[it] # NoPane
    BY <1>2, <1>7, <2>1
  <2>3. ASSUME NEW k \in (1..(j - 1)) \ {active}
        PROVE  saved[groups[k]].byItem[it] = NoPane
    <3>1. k \in (1..Len(groups)) \ {active} /\ k # j
      BY <1>1 DEF GroupsInv, TypeInv, RosterInv
    <3>2. groups[k] \in Background /\ groups[k] # g
      BY <1>1, <1>3, <2>1, <3>1 DEF GroupsInv, TypeInv, RosterInv
    <3>3. QED
      BY <1>2, <1>5, <1>7, <3>2
  <2>4. QED
    BY <2>1, <2>2, <2>3 DEF BellTarget
<1>8. QED
  BY <1>6, <1>7

(* A terminal rings at its own group: notify_bell_for_item takes the first   *)
(* group in the background whose map has the tab, and there is no other.     *)
THEOREM BellsFollow == Spec => []TracedRing
  BY FirstOwner, GroupsInvariance, PTL
=============================================================================
