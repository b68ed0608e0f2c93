---------------------------- MODULE WorkspaceGroups ----------------------------
(***************************************************************************)
(* Workspace groups: one window shows one group of panes at a time and     *)
(* keeps the others as snapshots.                                          *)
(*                                                                         *)
(* The live group is spread over the fields `center`, `panes`,             *)
(* `active_pane` and `panes_by_item` of Workspace; the other groups are    *)
(* WorkspaceGroupState records.  Panes of every group stay subscribed to   *)
(* Workspace::handle_pane_event, which always works on the live fields.    *)
(* gpui queues emitted events and delivers them in order after the         *)
(* outermost update, so an operation and its handlers are separate steps   *)
(* here, and no other operation starts while `queue` is not empty.         *)
(*                                                                         *)
(* Simplifications:                                                        *)
(*  - panes, groups and items are numbered in the order they are created;  *)
(*    `panes.last()` and the first match of a scan are any member;         *)
(*  - the pane tree `center` is the set of its leaves;                     *)
(*  - the snapshot of a group that does not exist (yet) is NoSnapshot;     *)
(*  - names, colours, docks and serialization are left out.                *)
(***************************************************************************)
EXTENDS Integers, Sequences, SequencesExt

CONSTANTS
    MaxGroups,        \* bound: groups ever created
    MaxPanes,         \* bound: panes ever created
    MaxItems,         \* bound: items (terminals and subagent tabs) ever created
    MaxTasks,         \* bound: tasks under way when a user starts another one
    RestoredGroups,   \* groups of the session restored at start, one pane each
    Agent,            \* ids of Claude subagents that may be started
    Calm              \* TRUE: users wait for a spawning terminal before acting,
                      \* and tasks and messages for the frame after a focus change

ASSUME BoundsAssumption ==
    /\ MaxGroups \in Nat /\ MaxPanes \in Nat /\ MaxItems \in Nat /\ MaxTasks \in Nat
    /\ RestoredGroups \in 1..MaxGroups
    /\ RestoredGroups <= MaxPanes /\ RestoredGroups <= MaxItems

ASSUME AgentAssumption == "terminal" \notin Agent /\ Calm \in BOOLEAN

Group == 1..MaxGroups
Pane  == 1..MaxPanes
Item  == 1..MaxItems
NoPane == 0
Kind  == {"terminal"} \cup Agent

VARIABLES
    groups,      \* workspace_groups: group ids in panel order
    active,      \* active_group_index (the first group is 1)
    saved,       \* the WorkspaceGroupState of each group
    center,      \* leaves of the live pane tree
    panes,       \* live list of panes
    activePane,  \* live active_pane
    byItem,      \* live panes_by_item; NoPane where the map has no entry
    items,       \* the tabs each pane holds
    kind,        \* what an item is: a terminal, or the tab of an agent
    initialized, \* initialized_pane_ids
    queue,       \* pane events emitted and not yet delivered
    focus,       \* pane whose focus the next frame will report, or NoPane
    pending,     \* terminals being spawned, with the pane captured for them
    closing,     \* close_items tasks: <<pane, item>>
    nGroups, nPanes, nItems  \* ids handed out so far

live  == <<center, panes, activePane, byItem>>
tasks == <<pending, closing>>
ids   == <<nGroups, nPanes, nItems, kind>>
vars  == <<groups, active, saved, live, items, initialized, queue, focus, tasks, ids>>

-----------------------------------------------------------------------------
(* Events and snapshots *)

Event(type, p, it, on) == [type |-> type, pane |-> p, item |-> it, focusOn |-> on]
Added(p, it)   == Event("AddItem", p, it, NoPane)
Activated(p)   == Event("ActivateItem", p, 0, NoPane)     \* with local: true
Removed(p, it) == Event("RemovedItem", p, it, NoPane)
EmptyPane(p, on) == Event("Remove", p, 0, on)

NoItems == [it \in Item |-> NoPane]

Fresh(p, holds) ==
    [panes |-> {p}, center |-> {p}, activePane |-> p, bell |-> FALSE,
     byItem |-> [it \in Item |-> IF it \in holds THEN p ELSE NoPane]]

NoSnapshot == [panes |-> {}, center |-> {}, activePane |-> NoPane, bell |-> FALSE,
               byItem |-> NoItems]

SnapshotWithoutMap ==   \* mutant: panes_by_item is not written back
    [panes |-> panes, center |-> center, activePane |-> activePane, bell |-> FALSE,
     byItem |-> NoItems]

Snapshot ==   \* WorkspaceGroupState::capture of the live fields
    [panes |-> panes, center |-> center, activePane |-> activePane, bell |-> FALSE,
     byItem |-> byItem]

LiveGroup == groups[active]
Existing == {groups[i] : i \in 1..Len(groups)}
Background == Existing \ {LiveGroup}

PanesOf(g) == IF g = LiveGroup THEN panes ELSE saved[g].panes

MapOf(g) == IF g = LiveGroup THEN byItem ELSE saved[g].byItem

PanesInGroup(i) == IF i = active THEN panes ELSE saved[groups[i]].panes

Owned == panes \cup UNION {saved[g].panes : g \in Background}
Held  == UNION {items[p] : p \in Owned}

(* sync_active_group: the live fields are written back to their group. *)
SyncNothing == saved                                      \* mutant: dropped
SyncFirstGroup == [saved EXCEPT ![groups[1]] = Snapshot]  \* mutant: wrong index

SyncActiveGroup == [saved EXCEPT ![LiveGroup] = Snapshot]

LoadWithoutMap(s, dropped) ==   \* mutant: panes_by_item is not taken over
    /\ center' = s.center
    /\ panes' = s.panes
    /\ activePane' = s.activePane
    /\ byItem' = [it \in Item |->
                    IF \E p \in dropped : it \in items[p] THEN NoPane ELSE byItem[it]]

(* The live fields are taken from a snapshot.  `dropped` are panes that go   *)
(* away in the same step: releasing their items erases the map's entries.    *)
Load(s, dropped) ==
    /\ center' = s.center
    /\ panes' = s.panes
    /\ activePane' = s.activePane
    /\ byItem' = [it \in Item |->
                    IF \E p \in dropped : it \in items[p] THEN NoPane ELSE s.byItem[it]]

-----------------------------------------------------------------------------
(* Initial states: a restored session with 1..RestoredGroups groups.  Only   *)
(* the active group's pane went through add_pane.                            *)
Init ==
    \E n \in 1..RestoredGroups :
        /\ groups = [i \in 1..n |-> i]
        /\ active \in 1..n
        /\ saved = [g \in Group |-> IF g <= n THEN Fresh(g, {g}) ELSE NoSnapshot]
        /\ center = {active} /\ panes = {active} /\ activePane = active
        /\ byItem = Fresh(active, {active}).byItem
        /\ items = [p \in Pane |-> IF p <= n THEN {p} ELSE {}]
        /\ kind = [it \in Item |-> "terminal"]
        /\ initialized = {active}
        /\ queue = <<>> /\ focus = NoPane
        /\ pending = {} /\ closing = {}
        /\ nGroups = n /\ nPanes = n /\ nItems = n

(* Tasks and messages run when every event was delivered; key events are     *)
(* dispatched against a frame drawn after the last focus change.             *)
Idle == queue = <<>>
Startable == Cardinality(pending) + Cardinality(closing) < MaxTasks
TaskTurn == Idle /\ (Calm => focus = NoPane)
UserTurn == Idle /\ focus = NoPane /\ (Calm => pending = {})

-----------------------------------------------------------------------------
(* Operations on the list of groups *)

SwitchGroup(i) ==
    /\ UserTurn /\ i # active
    /\ saved' = [SyncActiveGroup EXCEPT ![groups[i]].bell = FALSE]
    /\ Load(saved[groups[i]], {})
    /\ active' = i
    /\ initialized' = initialized \cup saved[groups[i]].panes
    /\ focus' = saved[groups[i]].activePane
    /\ UNCHANGED <<groups, items, queue, tasks, ids>>

Deploy(p) == [task |-> "deploy", pane |-> p]
Clone(p)  == [task |-> "clone", pane |-> p]

(* The callback deploys a terminal; its task captures the new active pane.   *)
AddGroup ==
    /\ UserTurn /\ nGroups < MaxGroups /\ nPanes < MaxPanes
    /\ LET g == nGroups + 1
           p == nPanes + 1
       IN /\ saved' = [SyncActiveGroup EXCEPT ![g] = Fresh(p, {})]
          /\ groups' = Append(groups, g)
          /\ active' = Len(groups) + 1
          /\ Load(Fresh(p, {}), {})
          /\ initialized' = initialized \cup {p}
          /\ focus' = p
          /\ pending' = pending \cup {Deploy(p)}
          /\ nGroups' = g /\ nPanes' = p
    /\ UNCHANGED <<items, queue, closing, nItems, kind>>

MovedIndexStrict(from, to) ==   \* mutant: a group put just at the active index
    IF active = from THEN to
    ELSE IF from < active /\ to > active THEN active - 1
    ELSE IF from > active /\ to < active THEN active + 1
    ELSE active

MovedIndex(from, to) ==   \* where the active group is after a move
    IF active = from THEN to
    ELSE IF from < active /\ to >= active THEN active - 1
    ELSE IF from > active /\ to <= active THEN active + 1
    ELSE active

MoveGroup(from, to) ==
    /\ UserTurn /\ from # to
    /\ saved' = SyncActiveGroup
    /\ groups' = InsertAt(RemoveAt(groups, from), to, groups[from])
    /\ active' = MovedIndex(from, to)
    /\ UNCHANGED <<live, items, initialized, queue, focus, tasks, ids>>

KeptIndex(i) == active   \* mutant: the index is not decremented

ShiftedIndex(i) ==   \* where the active group is after the removal of another
    IF active > i THEN active - 1 ELSE active

FallbackIndex(i) ==   \* the group shown, by its old index, when the active one goes
    IF i > 1 THEN i - 1 ELSE 2

(* remove_workspace_group(i).  The panes taken out of initialized_pane_ids   *)
(* are those of the stored snapshot, also for the active group.              *)
RemoveGroupAt(i) ==
    LET g == groups[i]
        dropped == PanesInGroup(i)
    IN /\ groups' = RemoveAt(groups, i)
       /\ initialized' = initialized \ saved[g].panes
       /\ saved' = [saved EXCEPT ![g] = NoSnapshot]
       /\ items' = [p \in Pane |-> IF p \in dropped THEN {} ELSE items[p]]
       /\ closing' = {c \in closing : c[1] \notin dropped}
       /\ \/ /\ i = active
             /\ Load(saved[groups[FallbackIndex(i)]], dropped)
             /\ active' = IF i > 1 THEN i - 1 ELSE 1
             /\ focus' = saved[groups[FallbackIndex(i)]].activePane
          \/ /\ i # active
             /\ Load(Snapshot, dropped)
             /\ active' = ShiftedIndex(i)
             /\ UNCHANGED focus

RemoveGroup(i) ==
    /\ UserTurn /\ Len(groups) > 1
    /\ RemoveGroupAt(i)
    /\ UNCHANGED <<queue, pending, ids>>

-----------------------------------------------------------------------------
(* Operations on panes of the live group *)

(* add_pane and center.split: a new live pane that takes the focus.          *)
AddPane(q) ==
    /\ panes' = panes \cup {q}
    /\ center' = center \cup {q}
    /\ initialized' = initialized \cup {q}
    /\ focus' = q
    /\ nPanes' = q

SplitEmpty(p) ==
    /\ UserTurn /\ p \in center /\ nPanes < MaxPanes
    /\ AddPane(nPanes + 1)
    /\ UNCHANGED <<groups, active, saved, activePane, byItem, items, queue, tasks,
                   nGroups, nItems, kind>>

(* split_and_move: the source pane stays, even when it is left empty.        *)
SplitMove(p, it) ==
    LET q == nPanes + 1 IN
    /\ UserTurn /\ p \in center /\ it \in items[p] /\ nPanes < MaxPanes
    /\ AddPane(q)
    /\ items' = [items EXCEPT ![p] = @ \ {it}, ![q] = {it}]
    /\ queue' = <<Removed(p, it), Activated(q), Added(q, it)>>
    /\ UNCHANGED <<groups, active, saved, activePane, byItem, tasks, nGroups, nItems, kind>>

(* move_item: a tab dragged to another pane of the group.                    *)
MoveItem(p, q, it) ==
    /\ UserTurn /\ {p, q} \subseteq center /\ p # q /\ it \in items[p]
    /\ items' = [items EXCEPT ![p] = @ \ {it}, ![q] = @ \cup {it}]
    /\ queue' = <<Removed(p, it)>>
                \o (IF items[p] = {it} THEN <<EmptyPane(p, q)>> ELSE <<>>)
                \o <<Activated(q), Added(q, it)>>
    /\ focus' = q
    /\ UNCHANGED <<groups, active, saved, live, initialized, tasks, ids>>

(* join_pane_into_active of a pane without tabs.                             *)
JoinEmpty(p) ==
    /\ UserTurn /\ p \in center /\ items[p] = {} /\ p # activePane
    /\ queue' = <<EmptyPane(p, NoPane)>>
    /\ UNCHANGED <<groups, active, saved, live, items, initialized, focus, tasks, ids>>

FocusPane(p) ==
    /\ UserTurn /\ p \in center /\ p # activePane
    /\ focus' = p
    /\ UNCHANGED <<groups, active, saved, live, items, initialized, queue, tasks, ids>>

(* The next frame reports the focus of a pane only if it is drawn.           *)
DrawFocus ==
    /\ Idle /\ focus # NoPane
    /\ activePane' = IF focus \in center THEN focus ELSE activePane
    /\ focus' = NoPane
    /\ UNCHANGED <<groups, active, saved, center, panes, byItem, items, initialized,
                   queue, tasks, ids>>

-----------------------------------------------------------------------------
(* Tasks: closing, spawning, cloning *)

(* A tab is closed by the user, or by the exit of its shell, which finds its *)
(* pane in the live map.                                                     *)
CloseItem(p, it) ==
    /\ \/ UserTurn /\ p \in center
       \/ TaskTurn /\ byItem[it] = p
    /\ it \in items[p]
    /\ <<p, it>> \notin closing /\ Startable
    /\ closing' = closing \cup {<<p, it>>}
    /\ UNCHANGED <<groups, active, saved, live, items, initialized, queue, focus,
                   pending, ids>>

(* The end of close_items for one tab; nothing if the tab left the pane.     *)
CloseDone(p, it) ==
    /\ TaskTurn /\ <<p, it>> \in closing
    /\ closing' = closing \ {<<p, it>>}
    /\ IF it \in items[p]
       THEN /\ items' = [items EXCEPT ![p] = @ \ {it}]
            /\ queue' = <<Removed(p, it)>>
                        \o (IF items[p] = {it} THEN <<EmptyPane(p, NoPane)>> ELSE <<>>)
       ELSE UNCHANGED <<items, queue>>
    /\ UNCHANGED <<groups, active, saved, live, initialized, focus, pending, ids>>

OpenTerminal ==   \* TerminalView::deploy
    /\ UserTurn /\ Deploy(activePane) \notin pending /\ Startable
    /\ pending' = pending \cup {Deploy(activePane)}
    /\ UNCHANGED <<groups, active, saved, live, items, initialized, queue, focus,
                   closing, ids>>

(* The spawned terminal is put in the captured pane, without taking the      *)
(* focus; with a pane that was removed meanwhile, it is dropped.             *)
TerminalReady(p) ==
    /\ TaskTurn /\ Deploy(p) \in pending /\ nItems < MaxItems
    /\ pending' = pending \ {Deploy(p)}
    /\ IF p \in Owned
       THEN /\ items' = [items EXCEPT ![p] = @ \cup {nItems + 1}]
            /\ queue' = <<Added(p, nItems + 1)>>
            /\ nItems' = nItems + 1
       ELSE UNCHANGED <<items, queue, nItems>>
    /\ UNCHANGED <<groups, active, saved, live, initialized, focus, closing,
                   nGroups, nPanes, kind>>

(* Spawning or cloning may fail; the task then ends without effect.          *)
SpawnFailed(t) ==
    /\ TaskTurn /\ t \in pending
    /\ pending' = pending \ {t}
    /\ UNCHANGED <<groups, active, saved, live, items, initialized, queue, focus,
                   closing, ids>>

CloneItem(p) ==   \* split_and_clone of the terminal shown in p
    /\ UserTurn /\ p \in center
    /\ \E it \in items[p] : kind[it] = "terminal"
    /\ Clone(p) \notin pending /\ Startable
    /\ pending' = pending \cup {Clone(p)}
    /\ UNCHANGED <<groups, active, saved, live, items, initialized, queue, focus,
                   closing, ids>>

(* The clone's pane is added to the group that is live now.                  *)
CloneReady(p) ==
    LET q == nPanes + 1 IN
    /\ TaskTurn /\ Clone(p) \in pending /\ nPanes < MaxPanes /\ nItems < MaxItems
    /\ pending' = pending \ {Clone(p)}
    /\ AddPane(q)
    /\ items' = [items EXCEPT ![q] = {nItems + 1}]
    /\ queue' = <<Activated(q), Added(q, nItems + 1)>>
    /\ nItems' = nItems + 1
    /\ UNCHANGED <<groups, active, saved, activePane, byItem, closing, nGroups, kind>>

-----------------------------------------------------------------------------
(* Messages from the Claude hooks *)

(* notify_bell_for_item: the first background group whose map has the item.  *)
BellTarget(it) ==
    {groups[i] : i \in {j \in (1..Len(groups)) \ {active} :
        /\ saved[groups[j]].byItem[it] # NoPane
        /\ \A k \in (1..(j-1)) \ {active} : saved[groups[k]].byItem[it] = NoPane}}

RungOnly(it) ==   \* mutant: the other badges are cleared
    [g \in Group |-> [saved[g] EXCEPT !.bell = g \in BellTarget(it)]]

Rung(it) ==
    [g \in Group |-> IF g \in BellTarget(it) THEN [saved[g] EXCEPT !.bell = TRUE]
                     ELSE saved[g]]

NotifyBell(it) ==
    /\ TaskTurn /\ it \in Held /\ kind[it] = "terminal"
    /\ saved' = Rung(it)
    /\ UNCHANGED <<groups, active, live, items, initialized, queue, focus, tasks, ids>>

TabsOf(a, i) == {p \in PanesInGroup(i) : \E v \in items[p] : kind[v] = a}
AgentPanes(i) ==
    {p \in PanesInGroup(i) : items[p] # {} /\ \A v \in items[p] : kind[v] \in Agent}

(* A new tab of agent a in pane q, activated and focused.                    *)
AddView(a, q) ==
    /\ items' = [items EXCEPT ![q] = @ \cup {nItems + 1}]
    /\ kind' = [kind EXCEPT ![nItems + 1] = a]
    /\ queue' = <<Activated(q), Added(q, nItems + 1)>>
    /\ nItems' = nItems + 1

(* SubagentStart: mark_bell_for_notification finds the group i of the        *)
(* sender's terminal and rings its badge; open_subagent_view then shows the  *)
(* agent's tab in that group.                                                *)
SubagentStart(it, a, i) ==
    /\ TaskTurn /\ kind[it] = "terminal" /\ \E p \in PanesInGroup(i) : it \in items[p]
    /\ UNCHANGED <<groups, active, activePane, byItem, tasks, nGroups>>
    /\ \/ \E p \in TabsOf(a, i) :
            /\ queue' = <<Activated(p)>> /\ focus' = p /\ saved' = Rung(it)
            /\ UNCHANGED <<items, kind, center, panes, initialized, nPanes, nItems>>
       \/ /\ TabsOf(a, i) = {} /\ nItems < MaxItems
          /\ \/ \E p \in AgentPanes(i) :
                  /\ AddView(a, p) /\ focus' = p /\ saved' = Rung(it)
                  /\ UNCHANGED <<center, panes, initialized, nPanes>>
             \/ /\ AgentPanes(i) = {} /\ i = active /\ nPanes < MaxPanes
                /\ AddPane(nPanes + 1) /\ AddView(a, nPanes + 1) /\ saved' = Rung(it)
             \/ /\ AgentPanes(i) = {} /\ i # active /\ nPanes < MaxPanes
                /\ AddView(a, nPanes + 1) /\ focus' = nPanes + 1 /\ nPanes' = nPanes + 1
                /\ saved' = [Rung(it) EXCEPT ![groups[i]].panes = @ \cup {nPanes + 1},
                                             ![groups[i]].center = @ \cup {nPanes + 1}]
                /\ UNCHANGED <<center, panes, initialized>>

-----------------------------------------------------------------------------
(* handle_pane_event, one action per event *)

Delivered(type) == queue # <<>> /\ Head(queue).type = type /\ queue' = Tail(queue)

HandleAddItem ==
    /\ Delivered("AddItem")
    /\ byItem' = [byItem EXCEPT ![Head(queue).item] = Head(queue).pane]
    /\ UNCHANGED <<groups, active, saved, center, panes, activePane, items, initialized,
                   focus, tasks, ids>>

HandleActivateItem ==
    /\ Delivered("ActivateItem")
    /\ activePane' = Head(queue).pane
    /\ UNCHANGED <<groups, active, saved, center, panes, byItem, items, initialized,
                   focus, tasks, ids>>

EmitterEmpty == items[Head(queue).pane] = {}   \* mutant: only the emitting pane

AllPanesEmpty == \A p \in panes : items[p] = {}

(* The map's entry goes if it still names this pane, and in any case with    *)
(* the item itself.                                                          *)
Forget(it, p) ==
    [byItem EXCEPT ![it] = IF it \notin Held \/ byItem[it] = p THEN NoPane ELSE @]

HandleRemovedItem ==
    LET it == Head(queue).item
        p  == Head(queue).pane
    IN /\ Delivered("RemovedItem")
       /\ \/ /\ AllPanesEmpty /\ Len(groups) > 1
             /\ RemoveGroupAt(active)
             /\ UNCHANGED pending
          \/ /\ ~ (AllPanesEmpty /\ Len(groups) > 1)
             /\ byItem' = Forget(it, p)
             /\ pending' = IF AllPanesEmpty THEN pending \cup {Deploy(activePane)}
                           ELSE pending
             /\ UNCHANGED <<groups, active, saved, center, panes, activePane, items,
                            initialized, focus, closing>>
       /\ UNCHANGED ids

RefocusGiven(p, on) ==   \* mutant: the active pane may be the removed one
    /\ focus' = IF on # NoPane THEN on ELSE focus
    /\ UNCHANGED activePane

(* force_remove_pane: without a pane to focus, the removal of the active     *)
(* pane focuses another one, or makes it active at once under a modal.       *)
Refocus(p, on) ==
    \/ on # NoPane /\ focus' = on /\ UNCHANGED activePane
    \/ on = NoPane /\ activePane # p /\ UNCHANGED <<focus, activePane>>
    \/ /\ on = NoPane /\ activePane = p
       /\ \E q \in panes \ {p} :
            \/ focus' = q /\ UNCHANGED activePane
            \/ activePane' = q /\ UNCHANGED focus

(* remove_pane.  PaneGroup::remove refuses a pane that is not in the tree    *)
(* and the only pane of the tree.                                            *)
HandleRemove ==
    LET p  == Head(queue).pane
        on == Head(queue).focusOn
    IN /\ Delivered("Remove")
       /\ \/ /\ p \in center /\ center # {p}
             /\ center' = center \ {p}
             /\ panes' = panes \ {p}
             /\ initialized' = initialized \ {p}
             /\ byItem' = [it \in Item |-> IF it \in items[p] THEN NoPane ELSE byItem[it]]
             /\ Refocus(p, on)
          \/ /\ p \notin center \/ center = {p}
             /\ UNCHANGED <<center, panes, initialized, byItem, focus, activePane>>
       /\ UNCHANGED <<groups, active, saved, items, tasks, ids>>

-----------------------------------------------------------------------------
GroupOperation ==
    \/ \E i \in 1..Len(groups) : SwitchGroup(i) \/ RemoveGroup(i)
    \/ \E from, to \in 1..Len(groups) : MoveGroup(from, to)
    \/ AddGroup

PaneOperation ==
    \/ \E p \in center : SplitEmpty(p) \/ JoinEmpty(p) \/ FocusPane(p) \/ CloneItem(p)
    \/ \E p \in center : \E it \in items[p] :
          SplitMove(p, it) \/ \E q \in center : MoveItem(p, q, it)
    \/ DrawFocus \/ OpenTerminal

Task ==
    \/ \E p \in Pane, it \in Item : CloseItem(p, it) \/ CloseDone(p, it)
    \/ \E p \in Pane : TerminalReady(p) \/ CloneReady(p)
    \/ \E t \in pending : SpawnFailed(t)

Message ==
    \/ \E it \in Item : NotifyBell(it)
    \/ \E it \in Item, a \in Agent, i \in 1..Len(groups) : SubagentStart(it, a, i)

HandlePaneEvent ==
    HandleAddItem \/ HandleActivateItem \/ HandleRemovedItem \/ HandleRemove

Next == GroupOperation \/ PaneOperation \/ Task \/ Message \/ HandlePaneEvent

Spec == Init /\ [][Next]_vars
-----------------------------------------------------------------------------
(* Properties *)

SnapshotType ==
    [panes : SUBSET Pane, center : SUBSET Pane, activePane : Pane \cup {NoPane},
     bell : BOOLEAN, byItem : [Item -> Pane \cup {NoPane}]]

TaskType == [task : {"deploy", "clone"}, pane : Pane]

EventType ==
    [type : {"AddItem", "ActivateItem", "RemovedItem", "Remove"}, pane : Pane,
     item : Item \cup {0}, focusOn : Pane \cup {NoPane}]

(* Every variable has its type; the active index names an existing group.    *)
TypeOK ==
    /\ groups \in Seq(Group) /\ active \in 1..Len(groups)
    /\ saved \in [Group -> SnapshotType]
    /\ center \subseteq Pane /\ panes \subseteq Pane /\ activePane \in Pane
    /\ byItem \in [Item -> Pane \cup {NoPane}]
    /\ items \in [Pane -> SUBSET Item] /\ kind \in [Item -> Kind]
    /\ initialized \subseteq Pane /\ focus \in Pane \cup {NoPane}
    /\ queue \in Seq(EventType)
    /\ pending \subseteq TaskType /\ closing \subseteq Pane \X Item
    /\ nGroups \in 0..MaxGroups /\ nPanes \in 0..MaxPanes /\ nItems \in 0..MaxItems

(* No pane is in two groups: switching, moving and removing groups, late     *)
(* events of background panes and tabs opened in the background never mix    *)
(* the panes of the live group with those of a snapshot                      *)
(* (create_inactive_pane, sync_active_group, remove_workspace_group).        *)
PanesDisjoint ==
    /\ \A g \in Background : saved[g].panes \cap panes = {}
    /\ \A g, h \in Background : g # h => saved[g].panes \cap saved[h].panes = {}

(* Delivering pane events never loses a tab: the group removed because all   *)
(* its panes are empty, and the pane removed by its own Remove event, hold   *)
(* none at that time (handle_pane_event).                                    *)
HandlersKeepTabs == [][queue # <<>> => Held \subseteq Held']_vars

(* The content of a group follows the group, not the index: a step during    *)
(* which g is not the group on screen throughout keeps its panes, its active *)
(* pane and its item map, also when it is put away or shown.  Only the pane  *)
(* split_pane_in_group adds for a subagent may come in.                      *)
Content(g) == IF g = LiveGroup THEN Snapshot ELSE saved[g]
SameContent(g) ==
    /\ Content(g).activePane' = Content(g).activePane
    /\ \A it \in Held' : Content(g).byItem[it]' = Content(g).byItem[it]
    /\ \/ Content(g).panes' = Content(g).panes
       \/ Content(g).panes' = Content(g).panes \cup {nPanes'} /\ nPanes' > nPanes

GroupContentKept ==
    [][\A g \in Existing \cap Existing' :
          (g = LiveGroup /\ g = LiveGroup') \/ SameContent(g)]_vars

(* The badge of a background group stays until the group is shown or         *)
(* removed (has_notification).                                               *)
BadgeKept ==
    [][\A g \in Background :
          saved[g].bell => saved'[g].bell \/ g = LiveGroup' \/ g \notin Existing']_vars

(* A terminal that rings in the background puts the badge on its own group,  *)
(* and one in the live group puts it nowhere (notify_bell_for_item finds     *)
(* the group through panes_by_item).                                         *)
BadgeOnOwner ==
    Idle => \A it \in {i \in Held : kind[i] = "terminal"} :
        BellTarget(it) = {g \in Background : \E p \in saved[g].panes : it \in items[p]}

(* The active pane is on screen, or the focus change that will make it so    *)
(* is under way; a background group comes back with an active pane of its    *)
(* own (set_active_pane, force_remove_pane, sync_active_group).              *)
ActivePaneShown ==
    Idle => /\ activePane \in center \/ focus \in center
            /\ \A g \in Background : saved[g].activePane \in saved[g].center

(* The map of a group is right about a tab: it names the pane of the group   *)
(* that has the tab, or has no entry if none has it.  The map of the live    *)
(* group may wait for an AddItem event.                                      *)
PanesWith(it, g) == {p \in PanesOf(g) : it \in items[p]}
Awaited(it) == \E i \in 1..Len(queue) : queue[i].type = "AddItem" /\ queue[i].item = it

TracedIn(it, g) ==
    \/ MapOf(g)[it] \in PanesWith(it, g)
    \/ MapOf(g)[it] = NoPane /\ PanesWith(it, g) = {}
    \/ g = LiveGroup /\ Awaited(it)

Traced(it) == \A g \in Existing : TracedIn(it, g)

(* Only a tab that comes into a group in the background, like a terminal     *)
(* that finishes spawning after a switch, is unknown to the maps.  Of every  *)
(* other tab all maps stay right through drags, closings, switches, removals *)
(* and late events (handle_pane_event, capture), so what looks for its pane  *)
(* there, a bell or the exit of its shell, finds it.                         *)
OnlyLateTabsUntraced ==
    /\ \A it \in Held : Traced(it)
    /\ [][\A it \in Held' :
             \/ Traced(it)'
             \/ it \in Held /\ ~ Traced(it)
             \/ it \notin Held /\ \A p \in panes' : it \notin items'[p]]_vars

(* A group has an active pane that is on screen when it is shown; that of    *)
(* the live group may wait for the next frame.                               *)
PaneActive(g) ==
    IF g = LiveGroup THEN activePane \in center \/ focus \in center
    ELSE saved[g].activePane \in saved[g].center

(* The tab of a subagent in the background takes the focus or is activated.  *)
AgentTakes(p) == p \in Owned \ panes /\ \E it \in items[p] : kind[it] \in Agent
FocusLeaves ==
    \/ focus' # focus /\ AgentTakes(focus)'
    \/ activePane' # activePane /\ AgentTakes(activePane)'

(* A group loses its active pane in two ways only: the tab of a subagent in  *)
(* another group takes it, or the pane to be focused in place of a removed   *)
(* one is removed before the next frame.  No other step takes it, not when   *)
(* the group is put away, shown or moved, and a new group has one            *)
(* (set_active_pane, force_remove_pane, sync_active_group).                  *)
ActivePaneKept ==
    /\ \A g \in Existing : PaneActive(g)
    /\ [][\A g \in Existing' :
             \/ PaneActive(g)'
             \/ g \in Existing /\ ~ PaneActive(g)
             \/ g = LiveGroup /\ FocusLeaves
             \/ g = LiveGroup /\ activePane \notin center /\ focus \in center \ center']_vars

(* The list of groups behaves as the abstract roster: which group is shown   *)
(* follows identity although the code keeps an index.                        *)
Roster == INSTANCE GroupRoster WITH
              roster <- groups, shown <- LiveGroup, used <- 1..nGroups
RosterSpec == Roster!Spec

-----------------------------------------------------------------------------
(* What comments of the code say and some behaviour contradicts *)

(* view.rs:441-442: a subagent tab attaches to the sender's group "without   *)
(* changing the user's view": the active pane stays a pane on screen.        *)
SubagentKeepsUserView == Idle /\ focus = NoPane => activePane \in center
=============================================================================
