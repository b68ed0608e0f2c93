------------------------- MODULE WorkspaceGroupsProofs -------------------------
(***************************************************************************)
(* Theorems about WorkspaceGroups for every value of its constants.        *)
(*                                                                         *)
(*  RosterInvariance  the list of groups and its index are sound;          *)
(*  ImplementsRoster  the list refines GroupRoster;                        *)
(*  TypeCorrect       the types, from TypeInv: the roster invariant and    *)
(*                    "every group in the list has an active pane";        *)
(*  GroupsSeparate    no pane is in two groups, from SeparationInv.        *)
(***************************************************************************)
EXTENDS WorkspaceGroups, SequenceTheorems, TLAPS

LEMMA RemoveAtFacts ==
    ASSUME NEW S, NEW s \in Seq(S), NEW i \in 1..Len(s)
    PROVE  /\ RemoveAt(s, i) \in Seq(S)
           /\ Len(RemoveAt(s, i)) = Len(s) - 1
           /\ \A j \in 1..(Len(s) - 1) :
                 RemoveAt(s, i)[j] = IF j < i THEN s[j] ELSE s[j + 1]
<1> DEFINE a == SubSeq(s, 1, i - 1)
           b == SubSeq(s, i + 1, Len(s))
<1>1. a \in Seq(S) /\ Len(a) = i - 1 /\ \A j \in 1..(i - 1) : a[j] = s[j]
  BY SMT
<1>2. b \in Seq(S) /\ Len(b) = Len(s) - i /\ \A j \in 1..(Len(s) - i) : b[j] = s[i + j]
  BY SMT
<1> HIDE DEF a, b
<1>3. RemoveAt(s, i) = a \o b
  BY DEF RemoveAt, a, b
<1>4. /\ a \o b \in Seq(S)
      /\ Len(a \o b) = Len(a) + Len(b)
      /\ \A j \in 1..(Len(a) + Len(b)) :
            (a \o b)[j] = IF j <= Len(a) THEN a[j] ELSE b[j - Len(a)]
  BY <1>1, <1>2, ConcatProperties
<1>5. ASSUME NEW j \in 1..(Len(s) - 1)
      PROVE  (a \o b)[j] = IF j < i THEN s[j] ELSE s[j + 1]
  <2>1. CASE j < i
    BY <2>1, <1>1, <1>2, <1>4
  <2>2. CASE ~ (j < i)
    <3>1. j - (i - 1) \in 1..(Len(s) - i) /\ i + (j - (i - 1)) = j + 1
      BY <2>2
    <3>2. b[j - (i - 1)] = s[j + 1]
      BY <3>1, <1>2
    <3>3. (a \o b)[j] = b[j - (i - 1)]
      BY <2>2, <1>1, <1>2, <1>4
    <3>4. QED
      BY <2>2, <3>2, <3>3
  <2>3. QED
    BY <2>1, <2>2
<1>6. QED
  BY <1>1, <1>2, <1>3, <1>4, <1>5

LEMMA InsertAtFacts ==
    ASSUME NEW S, NEW s \in Seq(S), NEW i \in 1..(Len(s) + 1), NEW e \in S
    PROVE  /\ InsertAt(s, i, e) \in Seq(S)
           /\ Len(InsertAt(s, i, e)) = Len(s) + 1
           /\ \A j \in 1..(Len(s) + 1) :
                 InsertAt(s, i, e)[j] = IF j < i THEN s[j] ELSE IF j = i THEN e ELSE s[j - 1]
<1> DEFINE a == SubSeq(s, 1, i - 1)
           b == SubSeq(s, i, Len(s))
           c == a \o <<e>>
<1>1. a \in Seq(S) /\ Len(a) = i - 1 /\ \A j \in 1..(i - 1) : a[j] = s[j]
  BY SMT
<1>2. b \in Seq(S) /\ Len(b) = Len(s) - i + 1 /\ \A j \in 1..(Len(s) - i + 1) : b[j] = s[i + j - 1]
  BY SMT
<1> HIDE DEF a, b
<1>3. c \in Seq(S) /\ Len(c) = i /\ \A j \in 1..i : c[j] = IF j = i THEN e ELSE s[j]
  BY <1>1, SMT
<1>4. InsertAt(s, i, e) = c \o b
  BY DEF InsertAt, a, b, c
<1> HIDE DEF c
<1>5. /\ c \o b \in Seq(S)
      /\ Len(c \o b) = Len(c) + Len(b)
      /\ \A j \in 1..(Len(c) + Len(b)) :
            (c \o b)[j] = IF j <= Len(c) THEN c[j] ELSE b[j - Len(c)]
  BY <1>2, <1>3, ConcatProperties
<1>6. ASSUME NEW j \in 1..(Len(s) + 1)
      PROVE  (c \o b)[j] = IF j < i THEN s[j] ELSE IF j = i THEN e ELSE s[j - 1]
  <2>1. CASE j <= i
    BY <2>1, <1>2, <1>3, <1>5
  <2>2. CASE ~ (j <= i)
    <3>1. j - i \in 1..(Len(s) - i + 1) /\ i + (j - i) - 1 = j - 1
      BY <2>2
    <3>2. QED
      BY <2>2, <3>1, <1>2, <1>3, <1>5
  <2>3. QED
    BY <2>1, <2>2
<1>7. QED
  BY <1>2, <1>3, <1>4, <1>5, <1>6

-----------------------------------------------------------------------------
(* The list of groups *)

(* The list names existing groups, each once, and the index is in range.     *)
RosterInv ==
    /\ groups \in Seq(Group)
    /\ active \in 1..Len(groups)
    /\ nGroups \in 0..MaxGroups
    /\ \A i \in 1..Len(groups) : groups[i] \in 1..nGroups
    /\ \A i, j \in 1..Len(groups) : groups[i] = groups[j] => i = j

rosterVars == <<groups, active, nGroups>>

(* Every step is one of four operations on the list, or leaves it alone.     *)
LEMMA RosterSteps ==
    ASSUME [Next]_vars
    PROVE  \/ UNCHANGED rosterVars
           \/ \E i \in 1..Len(groups) : SwitchGroup(i)
           \/ AddGroup
           \/ \E from, to \in 1..Len(groups) : MoveGroup(from, to)
           \/ /\ UNCHANGED nGroups /\ Len(groups) > 1
              /\ \E i \in 1..Len(groups) \cup {active} : RemoveGroupAt(i)
<1>1. CASE UNCHANGED vars
  BY <1>1 DEF vars, rosterVars, ids
<1>2. CASE GroupOperation
  BY <1>2 DEF GroupOperation, RemoveGroup, ids
<1>3. CASE PaneOperation
  BY <1>3 DEF PaneOperation, SplitEmpty, JoinEmpty, FocusPane, CloneItem, SplitMove,
     MoveItem, DrawFocus, OpenTerminal, rosterVars, ids
<1>4. CASE Task
  BY <1>4 DEF Task, CloseItem, CloseDone, TerminalReady, CloneReady, SpawnFailed,
     rosterVars, ids
<1>5. CASE Message
  BY <1>5 DEF Message, NotifyBell, SubagentStart, rosterVars, ids
<1>6. CASE HandlePaneEvent
  BY <1>6 DEF HandlePaneEvent, HandleAddItem, HandleActivateItem, HandleRemovedItem,
     HandleRemove, rosterVars, ids
<1>7. QED
  BY <1>1, <1>2, <1>3, <1>4, <1>5, <1>6 DEF Next

(* Taking a group out of the list; the index follows the shown group.        *)
LEMMA RemovalKeepsRoster ==
    ASSUME RosterInv, Len(groups) > 1, NEW i \in 1..Len(groups), RemoveGroupAt(i),
           nGroups' = nGroups
    PROVE  /\ RosterInv'
           /\ LiveGroup' = IF LiveGroup = groups[i]
                           THEN IF i > 1 THEN groups[i - 1] ELSE groups[2]
                           ELSE LiveGroup
           /\ Existing' = Existing \ {groups[i]}
<1>1. /\ groups' \in Seq(Group)
      /\ Len(groups') = Len(groups) - 1
      /\ \A j \in 1..(Len(groups) - 1) :
            groups'[j] = IF j < i THEN groups[j] ELSE groups[j + 1]
  BY RemoveAtFacts DEF RosterInv, RemoveGroupAt
<1>2. active' = IF i = active THEN IF i > 1 THEN i - 1 ELSE 1 ELSE ShiftedIndex(i)
  BY DEF RemoveGroupAt
<1>3. active' \in 1..Len(groups')
  BY <1>1, <1>2 DEF RosterInv, ShiftedIndex
<1>4. \A j \in 1..Len(groups') : groups'[j] \in 1..nGroups
  BY <1>1 DEF RosterInv
<1>5. \A j, k \in 1..Len(groups') : groups'[j] = groups'[k] => j = k
  <2>1. SUFFICES ASSUME NEW j \in 1..Len(groups'), NEW k \in 1..Len(groups'),
                        groups'[j] = groups'[k]
                 PROVE  j = k
    OBVIOUS
  <2> DEFINE o(n) == IF n < i THEN n ELSE n + 1
  <2>2. /\ o(j) \in 1..Len(groups) /\ o(k) \in 1..Len(groups)
        /\ groups'[j] = groups[o(j)] /\ groups'[k] = groups[o(k)]
    BY <1>1 DEF RosterInv
  <2>3. o(j) = o(k)
    BY <2>1, <2>2 DEF RosterInv
  <2>4. QED
    BY <2>3
<1>6. LiveGroup = groups[i] <=> i = active
  BY DEF RosterInv, LiveGroup
<1>7. LiveGroup' = groups'[active']
  BY DEF LiveGroup
<1>8. Existing' = Existing \ {groups[i]}
  <2>1. ASSUME NEW j \in 1..Len(groups), j # i
        PROVE  \E k \in 1..Len(groups') : groups'[k] = groups[j]
    <3>1. CASE j < i
      <4>1. Len(groups) \in Nat
        BY DEF RosterInv
      <4>2. j \in 1..Len(groups') /\ j \in 1..(Len(groups) - 1)
        BY <1>1, <2>1, <3>1, <4>1
      <4>3. groups'[j] = groups[j]
        BY <1>1, <3>1, <4>2
      <4>4. QED
        BY <4>2, <4>3
    <3>2. CASE ~ (j < i)
      <4>1. j - 1 \in 1..Len(groups') /\ groups'[j - 1] = groups[(j - 1) + 1]
        BY <1>1, <2>1, <3>2 DEF RosterInv
      <4>2. QED
        BY <4>1
    <3>3. QED
      BY <3>1, <3>2
  <2>2. ASSUME NEW k \in 1..Len(groups')
        PROVE  \E j \in 1..Len(groups) : j # i /\ groups'[k] = groups[j]
    BY <1>1 DEF RosterInv
  <2>3. \A g : g \in Existing <=> \E j \in 1..Len(groups) : groups[j] = g
    BY DEF Existing
  <2>4. \A g : g \in Existing' <=> \E k \in 1..Len(groups') : groups'[k] = g
    BY DEF Existing
  <2>5. \A g : g \in Existing' => g \in Existing /\ g # groups[i]
    BY <2>2, <2>3, <2>4 DEF RosterInv
  <2>6. \A g : g \in Existing /\ g # groups[i] => g \in Existing'
    BY <2>1, <2>3, <2>4
  <2>7. QED
    BY <2>5, <2>6
<1>9. CASE i = active
  BY <1>1, <1>2, <1>3, <1>4, <1>5, <1>6, <1>7, <1>8, <1>9 DEF RosterInv
<1>10. CASE i # active
  BY <1>1, <1>2, <1>3, <1>4, <1>5, <1>6, <1>7, <1>8, <1>10
     DEF RosterInv, ShiftedIndex, LiveGroup
<1>11. QED
  BY <1>9, <1>10

(* Moving a group within the list.                                           *)
LEMMA MoveKeepsRoster ==
    ASSUME RosterInv, NEW from \in 1..Len(groups), NEW to \in 1..Len(groups),
           MoveGroup(from, to)
    PROVE  RosterInv' /\ LiveGroup' = LiveGroup /\ Existing' = Existing
<1> DEFINE rest == RemoveAt(groups, from)
           o(n) == IF n < from THEN n ELSE n + 1
           m(n) == IF n < to THEN o(n) ELSE IF n = to THEN from ELSE o(n - 1)
<1>1. /\ rest \in Seq(Group) /\ Len(rest) = Len(groups) - 1
      /\ \A j \in 1..(Len(groups) - 1) : rest[j] = groups[o(j)]
  BY RemoveAtFacts DEF RosterInv
<1> HIDE DEF rest
<1>2. groups' = InsertAt(rest, to, groups[from]) /\ groups[from] \in Group
  BY DEF MoveGroup, rest, RosterInv
<1>3. /\ groups' \in Seq(Group) /\ Len(groups') = Len(groups)
      /\ \A j \in 1..Len(groups) :
            groups'[j] = IF j < to THEN rest[j] ELSE IF j = to THEN groups[from] ELSE rest[j - 1]
  <2>1. to \in 1..(Len(rest) + 1) /\ Len(rest) + 1 = Len(groups)
    BY <1>1 DEF RosterInv
  <2>2. rest \in Seq(Group) /\ groups[from] \in Group
    BY <1>1, <1>2
  <2> HIDE DEF o, m
  <2> DEFINE e == groups[from]
  <2> HIDE DEF e
  <2>3. /\ InsertAt(rest, to, e) \in Seq(Group)
        /\ Len(InsertAt(rest, to, e)) = Len(rest) + 1
        /\ \A j \in 1..(Len(rest) + 1) :
              InsertAt(rest, to, e)[j] =
                 IF j < to THEN rest[j] ELSE IF j = to THEN e ELSE rest[j - 1]
    <3>1. e \in Group
      BY <2>2 DEF e
    <3>2. QED
      <4>1. \A S : \A s \in Seq(S) : \A i \in 1..(Len(s) + 1) : \A d \in S :
               /\ InsertAt(s, i, d) \in Seq(S)
               /\ Len(InsertAt(s, i, d)) = Len(s) + 1
               /\ \A j \in 1..(Len(s) + 1) : InsertAt(s, i, d)[j] =
                     IF j < i THEN s[j] ELSE IF j = i THEN d ELSE s[j - 1]
        BY InsertAtFacts
      <4>2. QED
        BY <2>1, <2>2, <3>1, <4>1
  <2>4. QED
    BY <1>2, <2>1, <2>3 DEF e
<1>4. ASSUME NEW j \in 1..Len(groups)
      PROVE  groups'[j] = groups[m(j)] /\ m(j) \in 1..Len(groups)
  BY <1>1, <1>3 DEF RosterInv
<1>5. \A j, k \in 1..Len(groups) : m(j) = m(k) => j = k
  OBVIOUS
<1>6. active' = MovedIndex(from, to) /\ nGroups' = nGroups
  BY DEF MoveGroup, ids
<1>7. active' \in 1..Len(groups) /\ m(active') = active
  BY <1>6 DEF MovedIndex, RosterInv
<1>8. LiveGroup' = LiveGroup
  BY <1>4, <1>7 DEF LiveGroup
<1>9. \A j, k \in 1..Len(groups) : groups'[j] = groups'[k] => j = k
  <2>1. SUFFICES ASSUME NEW j \in 1..Len(groups), NEW k \in 1..Len(groups),
                        groups'[j] = groups'[k]
                 PROVE  j = k
    OBVIOUS
  <2>2. groups[m(j)] = groups[m(k)] /\ m(j) \in 1..Len(groups) /\ m(k) \in 1..Len(groups)
    BY <1>4, <2>1
  <2>3. m(j) = m(k)
    BY <2>2 DEF RosterInv
  <2>4. QED
    BY <1>5, <2>3
<1>10. \A j \in 1..Len(groups) : groups'[j] \in 1..nGroups
  BY <1>4 DEF RosterInv
<1>11. Existing' = Existing
  <2>1. \A j \in 1..Len(groups) : \E k \in 1..Len(groups) : m(k) = j
    <3>1. SUFFICES ASSUME NEW j \in 1..Len(groups)
                   PROVE  \E k \in 1..Len(groups) : m(k) = j
      OBVIOUS
    <3> DEFINE r == IF j < from THEN j ELSE j - 1
               k == IF j = from THEN to ELSE IF r < to THEN r ELSE r + 1
    <3>2. k \in 1..Len(groups) /\ m(k) = j
      BY DEF RosterInv
    <3>3. QED
      BY <3>2
  <2> HIDE DEF m
  <2>2. \A g : g \in Existing <=> \E j \in 1..Len(groups) : groups[j] = g
    BY DEF Existing
  <2>3. \A g : g \in Existing' <=> \E k \in 1..Len(groups) : groups'[k] = g
    BY <1>3 DEF Existing
  <2>4. ASSUME NEW g \in Existing
        PROVE  g \in Existing'
    <3>1. PICK j \in 1..Len(groups) : groups[j] = g
      BY <2>2
    <3>2. PICK k \in 1..Len(groups) : m(k) = j
      BY <2>1
    <3>3. groups'[k] = g
      BY <1>4, <3>1, <3>2
    <3>4. QED
      BY <2>3, <3>3
  <2>5. ASSUME NEW g \in Existing'
        PROVE  g \in Existing
    <3>1. PICK k \in 1..Len(groups) : groups'[k] = g
      BY <2>3
    <3>2. groups[m(k)] = g /\ m(k) \in 1..Len(groups)
      BY <1>4, <3>1
    <3>3. QED
      BY <2>2, <3>2
  <2>6. QED
    BY <2>4, <2>5
<1>12. QED
  BY <1>3, <1>6, <1>7, <1>8, <1>9, <1>10, <1>11 DEF RosterInv

(* Adding a group at the end of the list.                                    *)
LEMMA AdditionKeepsRoster ==
    ASSUME RosterInv, AddGroup
    PROVE  /\ RosterInv'
           /\ nGroups + 1 \in Group /\ groups' = Append(groups, nGroups + 1)
           /\ nGroups' = nGroups + 1 /\ LiveGroup' = nGroups + 1
           /\ nGroups + 1 \notin Existing /\ Existing' = Existing \cup {nGroups + 1}
<1>1. /\ nGroups < MaxGroups /\ groups' = Append(groups, nGroups + 1)
      /\ active' = Len(groups) + 1 /\ nGroups' = nGroups + 1
  BY DEF AddGroup
<1>2. nGroups + 1 \in Group /\ nGroups' \in 0..MaxGroups
  BY <1>1, BoundsAssumption DEF RosterInv, Group
<1>3. /\ groups' \in Seq(Group) /\ Len(groups') = Len(groups) + 1
      /\ \A j \in 1..Len(groups) : groups'[j] = groups[j]
      /\ groups'[Len(groups) + 1] = nGroups + 1
  BY <1>1, <1>2 DEF RosterInv
<1>4. \A j \in 1..Len(groups') : j \in 1..Len(groups) \/ j = Len(groups) + 1
  BY <1>3 DEF RosterInv
<1>5. \A j \in 1..Len(groups) : groups[j] \in 1..nGroups /\ groups[j] # nGroups + 1
  BY <1>2 DEF RosterInv
<1>6. \A j \in 1..Len(groups') : groups'[j] \in 1..nGroups'
  BY <1>1, <1>2, <1>3, <1>4, <1>5 DEF RosterInv
<1>7. \A j, k \in 1..Len(groups') : groups'[j] = groups'[k] => j = k
  BY <1>3, <1>4, <1>5 DEF RosterInv
<1>8. active' \in 1..Len(groups') /\ LiveGroup' = nGroups + 1
  BY <1>1, <1>3 DEF RosterInv, LiveGroup
<1>9. nGroups + 1 \notin Existing
  BY <1>5 DEF Existing
<1>10. Existing' = Existing \cup {nGroups + 1}
  BY <1>3, <1>4 DEF Existing, RosterInv
<1>11. QED
  BY <1>1, <1>2, <1>3, <1>6, <1>7, <1>8, <1>9, <1>10 DEF RosterInv

LEMMA InitRoster ==
    ASSUME Init
    PROVE  RosterInv
<1>1. PICK n \in 1..RestoredGroups :
          groups = [i \in 1..n |-> i] /\ active \in 1..n /\ nGroups = n
  BY DEF Init
<1>2. n \in Nat /\ n <= MaxGroups
  BY BoundsAssumption
<1>3. groups \in Seq(Group) /\ Len(groups) = n /\ \A i \in 1..n : groups[i] = i
  BY <1>1, <1>2, BoundsAssumption DEF Group
<1>4. QED
  BY <1>1, <1>2, <1>3, BoundsAssumption DEF RosterInv

LEMMA StepKeepsRoster ==
    ASSUME RosterInv, [Next]_vars
    PROVE  RosterInv'
<1>1. CASE UNCHANGED rosterVars
  BY <1>1 DEF RosterInv, rosterVars
<1>2. CASE \E i \in 1..Len(groups) : SwitchGroup(i)
  BY <1>2 DEF RosterInv, SwitchGroup, ids
<1>3. CASE AddGroup
  BY <1>3, AdditionKeepsRoster
<1>4. CASE \E from, to \in 1..Len(groups) : MoveGroup(from, to)
  BY <1>4, MoveKeepsRoster
<1>5. CASE /\ UNCHANGED nGroups /\ Len(groups) > 1
           /\ \E i \in 1..Len(groups) \cup {active} : RemoveGroupAt(i)
  <2>1. active \in 1..Len(groups)
    BY DEF RosterInv
  <2>2. PICK i \in 1..Len(groups) : RemoveGroupAt(i)
    BY <1>5, <2>1
  <2>3. QED
    BY <1>5, <2>2, RemovalKeepsRoster
<1>6. QED
  BY RosterSteps, <1>1, <1>2, <1>3, <1>4, <1>5

(* RosterInv is inductive by itself: the operations on panes do not touch    *)
(* the list, and remove_workspace_group keeps at least one group.            *)
THEOREM RosterInvariance == Spec => []RosterInv
<1>1. Init => RosterInv
  BY InitRoster
<1>2. RosterInv /\ [Next]_vars => RosterInv'
  BY StepKeepsRoster
<1>3. QED
  BY <1>1, <1>2, PTL DEF Spec

-----------------------------------------------------------------------------
(* The list implements the abstract roster *)

LEMMA InitImplementsRoster ==
    ASSUME Init
    PROVE  Roster!Init
<1>1. PICK n \in 1..RestoredGroups :
          groups = [i \in 1..n |-> i] /\ active \in 1..n /\ nGroups = n
  BY DEF Init
<1>2. n \in Nat \ {0} /\ n <= MaxGroups
  BY BoundsAssumption
<1>3. groups \in Seq(Group) /\ Len(groups) = n /\ \A i \in 1..n : groups[i] = i
  BY <1>1, <1>2, BoundsAssumption DEF Group
<1>4. {groups[i] : i \in 1..Len(groups)} = 1..n
  BY <1>3
<1>5. groups # <<>> /\ LiveGroup = active
  BY <1>1, <1>2, <1>3 DEF LiveGroup
<1>6. QED
  BY <1>1, <1>3, <1>4, <1>5 DEF Roster!Init, Roster!Positions

LEMMA StepImplementsRoster ==
    ASSUME RosterInv, [Next]_vars
    PROVE  Roster!Next \/ UNCHANGED <<groups, LiveGroup, 1..nGroups>>
<1>1. CASE UNCHANGED rosterVars
  BY <1>1 DEF rosterVars, LiveGroup
<1>2. CASE \E i \in 1..Len(groups) : SwitchGroup(i)
  <2>1. PICK i \in 1..Len(groups) : SwitchGroup(i)
    BY <1>2
  <2>2. groups' = groups /\ nGroups' = nGroups /\ LiveGroup' = groups[i]
    BY <2>1 DEF SwitchGroup, LiveGroup, ids
  <2>3. Roster!Choose
    BY <2>2 DEF Roster!Choose, Roster!Positions
  <2>4. QED
    BY <2>3 DEF Roster!Next
<1>3. CASE AddGroup
  <2>1. /\ nGroups + 1 \in Group \ (1..nGroups) /\ nGroups \in Nat
        /\ groups' = Append(groups, nGroups + 1)
        /\ LiveGroup' = nGroups + 1 /\ nGroups' = nGroups + 1
    BY <1>3, AdditionKeepsRoster DEF RosterInv
  <2>2. 1..nGroups' = (1..nGroups) \cup {nGroups + 1}
    BY <2>1
  <2>3. Roster!Add
    BY <2>1, <2>2 DEF Roster!Add
  <2>4. QED
    BY <2>3 DEF Roster!Next
<1>4. CASE \E from, to \in 1..Len(groups) : MoveGroup(from, to)
  <2>1. PICK from \in 1..Len(groups), to \in 1..Len(groups) : MoveGroup(from, to)
    BY <1>4
  <2>2. LiveGroup' = LiveGroup
    BY <2>1, MoveKeepsRoster
  <2>3. /\ groups' = InsertAt(RemoveAt(groups, from), to, groups[from])
        /\ nGroups' = nGroups
    BY <2>1 DEF MoveGroup, ids
  <2>4. Roster!Reorder
    BY <2>2, <2>3 DEF Roster!Reorder, Roster!Positions, Roster!RemoveAt, Roster!InsertAt,
       RemoveAt, InsertAt
  <2>5. QED
    BY <2>4 DEF Roster!Next
<1>5. CASE /\ UNCHANGED nGroups /\ Len(groups) > 1
           /\ \E i \in 1..Len(groups) \cup {active} : RemoveGroupAt(i)
  <2>1. active \in 1..Len(groups)
    BY DEF RosterInv
  <2>2. PICK i \in 1..Len(groups) : RemoveGroupAt(i)
    BY <1>5, <2>1
  <2>3. groups' = RemoveAt(groups, i)
    BY <2>2 DEF RemoveGroupAt
  <2>4. LiveGroup' = IF LiveGroup = groups[i]
                     THEN IF i > 1 THEN groups[i - 1] ELSE groups[2] ELSE LiveGroup
    BY <1>5, <2>2, RemovalKeepsRoster
  <2>5. Roster!Drop
    BY <1>5, <2>3, <2>4 DEF Roster!Drop, Roster!Positions, Roster!Neighbour,
       Roster!RemoveAt, RemoveAt
  <2>6. QED
    BY <2>5 DEF Roster!Next
<1>6. QED
  BY RosterSteps, <1>1, <1>2, <1>3, <1>4, <1>5

(* The workspace implements GroupRoster: what is shown follows the identity  *)
(* of a group through every switch, move and removal of the code's index.    *)
THEOREM ImplementsRoster == Spec => RosterSpec
<1>1. Init => Roster!Init
  BY InitImplementsRoster
<1>2. RosterInv /\ [Next]_vars => [Roster!Next]_<<groups, LiveGroup, 1..nGroups>>
  BY StepImplementsRoster
<1>3. QED
  BY <1>1, <1>2, RosterInvariance, PTL DEF Spec, RosterSpec, Roster!Spec

-----------------------------------------------------------------------------
(* Types *)

(* Every group that exists has an active pane, so that loading it gives one. *)
SnapshotsActive == \A g \in Existing : saved[g].activePane \in Pane

TypeInv == TypeOK /\ RosterInv /\ SnapshotsActive

LEMMA BoundsAreNat ==
    /\ MaxGroups \in Nat /\ MaxPanes \in Nat /\ MaxItems \in Nat
    /\ NoPane \notin Pane
  BY BoundsAssumption DEF NoPane, Pane

LEMMA SnapshotTypes ==
    ASSUME TypeInv
    PROVE  /\ Snapshot \in SnapshotType /\ NoSnapshot \in SnapshotType
           /\ \A p \in Pane : \A holds : Fresh(p, holds) \in SnapshotType
           /\ \A it : Rung(it) \in [Group -> SnapshotType]
           /\ \A it : \A g \in Group :
                 /\ Rung(it)[g].panes = saved[g].panes
                 /\ Rung(it)[g].center = saved[g].center
                 /\ Rung(it)[g].activePane = saved[g].activePane
           /\ SyncActiveGroup \in [Group -> SnapshotType]
           /\ LiveGroup \in Group
           /\ SyncActiveGroup[LiveGroup] = Snapshot
           /\ \A g \in Group \ {LiveGroup} : SyncActiveGroup[g] = saved[g]
<1>1. Snapshot \in SnapshotType
  BY DEF TypeInv, TypeOK, Snapshot, SnapshotType
<1>2. NoSnapshot \in SnapshotType
  BY DEF NoSnapshot, SnapshotType, NoItems
<1>3. \A p \in Pane : \A holds : Fresh(p, holds) \in SnapshotType
  BY DEF Fresh, SnapshotType
<1>4. LiveGroup \in Group
  BY DEF TypeInv, RosterInv, LiveGroup
<1>5. saved \in [Group -> SnapshotType]
  BY DEF TypeInv, TypeOK
<1>6. \A g \in Group : [saved[g] EXCEPT !.bell = TRUE] \in SnapshotType
  BY <1>5 DEF SnapshotType
<1>7. \A it : Rung(it) \in [Group -> SnapshotType]
  BY <1>5, <1>6 DEF Rung
<1>8. \A it : \A g \in Group :
         /\ Rung(it)[g].panes = saved[g].panes
         /\ Rung(it)[g].center = saved[g].center
         /\ Rung(it)[g].activePane = saved[g].activePane
  BY <1>5 DEF Rung, SnapshotType
<1>9. /\ SyncActiveGroup \in [Group -> SnapshotType]
      /\ SyncActiveGroup[LiveGroup] = Snapshot
      /\ \A g \in Group \ {LiveGroup} : SyncActiveGroup[g] = saved[g]
  BY <1>1, <1>4, <1>5 DEF SyncActiveGroup
<1>10. QED
  BY <1>1, <1>2, <1>3, <1>4, <1>7, <1>8, <1>9

LEMMA LoadTypes ==
    ASSUME NEW s \in SnapshotType, s.activePane \in Pane, NEW dropped, Load(s, dropped)
    PROVE  /\ center' \subseteq Pane /\ panes' \subseteq Pane /\ activePane' \in Pane
           /\ byItem' \in [Item -> Pane \cup {NoPane}]
  BY DEF Load, SnapshotType

LEMMA EventTypes ==
    ASSUME NEW p \in Pane, NEW it \in Item, NEW on \in Pane \cup {NoPane}
    PROVE  /\ Added(p, it) \in EventType /\ Activated(p) \in EventType
           /\ Removed(p, it) \in EventType /\ EmptyPane(p, on) \in EventType
  BY DEF EventType, Added, Activated, Removed, EmptyPane, Event, NoPane

LEMMA SwitchTypes ==
    ASSUME TypeInv, NEW i \in 1..Len(groups), SwitchGroup(i)
    PROVE  TypeOK' /\ SnapshotsActive'
<1> DEFINE h == groups[i]
<1>1. h \in Existing /\ h \in Group /\ h # LiveGroup /\ saved[h].activePane \in Pane
  BY DEF TypeInv, RosterInv, SwitchGroup, SnapshotsActive, Existing, LiveGroup
<1>2. saved \in [Group -> SnapshotType] /\ saved[h] \in SnapshotType
  BY <1>1 DEF TypeInv, TypeOK
<1>3. center' \subseteq Pane /\ panes' \subseteq Pane /\ activePane' \in Pane
      /\ byItem' \in [Item -> Pane \cup {NoPane}]
  BY <1>1, <1>2, LoadTypes DEF SwitchGroup
<1>4. saved' = [SyncActiveGroup EXCEPT ![h].bell = FALSE]
  BY DEF SwitchGroup
<1>5. /\ saved' \in [Group -> SnapshotType]
      /\ \A g \in Group : saved'[g].activePane = SyncActiveGroup[g].activePane
  <2>1. \A s \in SnapshotType : [s EXCEPT !.bell = FALSE] \in SnapshotType
                                /\ [s EXCEPT !.bell = FALSE].activePane = s.activePane
    BY DEF SnapshotType
  <2>2. QED
    BY <1>1, <1>4, <2>1, SnapshotTypes
<1>6. saved[h].panes \subseteq Pane /\ saved[h].activePane \in Pane \cup {NoPane}
  BY <1>2 DEF SnapshotType
<1>7. initialized' \subseteq Pane /\ focus' \in Pane \cup {NoPane}
  BY <1>6 DEF SwitchGroup, TypeInv, TypeOK
<1>8. SnapshotsActive'
  <2>1. Existing' = Existing /\ Existing \subseteq Group
    BY DEF SwitchGroup, Existing, TypeInv, RosterInv
  <2>2. Snapshot.activePane \in Pane
    BY DEF Snapshot, TypeInv, TypeOK
  <2>3. QED
    BY <1>5, <2>1, <2>2, SnapshotTypes DEF SnapshotsActive, TypeInv
<1>9. QED
  BY <1>1, <1>3, <1>5, <1>7, <1>8 DEF SwitchGroup, TypeInv, TypeOK, RosterInv, tasks, ids

LEMMA AddTypes ==
    ASSUME TypeInv, AddGroup
    PROVE  TypeOK' /\ SnapshotsActive'
<1> DEFINE h == nGroups + 1
           p == nPanes + 1
<1>1. h \in Group /\ Existing' = Existing \cup {h} /\ h \notin Existing /\ RosterInv'
  BY AdditionKeepsRoster DEF TypeInv
<1>2. p \in Pane /\ nPanes' = p /\ nGroups' = h /\ p \in 0..MaxPanes
  BY BoundsAssumption DEF AddGroup, TypeInv, TypeOK, Pane
<1>3. Fresh(p, {}) \in SnapshotType /\ Fresh(p, {}).activePane = p
  <2>1. Fresh(p, {}) \in SnapshotType
    BY <1>2, SnapshotTypes
  <2>2. Fresh(p, {}).activePane = p
    BY DEF Fresh
  <2>3. QED
    BY <2>1, <2>2
<1>4. /\ saved' = [SyncActiveGroup EXCEPT ![h] = Fresh(p, {})]
      /\ Load(Fresh(p, {}), {})
      /\ initialized' = initialized \cup {p}
      /\ focus' = p
      /\ pending' = pending \cup {Deploy(p)}
  BY DEF AddGroup
<1>5. center' \subseteq Pane /\ panes' \subseteq Pane /\ activePane' \in Pane
      /\ byItem' \in [Item -> Pane \cup {NoPane}]
  BY <1>2, <1>3, <1>4, LoadTypes
<1>6. saved' \in [Group -> SnapshotType]
  BY <1>1, <1>3, <1>4, SnapshotTypes
<1>7. Deploy(p) \in TaskType
  BY <1>2 DEF Deploy, TaskType
<1>8. SnapshotsActive'
  <2>1. LiveGroup \in Existing /\ Existing \subseteq Group
    BY DEF TypeInv, RosterInv, LiveGroup, Existing
  <2>2. Snapshot.activePane \in Pane
    BY DEF Snapshot, TypeInv, TypeOK
  <2>3. saved'[h].activePane \in Pane
    BY <1>1, <1>2, <1>3, <1>4, SnapshotTypes
  <2>4. \A g \in Existing : saved'[g] = SyncActiveGroup[g]
    BY <1>1, <1>4, <2>1, SnapshotTypes
  <2>5. \A g \in Existing : saved'[g].activePane \in Pane
    BY <2>1, <2>2, <2>4, SnapshotTypes DEF SnapshotsActive, TypeInv
  <2>6. QED
    BY <1>1, <2>3, <2>5 DEF SnapshotsActive
<1> HIDE DEF h, p
<1>9. groups' \in Seq(Group) /\ active' \in 1..Len(groups') /\ nGroups' \in 0..MaxGroups
  BY <1>1 DEF RosterInv
<1>10. initialized' \subseteq Pane /\ focus' \in Pane \cup {NoPane} /\ pending' \subseteq TaskType
  BY <1>2, <1>4, <1>7 DEF TypeInv, TypeOK
<1>11. QED
  BY <1>2, <1>5, <1>6, <1>8, <1>9, <1>10 DEF AddGroup, TypeInv, TypeOK

LEMMA MoveTypes ==
    ASSUME TypeInv, NEW from \in 1..Len(groups), NEW to \in 1..Len(groups),
           MoveGroup(from, to)
    PROVE  TypeOK' /\ SnapshotsActive'
<1>1. RosterInv' /\ LiveGroup' = LiveGroup /\ Existing' = Existing
  BY MoveKeepsRoster DEF TypeInv
<1>2. saved' = SyncActiveGroup
  BY DEF MoveGroup
<1>3. saved' \in [Group -> SnapshotType]
  BY <1>2, SnapshotTypes
<1>4. SnapshotsActive'
  <2>1. Existing \subseteq Group
    BY DEF TypeInv, RosterInv, Existing
  <2>2. Snapshot.activePane \in Pane
    BY DEF Snapshot, TypeInv, TypeOK
  <2>3. QED
    BY <1>1, <1>2, <2>1, <2>2, SnapshotTypes DEF SnapshotsActive, TypeInv
<1>5. groups' \in Seq(Group) /\ active' \in 1..Len(groups') /\ nGroups' \in 0..MaxGroups
  BY <1>1 DEF RosterInv
<1>6. QED
  BY <1>3, <1>4, <1>5 DEF MoveGroup, live, tasks, ids, TypeInv, TypeOK

(* The part of TypeOK that remove_workspace_group can change.                *)
RemovalTypes ==
    /\ groups \in Seq(Group) /\ active \in 1..Len(groups)
    /\ saved \in [Group -> SnapshotType]
    /\ center \subseteq Pane /\ panes \subseteq Pane /\ activePane \in Pane
    /\ byItem \in [Item -> Pane \cup {NoPane}]
    /\ items \in [Pane -> SUBSET Item]
    /\ initialized \subseteq Pane /\ focus \in Pane \cup {NoPane}
    /\ closing \subseteq Pane \X Item
    /\ SnapshotsActive

LEMMA RemoveTypes ==
    ASSUME TypeInv, Len(groups) > 1, NEW i \in 1..Len(groups), RemoveGroupAt(i),
           nGroups' = nGroups
    PROVE  RemovalTypes'
<1> DEFINE g == groups[i]
           h == groups[FallbackIndex(i)]
<1>1. RosterInv' /\ Existing' = Existing \ {g}
  BY RemovalKeepsRoster DEF TypeInv
<1>2. FallbackIndex(i) \in 1..Len(groups) /\ FallbackIndex(i) # i
  BY DEF FallbackIndex, TypeInv, RosterInv
<1>3. /\ g \in Group /\ h \in Group /\ h \in Existing /\ h # g
      /\ Existing \subseteq Group
  BY <1>2 DEF TypeInv, RosterInv, Existing
<1>4. saved \in [Group -> SnapshotType] /\ saved[h].activePane \in Pane
  BY <1>3 DEF TypeInv, TypeOK, SnapshotsActive
<1>5. Snapshot.activePane \in Pane /\ Snapshot \in SnapshotType
  BY SnapshotTypes DEF Snapshot, TypeInv, TypeOK
<1>6. center' \subseteq Pane /\ panes' \subseteq Pane /\ activePane' \in Pane
      /\ byItem' \in [Item -> Pane \cup {NoPane}] /\ focus' \in Pane \cup {NoPane}
  <2>1. CASE i = active
    <3>1. Load(saved[h], PanesInGroup(i)) /\ focus' = saved[h].activePane
      BY <2>1 DEF RemoveGroupAt
    <3>2. QED
      BY <1>3, <1>4, <3>1, LoadTypes
  <2>2. CASE i # active
    <3>1. Load(Snapshot, PanesInGroup(i)) /\ focus' = focus
      BY <2>2 DEF RemoveGroupAt
    <3>2. QED
      BY <1>5, <3>1, LoadTypes DEF TypeInv, TypeOK
  <2>3. QED
    BY <2>1, <2>2
<1>7. saved' = [saved EXCEPT ![g] = NoSnapshot]
  BY DEF RemoveGroupAt
<1>8. saved' \in [Group -> SnapshotType] /\ SnapshotsActive'
  BY <1>1, <1>3, <1>4, <1>7, SnapshotTypes DEF SnapshotsActive, TypeInv
<1>9. initialized' \subseteq Pane /\ closing' \subseteq Pane \X Item
      /\ items' \in [Pane -> SUBSET Item]
  BY DEF RemoveGroupAt, TypeInv, TypeOK
<1>10. QED
  BY <1>1, <1>6, <1>8, <1>9 DEF RemovalTypes, RosterInv

(* Steps that leave the list, the snapshots and the ids of items alone.      *)
LEMMA PaneOperationTypes ==
    ASSUME TypeInv, PaneOperation
    PROVE  TypeOK' /\ SnapshotsActive'
<1>1. groups' = groups /\ saved' = saved
  BY DEF PaneOperation, SplitEmpty, JoinEmpty, FocusPane, CloneItem, SplitMove,
     MoveItem, DrawFocus, OpenTerminal
<1>2. SnapshotsActive'
  BY <1>1 DEF TypeInv, SnapshotsActive, Existing
<1>3. ASSUME NEW q, q = nPanes + 1, nPanes < MaxPanes
      PROVE  q \in Pane /\ q \in 0..MaxPanes
  BY <1>3, BoundsAssumption DEF TypeInv, TypeOK, Pane
<1>4. ASSUME NEW p \in center, SplitEmpty(p)
      PROVE  TypeOK'
  BY <1>3, <1>4 DEF SplitEmpty, AddPane, tasks, TypeInv, TypeOK
<1>5. ASSUME NEW p \in center, JoinEmpty(p)
      PROVE  TypeOK'
  <2>1. <<EmptyPane(p, NoPane)>> \in Seq(EventType)
    <3>1. EmptyPane(p, NoPane) \in EventType
      BY <1>5 DEF EmptyPane, Event, EventType, TypeInv, TypeOK
    <3>2. QED
      BY <3>1
  <2>2. QED
    BY <1>5, <2>1 DEF JoinEmpty, live, tasks, ids, TypeInv, TypeOK
<1>6. ASSUME NEW p \in center, FocusPane(p)
      PROVE  TypeOK'
  BY <1>6 DEF FocusPane, live, tasks, ids, TypeInv, TypeOK
<1>7. ASSUME NEW p \in center, CloneItem(p)
      PROVE  TypeOK'
  <2>1. Clone(p) \in TaskType
    BY <1>7 DEF Clone, TaskType, TypeInv, TypeOK
  <2>2. QED
    BY <1>7, <2>1 DEF CloneItem, live, ids, TypeInv, TypeOK
<1>8. ASSUME NEW p \in center, NEW it \in items[p], SplitMove(p, it)
      PROVE  TypeOK'
  <2> DEFINE q == nPanes + 1
  <2>1. q \in Pane /\ q \in 0..MaxPanes /\ p \in Pane /\ it \in Item
    BY <1>3, <1>8 DEF SplitMove, TypeInv, TypeOK
  <2>2. <<Removed(p, it), Activated(q), Added(q, it)>> \in Seq(EventType)
    <3>1. /\ Removed(p, it) \in EventType /\ Activated(q) \in EventType
          /\ Added(q, it) \in EventType
      BY <2>1, EventTypes
    <3>2. QED
      BY <3>1
  <2>3. items' \in [Pane -> SUBSET Item]
    BY <1>8, <2>1 DEF SplitMove, TypeInv, TypeOK
  <2>4. QED
    BY <1>8, <2>1, <2>2, <2>3 DEF SplitMove, AddPane, tasks, TypeInv, TypeOK
<1>9. ASSUME NEW p \in center, NEW it \in items[p], NEW q \in center, MoveItem(p, q, it)
      PROVE  TypeOK'
  <2>1. q \in Pane /\ p \in Pane /\ it \in Item
    BY <1>9 DEF TypeInv, TypeOK
  <2>2. queue' \in Seq(EventType)
    <3>1. /\ Removed(p, it) \in EventType /\ Activated(q) \in EventType
          /\ Added(q, it) \in EventType /\ EmptyPane(p, q) \in EventType
      BY <2>1, EventTypes
    <3>2. QED
      BY <1>9, <3>1 DEF MoveItem
  <2>3. items' \in [Pane -> SUBSET Item]
    BY <1>9, <2>1 DEF MoveItem, TypeInv, TypeOK
  <2>4. QED
    BY <1>9, <2>1, <2>2, <2>3 DEF MoveItem, live, tasks, ids, TypeInv, TypeOK
<1>10. ASSUME DrawFocus
       PROVE  TypeOK'
  BY <1>10, BoundsAreNat DEF DrawFocus, tasks, ids, TypeInv, TypeOK
<1>11. ASSUME OpenTerminal
       PROVE  TypeOK'
  <2>1. Deploy(activePane) \in TaskType
    BY DEF Deploy, TaskType, TypeInv, TypeOK
  <2>2. QED
    BY <1>11, <2>1 DEF OpenTerminal, live, ids, TypeInv, TypeOK
<1>12. QED
  BY <1>2, <1>4, <1>5, <1>6, <1>7, <1>8, <1>9, <1>10, <1>11 DEF PaneOperation

LEMMA TaskTypes ==
    ASSUME TypeInv, Task
    PROVE  TypeOK' /\ SnapshotsActive'
<1>1. groups' = groups /\ saved' = saved
  BY DEF Task, CloseItem, CloseDone, TerminalReady, CloneReady, SpawnFailed
<1>2. SnapshotsActive'
  BY <1>1 DEF TypeInv, SnapshotsActive, Existing
<1>3. nItems < MaxItems => nItems + 1 \in Item /\ nItems + 1 \in 0..MaxItems
  BY BoundsAssumption DEF TypeInv, TypeOK, Item
<1>4. nPanes < MaxPanes => nPanes + 1 \in Pane /\ nPanes + 1 \in 0..MaxPanes
  BY BoundsAssumption DEF TypeInv, TypeOK, Pane
<1>5. ASSUME NEW p \in Pane, NEW it \in Item, CloseItem(p, it)
      PROVE  TypeOK'
  BY <1>5 DEF CloseItem, live, ids, TypeInv, TypeOK
<1>6. ASSUME NEW p \in Pane, NEW it \in Item, CloseDone(p, it)
      PROVE  TypeOK'
  <2>1. queue' \in Seq(EventType)
    <3>1. /\ Removed(p, it) \in EventType /\ EmptyPane(p, NoPane) \in EventType
          /\ queue \in Seq(EventType)
      BY EventTypes DEF TypeInv, TypeOK
    <3>2. QED
      BY <1>6, <3>1 DEF CloseDone
  <2>2. items' \in [Pane -> SUBSET Item]
    <3>1. items' = items \/ items' = [items EXCEPT ![p] = @ \ {it}]
      BY <1>6 DEF CloseDone
    <3>2. QED
      BY <3>1 DEF TypeInv, TypeOK
  <2>3. QED
    BY <1>6, <2>1, <2>2 DEF CloseDone, live, ids, TypeInv, TypeOK
<1>7. ASSUME NEW p \in Pane, TerminalReady(p)
      PROVE  TypeOK'
  <2>1. queue' \in Seq(EventType)
    <3>1. nItems + 1 \in Item /\ queue \in Seq(EventType)
      BY <1>3, <1>7 DEF TerminalReady, TypeInv, TypeOK
    <3>2. Added(p, nItems + 1) \in EventType
      BY <3>1, EventTypes DEF NoPane
    <3>3. <<Added(p, nItems + 1)>> \in Seq(EventType)
      BY <3>2
    <3>4. CASE p \in Owned
      BY <1>7, <3>3, <3>4 DEF TerminalReady
    <3>5. CASE p \notin Owned
      BY <1>7, <3>1, <3>5 DEF TerminalReady
    <3>6. QED
      BY <3>4, <3>5
  <2>2. items' \in [Pane -> SUBSET Item] /\ nItems' \in 0..MaxItems
    BY <1>3, <1>7 DEF TerminalReady, TypeInv, TypeOK
  <2>3. pending' \subseteq TaskType
    BY <1>7 DEF TerminalReady, TypeInv, TypeOK
  <2>4. QED
    BY <1>7, <2>1, <2>2, <2>3 DEF TerminalReady, live, TypeInv, TypeOK
<1>8. ASSUME NEW p \in Pane, CloneReady(p)
      PROVE  TypeOK'
  <2> DEFINE q == nPanes + 1
  <2>1. nItems + 1 \in Item /\ nItems' \in 0..MaxItems /\ q \in Pane /\ q \in 0..MaxPanes
    BY <1>3, <1>4, <1>8 DEF CloneReady
  <2>2. queue' \in Seq(EventType)
    <3>1. Activated(q) \in EventType /\ Added(q, nItems + 1) \in EventType
      BY <2>1, EventTypes DEF NoPane
    <3>2. QED
      BY <1>8, <3>1 DEF CloneReady
  <2>3. items' \in [Pane -> SUBSET Item] /\ pending' \subseteq TaskType
    BY <1>8, <2>1 DEF CloneReady, TypeInv, TypeOK
  <2>4. QED
    BY <1>8, <2>1, <2>2, <2>3 DEF CloneReady, AddPane, TypeInv, TypeOK
<1>9. ASSUME NEW t \in pending, SpawnFailed(t)
      PROVE  TypeOK'
  BY <1>9 DEF SpawnFailed, live, ids, TypeInv, TypeOK
<1>10. QED
  BY <1>2, <1>5, <1>6, <1>7, <1>8, <1>9 DEF Task

(* A message may ring badges and add one pane to a group.                    *)
LEMMA MessageTypes ==
    ASSUME TypeInv, Message
    PROVE  TypeOK' /\ SnapshotsActive'
<1>1. groups' = groups /\ Existing' = Existing /\ Existing \subseteq Group
  <2>1. groups' = groups
    BY DEF Message, NotifyBell, SubagentStart
  <2>2. Existing' = Existing
    BY <2>1 DEF Existing
  <2>3. Existing \subseteq Group
    BY DEF Existing, TypeInv, RosterInv
  <2>4. QED
    BY <2>1, <2>2, <2>3
<1>2. nItems < MaxItems => nItems + 1 \in Item /\ nItems + 1 \in 0..MaxItems
  BY BoundsAssumption DEF TypeInv, TypeOK, Item
<1>3. nPanes < MaxPanes => nPanes + 1 \in Pane /\ nPanes + 1 \in 0..MaxPanes
  BY BoundsAssumption DEF TypeInv, TypeOK, Pane
<1>4. ASSUME NEW it, saved' = Rung(it)
      PROVE  saved' \in [Group -> SnapshotType] /\ SnapshotsActive'
  BY <1>1, <1>4, SnapshotTypes DEF SnapshotsActive, TypeInv
<1>5. ASSUME NEW it \in Item, NotifyBell(it)
      PROVE  TypeOK' /\ SnapshotsActive'
  BY <1>4, <1>5 DEF NotifyBell, live, tasks, ids, TypeInv, TypeOK
<1>6. ASSUME NEW it \in Item, NEW a \in Agent, NEW i \in 1..Len(groups),
             SubagentStart(it, a, i)
      PROVE  TypeOK' /\ SnapshotsActive'
  <2>1. ASSUME NEW q \in Pane, nItems < MaxItems, AddView(a, q)
        PROVE  /\ items' \in [Pane -> SUBSET Item] /\ kind' \in [Item -> Kind]
               /\ queue' \in Seq(EventType) /\ nItems' \in 0..MaxItems
    <3>1. Activated(q) \in EventType /\ Added(q, nItems + 1) \in EventType
      BY <1>2, <2>1, EventTypes DEF NoPane
    <3>2. items' \in [Pane -> SUBSET Item] /\ kind' \in [Item -> Kind] /\ nItems' \in 0..MaxItems
      BY <1>2, <2>1 DEF AddView, Kind, TypeInv, TypeOK
    <3>3. queue' \in Seq(EventType)
      BY <2>1, <3>1 DEF AddView
    <3>4. QED
      BY <3>2, <3>3
  <2>2. PanesInGroup(i) \subseteq Pane
    BY DEF PanesInGroup, TypeInv, TypeOK, RosterInv, SnapshotType
  <2>3. ASSUME NEW p \in TabsOf(a, i),
               queue' = <<Activated(p)>>, focus' = p, saved' = Rung(it),
               UNCHANGED <<items, kind, center, panes, initialized, nPanes, nItems>>
        PROVE  TypeOK' /\ SnapshotsActive'
    <3>1. p \in Pane
      BY <2>2 DEF TabsOf
    <3>2. Activated(p) \in EventType
      BY <3>1 DEF Activated, Event, EventType, NoPane
    <3>3. queue' \in Seq(EventType)
      BY <2>3, <3>2
    <3>4. QED
      BY <1>4, <1>6, <2>3, <3>1, <3>3 DEF SubagentStart, tasks, TypeInv, TypeOK
  <2>4. ASSUME NEW p \in AgentPanes(i), nItems < MaxItems,
               AddView(a, p), focus' = p, saved' = Rung(it),
               UNCHANGED <<center, panes, initialized, nPanes>>
        PROVE  TypeOK' /\ SnapshotsActive'
    <3>1. p \in Pane
      BY <2>2 DEF AgentPanes
    <3>2. QED
      BY <1>4, <1>6, <2>1, <2>4, <3>1 DEF SubagentStart, tasks, TypeInv, TypeOK
  <2>5. ASSUME nPanes < MaxPanes, nItems < MaxItems, AddPane(nPanes + 1),
               AddView(a, nPanes + 1), saved' = Rung(it)
        PROVE  TypeOK' /\ SnapshotsActive'
    BY <1>3, <1>4, <1>6, <2>1, <2>5 DEF SubagentStart, AddPane, tasks, TypeInv, TypeOK
  <2>6. ASSUME nPanes < MaxPanes, nItems < MaxItems, AddView(a, nPanes + 1),
               focus' = nPanes + 1, nPanes' = nPanes + 1,
               saved' = [Rung(it) EXCEPT ![groups[i]].panes = @ \cup {nPanes + 1},
                                         ![groups[i]].center = @ \cup {nPanes + 1}],
               UNCHANGED <<center, panes, initialized>>
        PROVE  TypeOK' /\ SnapshotsActive'
    <3>1. Rung(it) \in [Group -> SnapshotType] /\ groups[i] \in Group /\ nPanes + 1 \in Pane
      BY <1>3, <2>6, SnapshotTypes DEF TypeInv, RosterInv
    <3>2. /\ saved' \in [Group -> SnapshotType]
          /\ \A g \in Group : saved'[g].activePane = Rung(it)[g].activePane
      BY <2>6, <3>1 DEF SnapshotType
    <3>3. SnapshotsActive'
      BY <1>1, <3>2, SnapshotTypes DEF SnapshotsActive, TypeInv
    <3>4. QED
      BY <1>3, <1>6, <2>1, <2>6, <3>2, <3>3 DEF SubagentStart, tasks, TypeInv, TypeOK
  <2>7. QED
    BY <1>6, <2>3, <2>4, <2>5, <2>6 DEF SubagentStart
<1>7. QED
  BY <1>5, <1>6 DEF Message

LEMMA HandlerTypes ==
    ASSUME TypeInv, HandlePaneEvent
    PROVE  TypeOK' /\ SnapshotsActive'
<1> DEFINE e == Head(queue)
<1>1. queue # <<>> /\ queue' = Tail(queue)
  BY DEF HandlePaneEvent, HandleAddItem, HandleActivateItem, HandleRemovedItem, HandleRemove,
     Delivered
<1>2. e \in EventType /\ queue' \in Seq(EventType)
  BY <1>1 DEF TypeInv, TypeOK
<1>3. e.pane \in Pane /\ e.focusOn \in Pane \cup {NoPane}
  BY <1>2 DEF EventType
<1> HIDE DEF e
<1>4. ASSUME HandleAddItem
      PROVE  TypeOK' /\ SnapshotsActive'
  <2>1. byItem' \in [Item -> Pane \cup {NoPane}]
    BY <1>3, <1>4 DEF HandleAddItem, TypeInv, TypeOK, e
  <2>2. QED
    BY <1>2, <1>4, <2>1 DEF HandleAddItem, tasks, ids, TypeInv, TypeOK, SnapshotsActive, Existing
<1>5. ASSUME HandleActivateItem
      PROVE  TypeOK' /\ SnapshotsActive'
  <2>1. activePane' \in Pane
    BY <1>3, <1>5 DEF HandleActivateItem, e
  <2>2. QED
    BY <1>2, <1>5, <2>1 DEF HandleActivateItem, tasks, ids, TypeInv, TypeOK, SnapshotsActive,
       Existing
<1>6. ASSUME HandleRemovedItem
      PROVE  TypeOK' /\ SnapshotsActive'
  <2>1. CASE AllPanesEmpty /\ Len(groups) > 1
    <3>1. RemoveGroupAt(active) /\ UNCHANGED pending /\ UNCHANGED ids
      BY <1>6, <2>1 DEF HandleRemovedItem
    <3>2. active \in 1..Len(groups) /\ nGroups' = nGroups
      BY <3>1 DEF TypeInv, RosterInv, ids
    <3>3. RemovalTypes'
      BY <2>1, <3>1, <3>2, RemoveTypes
    <3>4. QED
      BY <1>2, <3>1, <3>3 DEF RemovalTypes, ids, TypeInv, TypeOK
  <2>2. CASE ~ (AllPanesEmpty /\ Len(groups) > 1)
    <3>1. byItem' = Forget(e.item, e.pane)
          /\ pending' = (IF AllPanesEmpty THEN pending \cup {Deploy(activePane)} ELSE pending)
          /\ UNCHANGED <<groups, active, saved, center, panes, activePane, items,
                         initialized, focus, closing, ids>>
      BY <1>6, <2>2 DEF HandleRemovedItem, e
    <3>2. byItem' \in [Item -> Pane \cup {NoPane}]
      BY <3>1 DEF Forget, TypeInv, TypeOK
    <3>3. Deploy(activePane) \in TaskType
      BY DEF Deploy, TaskType, TypeInv, TypeOK
    <3>4. QED
      BY <1>2, <3>1, <3>2, <3>3 DEF ids, TypeInv, TypeOK, SnapshotsActive, Existing
  <2>3. QED
    BY <2>1, <2>2
<1>7. ASSUME HandleRemove
      PROVE  TypeOK' /\ SnapshotsActive'
  <2>1. UNCHANGED <<groups, active, saved, items, tasks, ids>>
    BY <1>7 DEF HandleRemove
  <2>2. /\ center' \subseteq Pane /\ panes' \subseteq Pane /\ initialized' \subseteq Pane
        /\ byItem' \in [Item -> Pane \cup {NoPane}]
    BY <1>7 DEF HandleRemove, TypeInv, TypeOK
  <2>3. activePane' \in Pane /\ focus' \in Pane \cup {NoPane}
    BY <1>3, <1>7 DEF HandleRemove, Refocus, TypeInv, TypeOK, e
  <2>4. QED
    BY <1>2, <2>1, <2>2, <2>3 DEF tasks, ids, TypeInv, TypeOK, SnapshotsActive, Existing
<1>8. QED
  BY <1>4, <1>5, <1>6, <1>7 DEF HandlePaneEvent

LEMMA InitTypes ==
    ASSUME Init
    PROVE  TypeInv
<1>1. PICK n \in 1..RestoredGroups :
          /\ groups = [i \in 1..n |-> i]
          /\ active \in 1..n
          /\ saved = [g \in Group |-> IF g <= n THEN Fresh(g, {g}) ELSE NoSnapshot]
          /\ center = {active} /\ panes = {active} /\ activePane = active
          /\ byItem = Fresh(active, {active}).byItem
          /\ items = [p \in Pane |-> IF p <= n THEN {p} ELSE {}]
          /\ kind = [it \in Item |-> "terminal"]
          /\ initialized = {active}
          /\ queue = <<>> /\ focus = NoPane
          /\ pending = {} /\ closing = {}
          /\ nGroups = n /\ nPanes = n /\ nItems = n
  BY DEF Init
<1>2. n \in Nat /\ n <= MaxGroups /\ n <= MaxPanes /\ n <= MaxItems
  BY BoundsAssumption
<1>3. active \in Pane /\ 1..n \subseteq Pane /\ 1..n \subseteq Item /\ 1..n \subseteq Group
  BY <1>1, <1>2, BoundsAssumption DEF Pane, Item, Group
<1>4. NoSnapshot \in SnapshotType /\ \A p \in Pane : \A holds : Fresh(p, holds) \in SnapshotType
  BY DEF NoSnapshot, NoItems, Fresh, SnapshotType
<1>5. saved \in [Group -> SnapshotType]
  BY <1>1, <1>2, <1>3, <1>4 DEF Group
<1>6. RosterInv
  BY InitRoster
<1>7. byItem \in [Item -> Pane \cup {NoPane}]
  BY <1>1, <1>3 DEF Fresh
<1>8. items \in [Pane -> SUBSET Item]
  BY <1>1, <1>2, BoundsAssumption DEF Pane, Item
<1>9. kind \in [Item -> Kind]
  BY <1>1 DEF Kind
<1>10. nPanes \in 0..MaxPanes /\ nItems \in 0..MaxItems
  BY <1>1, <1>2, BoundsAssumption
<1>11. queue \in Seq(EventType)
  BY <1>1
<1>12. TypeOK
  BY <1>1, <1>3, <1>5, <1>6, <1>7, <1>8, <1>9, <1>10, <1>11 DEF TypeOK, RosterInv
<1>13. SnapshotsActive
  <2>1. SUFFICES ASSUME NEW g \in Existing
                 PROVE  saved[g].activePane \in Pane
    BY DEF SnapshotsActive
  <2>2. g \in 1..n
    BY <1>1, <1>2 DEF Existing
  <2>3. saved[g] = Fresh(g, {g})
    BY <1>1, <1>2, <1>3, <2>2
  <2>4. Fresh(g, {g}).activePane = g
    BY DEF Fresh
  <2>5. QED
    BY <1>3, <2>2, <2>3, <2>4
<1>14. QED
  BY <1>6, <1>12, <1>13 DEF TypeInv

LEMMA StepTypes ==
    ASSUME TypeInv, [Next]_vars
    PROVE  TypeInv'
<1>1. RosterInv'
  BY StepKeepsRoster DEF TypeInv
<1>2. CASE UNCHANGED vars
  BY <1>1, <1>2 DEF vars, live, tasks, ids, TypeInv, TypeOK, SnapshotsActive, Existing
<1>3. CASE GroupOperation
  <2>1. CASE \E i \in 1..Len(groups) : SwitchGroup(i)
    BY <1>1, <2>1, SwitchTypes DEF TypeInv
  <2>2. CASE \E i \in 1..Len(groups) : RemoveGroup(i)
    <3>1. PICK i \in 1..Len(groups) : RemoveGroup(i)
      BY <2>2
    <3>2. /\ Len(groups) > 1 /\ RemoveGroupAt(i) /\ nGroups' = nGroups
          /\ UNCHANGED <<queue, pending, nPanes, nItems, kind>>
      BY <3>1 DEF RemoveGroup, ids
    <3>3. RemovalTypes'
      BY <3>2, RemoveTypes
    <3>4. QED
      BY <1>1, <3>2, <3>3 DEF RemovalTypes, TypeInv, TypeOK
  <2>3. CASE \E from, to \in 1..Len(groups) : MoveGroup(from, to)
    BY <1>1, <2>3, MoveTypes DEF TypeInv
  <2>4. CASE AddGroup
    BY <1>1, <2>4, AddTypes DEF TypeInv
  <2>5. QED
    BY <1>3, <2>1, <2>2, <2>3, <2>4 DEF GroupOperation
<1>4. CASE PaneOperation
  BY <1>1, <1>4, PaneOperationTypes DEF TypeInv
<1>5. CASE Task
  BY <1>1, <1>5, TaskTypes DEF TypeInv
<1>6. CASE Message
  BY <1>1, <1>6, MessageTypes DEF TypeInv
<1>7. CASE HandlePaneEvent
  BY <1>1, <1>7, HandlerTypes DEF TypeInv
<1>8. QED
  BY <1>2, <1>3, <1>4, <1>5, <1>6, <1>7 DEF Next

THEOREM TypeInvariance == Spec => []TypeInv
<1>1. Init => TypeInv
  BY InitTypes
<1>2. TypeInv /\ [Next]_vars => TypeInv'
  BY StepTypes
<1>3. QED
  BY <1>1, <1>2, PTL DEF Spec

(* Type correctness: in particular the active index is always in range and   *)
(* loading a group always yields an active pane.                             *)
THEOREM TypeCorrect == Spec => []TypeOK
<1>1. TypeInv => TypeOK
  BY DEF TypeInv
<1>2. QED
  BY <1>1, TypeInvariance, PTL

-----------------------------------------------------------------------------
(* Panes of groups *)

(* Pane ids are never handed out twice, and every pane has one group.  The   *)
(* first part is what makes the second one inductive.                        *)
Separation ==
    /\ \A g \in Existing : PanesOf(g) \subseteq 1..nPanes
    /\ \A g, h \in Existing : g # h => PanesOf(g) \cap PanesOf(h) = {}

(* What a step may do to the panes of groups: take some away, and add one    *)
(* new pane to one group G.                                                  *)
PanesFollow(G) ==
    /\ nPanes' \in {nPanes, nPanes + 1}
    /\ \A g \in Existing' :
          \/ g \in Existing /\ PanesOf(g)' \subseteq PanesOf(g)
          \/ /\ g = G /\ nPanes' = nPanes + 1
             /\ g \notin Existing /\ PanesOf(g)' \subseteq {nPanes + 1}
          \/ /\ g = G /\ nPanes' = nPanes + 1
             /\ g \in Existing /\ PanesOf(g)' \subseteq PanesOf(g) \cup {nPanes + 1}

LEMMA FollowingSeparates ==
    ASSUME Separation, nPanes \in Nat, NEW G, PanesFollow(G)
    PROVE  Separation'
<1> DEFINE N == nPanes + 1
           Old(g) == IF g \in Existing THEN PanesOf(g) ELSE {}
           New(g) == PanesOf(g)'
<1>1. nPanes' \in Nat /\ 1..nPanes \subseteq 1..nPanes' /\ N \notin 1..nPanes
  BY DEF PanesFollow
<1>2. nPanes' = N => N \in 1..nPanes'
  OBVIOUS
<1>3. \A g : Old(g) \subseteq 1..nPanes
  BY DEF Separation
<1>4. \A g, h : g # h => Old(g) \cap Old(h) = {}
  BY DEF Separation
<1>5. \A g \in Existing' :
         \/ New(g) \subseteq Old(g)
         \/ g = G /\ nPanes' = N /\ New(g) \subseteq Old(g) \cup {N}
  BY DEF PanesFollow
<1>6. Separation' <=> /\ \A g \in Existing' : New(g) \subseteq 1..nPanes'
                      /\ \A g, h \in Existing' : g # h => New(g) \cap New(h) = {}
  BY DEF Separation
<1> HIDE DEF N, Old, New
<1>7. \A g \in Existing' : New(g) \subseteq 1..nPanes'
  BY <1>1, <1>2, <1>3, <1>5
<1>8. \A g, h \in Existing' : g # h => New(g) \cap New(h) = {}
  BY <1>1, <1>3, <1>4, <1>5
<1>9. QED
  BY <1>6, <1>7, <1>8

(* The steps that leave the list of groups alone.                            *)
LEMMA QuietStepFollows ==
    ASSUME UNCHANGED <<groups, active, nPanes>>, panes' \subseteq panes,
           \A g \in Existing : saved'[g].panes = saved[g].panes,
           NEW G
    PROVE  PanesFollow(G)
<1>1. Existing' = Existing /\ LiveGroup' = LiveGroup
  BY DEF Existing, LiveGroup
<1>2. \A g \in Existing : PanesOf(g)' \subseteq PanesOf(g)
  BY <1>1 DEF PanesOf
<1>3. QED
  BY <1>1, <1>2 DEF PanesFollow

LEMMA NewPaneFollows ==
    ASSUME UNCHANGED <<groups, active>>, nPanes' = nPanes + 1,
           panes' = panes \cup {nPanes + 1},
           \A g \in Existing : saved'[g].panes = saved[g].panes
    PROVE  PanesFollow(LiveGroup)
<1>1. Existing' = Existing /\ LiveGroup' = LiveGroup
  BY DEF Existing, LiveGroup
<1>2. \A g \in Existing : PanesOf(g)' = IF g = LiveGroup THEN PanesOf(g) \cup {nPanes + 1}
                                        ELSE PanesOf(g)
  BY <1>1 DEF PanesOf
<1>3. QED
  BY <1>1, <1>2 DEF PanesFollow

LEMMA RemovalFollows ==
    ASSUME TypeInv, Len(groups) > 1, NEW i \in 1..Len(groups), RemoveGroupAt(i),
           UNCHANGED <<nGroups, nPanes>>, NEW G
    PROVE  PanesFollow(G)
<1>1. /\ Existing' = Existing \ {groups[i]}
      /\ LiveGroup' = IF LiveGroup = groups[i]
                      THEN IF i > 1 THEN groups[i - 1] ELSE groups[2] ELSE LiveGroup
  BY RemovalKeepsRoster DEF TypeInv
<1>2. saved' = [saved EXCEPT ![groups[i]] = NoSnapshot] /\ saved \in [Group -> SnapshotType]
      /\ groups[i] \in Group /\ Existing \subseteq Group
  BY DEF RemoveGroupAt, TypeInv, TypeOK, RosterInv, Existing
<1>3. \A g \in Existing' : saved'[g] = saved[g]
  BY <1>1, <1>2
<1>4. panes' = PanesOf(LiveGroup') /\ LiveGroup' \in Existing'
  <2>1. LiveGroup = groups[i] <=> i = active
    BY DEF LiveGroup, TypeInv, RosterInv
  <2>2. CASE i = active
    <3>1. LiveGroup' = groups[FallbackIndex(i)]
      BY <1>1, <2>1, <2>2 DEF FallbackIndex
    <3>2. FallbackIndex(i) \in 1..Len(groups) /\ FallbackIndex(i) # i
      BY DEF FallbackIndex, TypeInv, RosterInv
    <3>3. LiveGroup' # LiveGroup /\ LiveGroup' \in Existing'
      BY <1>1, <2>1, <2>2, <3>1, <3>2 DEF TypeInv, RosterInv, Existing
    <3>4. panes' = saved[groups[FallbackIndex(i)]].panes
      BY <2>2 DEF RemoveGroupAt, Load
    <3>5. QED
      BY <3>1, <3>3, <3>4 DEF PanesOf
  <2>3. CASE i # active
    <3>1. panes' = panes
      BY <2>3 DEF RemoveGroupAt, Load, Snapshot
    <3>2. LiveGroup' = LiveGroup /\ LiveGroup \in Existing'
      BY <1>1, <2>1, <2>3 DEF TypeInv, RosterInv, Existing, LiveGroup
    <3>3. QED
      BY <3>1, <3>2 DEF PanesOf
  <2>4. QED
    BY <2>2, <2>3
<1>5. ASSUME NEW g \in Existing'
      PROVE  g \in Existing /\ PanesOf(g)' \subseteq PanesOf(g)
  <2>1. g \in Existing
    BY <1>1
  <2>2. CASE g = LiveGroup'
    BY <1>4, <2>1, <2>2 DEF PanesOf
  <2>3. CASE g # LiveGroup'
    <3>1. g # LiveGroup
      BY <1>1, <2>3
    <3>2. QED
      BY <1>3, <2>1, <2>3, <3>1 DEF PanesOf
  <2>4. QED
    BY <2>2, <2>3
<1>6. QED
  BY <1>5 DEF PanesFollow

LEMMA GroupOperationFollows ==
    ASSUME TypeInv, GroupOperation
    PROVE  \E G : PanesFollow(G)
<1>1. LiveGroup \in Existing /\ Existing \subseteq Group
  BY DEF TypeInv, RosterInv, LiveGroup, Existing
<1>2. /\ SyncActiveGroup \in [Group -> SnapshotType]
      /\ \A g \in Existing : SyncActiveGroup[g].panes = PanesOf(g)
  <2>1. Snapshot.panes = panes
    BY DEF Snapshot
  <2>2. QED
    BY <1>1, <2>1, SnapshotTypes DEF PanesOf
<1>3. ASSUME NEW i \in 1..Len(groups), SwitchGroup(i)
      PROVE  PanesFollow(LiveGroup)
  <2> DEFINE h == groups[i]
  <2>1. Existing' = Existing /\ LiveGroup' = h /\ h \in Existing /\ h # LiveGroup
    BY <1>3 DEF SwitchGroup, Existing, LiveGroup, TypeInv, RosterInv
  <2>2. panes' = PanesOf(h)
    BY <1>3, <2>1 DEF SwitchGroup, Load, PanesOf
  <2>3. \A g \in Existing : g # h => saved'[g] = SyncActiveGroup[g]
    BY <1>1, <1>2, <1>3 DEF SwitchGroup
  <2>4. nPanes' = nPanes
    BY <1>3 DEF SwitchGroup, ids
  <2> HIDE DEF h
  <2>5. \A g \in Existing : PanesOf(g)' = PanesOf(g)
    <3>1. SUFFICES ASSUME NEW g \in Existing
                   PROVE  PanesOf(g)' = PanesOf(g)
      OBVIOUS
    <3>2. CASE g = h
      BY <2>1, <2>2, <3>2 DEF PanesOf
    <3>3. CASE g # h
      <4>1. PanesOf(g)' = saved'[g].panes
        BY <2>1, <3>3 DEF PanesOf
      <4>2. QED
        BY <1>2, <2>3, <3>3, <4>1
    <3>4. QED
      BY <3>2, <3>3
  <2>6. QED
    BY <2>1, <2>4, <2>5 DEF PanesFollow
<1>4. ASSUME NEW from \in 1..Len(groups), NEW to \in 1..Len(groups), MoveGroup(from, to)
      PROVE  PanesFollow(LiveGroup)
  <2>1. Existing' = Existing /\ LiveGroup' = LiveGroup
    BY <1>4, MoveKeepsRoster DEF TypeInv
  <2>2. saved' = SyncActiveGroup /\ panes' = panes /\ nPanes' = nPanes
    BY <1>4 DEF MoveGroup, live, ids
  <2>3. \A g \in Existing : PanesOf(g)' = PanesOf(g)
    BY <1>2, <2>1, <2>2 DEF PanesOf
  <2>4. QED
    BY <2>1, <2>2, <2>3 DEF PanesFollow
<1>5. ASSUME AddGroup
      PROVE  \E G : PanesFollow(G)
  <2>0. PICK h : h = nGroups + 1
    OBVIOUS
  <2>1. /\ h \in Group /\ LiveGroup' = h /\ h \notin Existing
        /\ Existing' = Existing \cup {h}
    BY <1>5, <2>0, AdditionKeepsRoster DEF TypeInv
  <2>2. /\ saved' = [SyncActiveGroup EXCEPT ![h] = Fresh(nPanes + 1, {})]
        /\ panes' = {nPanes + 1} /\ nPanes' = nPanes + 1
    BY <1>5, <2>0 DEF AddGroup, Load, Fresh
  <2>3. \A g \in Existing : saved'[g] = SyncActiveGroup[g] /\ g # LiveGroup'
    BY <1>1, <1>2, <2>1, <2>2
  <2>4. \A g \in Existing : PanesOf(g)' = PanesOf(g)
    BY <1>2, <2>3 DEF PanesOf
  <2>5. PanesOf(h)' = {nPanes + 1}
    BY <2>1, <2>2 DEF PanesOf
  <2>6. PanesFollow(h)
    BY <2>1, <2>2, <2>4, <2>5 DEF PanesFollow
  <2>7. QED
    BY <2>6
<1>6. ASSUME NEW i \in 1..Len(groups), RemoveGroup(i)
      PROVE  PanesFollow(LiveGroup)
  <2>1. Len(groups) > 1 /\ RemoveGroupAt(i) /\ UNCHANGED <<nGroups, nPanes>>
    BY <1>6 DEF RemoveGroup, ids
  <2>2. QED
    BY <2>1, RemovalFollows
<1>7. QED
  BY <1>3, <1>4, <1>5, <1>6 DEF GroupOperation

LEMMA PaneOperationFollows ==
    ASSUME PaneOperation
    PROVE  \E G : PanesFollow(G)
<1>1. UNCHANGED <<groups, active, saved>>
  BY DEF PaneOperation, SplitEmpty, JoinEmpty, FocusPane, CloneItem, SplitMove,
     MoveItem, DrawFocus, OpenTerminal
<1>2. \/ panes' = panes /\ nPanes' = nPanes
      \/ panes' = panes \cup {nPanes + 1} /\ nPanes' = nPanes + 1
  BY DEF PaneOperation, SplitEmpty, JoinEmpty, FocusPane, CloneItem, SplitMove,
     MoveItem, DrawFocus, OpenTerminal, AddPane, live, ids
<1>3. QED
  BY <1>1, <1>2, QuietStepFollows, NewPaneFollows

LEMMA TaskFollows ==
    ASSUME Task
    PROVE  \E G : PanesFollow(G)
<1>1. UNCHANGED <<groups, active, saved>>
  BY DEF Task, CloseItem, CloseDone, TerminalReady, CloneReady, SpawnFailed
<1>2. \/ panes' = panes /\ nPanes' = nPanes
      \/ panes' = panes \cup {nPanes + 1} /\ nPanes' = nPanes + 1
  BY DEF Task, CloseItem, CloseDone, TerminalReady, CloneReady, SpawnFailed, AddPane,
     live, ids
<1>3. QED
  BY <1>1, <1>2, QuietStepFollows, NewPaneFollows

LEMMA MessageFollows ==
    ASSUME TypeInv, Message
    PROVE  \E G : PanesFollow(G)
<1>1. Existing \subseteq Group /\ LiveGroup \in Existing
  BY DEF TypeInv, RosterInv, LiveGroup, Existing
<1>2. \A it : \A g \in Existing : Rung(it)[g].panes = saved[g].panes
  BY <1>1, SnapshotTypes
<1>3. ASSUME NEW it \in Item, NotifyBell(it)
      PROVE  PanesFollow(LiveGroup)
  <2>1. UNCHANGED <<groups, active, nPanes, panes>> /\ saved' = Rung(it)
    BY <1>3 DEF NotifyBell, live, ids
  <2>2. QED
    BY <1>2, <2>1, QuietStepFollows
<1>4. ASSUME NEW it \in Item, NEW a \in Agent, NEW i \in 1..Len(groups),
             SubagentStart(it, a, i)
      PROVE  \E G : PanesFollow(G)
  <2>1. UNCHANGED <<groups, active>>
    BY <1>4 DEF SubagentStart
  <2>2. CASE saved' = Rung(it) /\ UNCHANGED <<panes, nPanes>>
    BY <1>2, <2>1, <2>2, QuietStepFollows
  <2>3. CASE saved' = Rung(it) /\ AddPane(nPanes + 1)
    BY <1>2, <2>1, <2>3, NewPaneFollows DEF AddPane
  <2>4. CASE /\ i # active /\ nPanes' = nPanes + 1
             /\ saved' = [Rung(it) EXCEPT ![groups[i]].panes = @ \cup {nPanes + 1},
                                          ![groups[i]].center = @ \cup {nPanes + 1}]
             /\ UNCHANGED panes
    <3>0. PICK h : h = groups[i]
      OBVIOUS
    <3>1. /\ h \in Existing /\ h \in Group /\ h # LiveGroup
          /\ Existing' = Existing /\ LiveGroup' = LiveGroup
      BY <2>1, <2>4, <3>0 DEF TypeInv, RosterInv, Existing, LiveGroup
    <3>2. Rung(it) \in [Group -> SnapshotType]
      BY SnapshotTypes
    <3>3. saved' = [Rung(it) EXCEPT ![h].panes = @ \cup {nPanes + 1},
                                    ![h].center = @ \cup {nPanes + 1}]
      BY <2>4, <3>0
    <3>4. /\ saved'[h].panes = Rung(it)[h].panes \cup {nPanes + 1}
          /\ \A g \in Group \ {h} : saved'[g] = Rung(it)[g]
      BY <3>1, <3>2, <3>3 DEF SnapshotType
    <3>5. PanesOf(h)' = PanesOf(h) \cup {nPanes + 1}
      BY <1>2, <3>1, <3>4 DEF PanesOf
    <3>6. \A g \in Existing \ {h} : PanesOf(g)' = PanesOf(g)
      BY <1>1, <1>2, <2>4, <3>1, <3>4 DEF PanesOf
    <3>7. PanesFollow(h)
      BY <2>4, <3>1, <3>5, <3>6 DEF PanesFollow
    <3>8. QED
      BY <3>7
  <2>5. QED
    BY <1>4, <2>2, <2>3, <2>4 DEF SubagentStart
<1>5. QED
  BY <1>3, <1>4 DEF Message

LEMMA HandlerFollows ==
    ASSUME TypeInv, HandlePaneEvent
    PROVE  \E G : PanesFollow(G)
<1>1. CASE HandleAddItem \/ HandleActivateItem \/ HandleRemove
  <2>1. UNCHANGED <<groups, active, saved, nPanes>> /\ panes' \subseteq panes
    BY <1>1 DEF HandleAddItem, HandleActivateItem, HandleRemove, ids
  <2>2. QED
    BY <2>1, QuietStepFollows
<1>2. CASE HandleRemovedItem
  <2>1. CASE AllPanesEmpty /\ Len(groups) > 1
    <3>1. /\ RemoveGroupAt(active) /\ UNCHANGED <<nGroups, nPanes>>
          /\ active \in 1..Len(groups)
      BY <1>2, <2>1 DEF HandleRemovedItem, ids, TypeInv, RosterInv
    <3>2. QED
      BY <2>1, <3>1, RemovalFollows
  <2>2. CASE ~ (AllPanesEmpty /\ Len(groups) > 1)
    <3>1. UNCHANGED <<groups, active, saved, nPanes, panes>>
      BY <1>2, <2>2 DEF HandleRemovedItem, ids
    <3>2. QED
      BY <3>1, QuietStepFollows
  <2>3. QED
    BY <2>1, <2>2
<1>3. QED
  BY <1>1, <1>2 DEF HandlePaneEvent

LEMMA InitSeparates ==
    ASSUME Init
    PROVE  Separation
<1>1. PICK n \in 1..RestoredGroups :
          /\ groups = [i \in 1..n |-> i]
          /\ active \in 1..n
          /\ saved = [g \in Group |-> IF g <= n THEN Fresh(g, {g}) ELSE NoSnapshot]
          /\ panes = {active}
          /\ nPanes = n
  BY DEF Init
<1>2. n \in Nat /\ n <= MaxGroups /\ n <= MaxPanes
  BY BoundsAssumption
<1>3. Existing = 1..n /\ 1..n \subseteq Group /\ LiveGroup = active
  BY <1>1, <1>2, BoundsAssumption DEF Existing, LiveGroup, Group
<1>4. \A g \in 1..n : saved[g].panes = {g}
  BY <1>1, <1>2, <1>3 DEF Fresh
<1>5. \A g \in Existing : PanesOf(g) = {g}
  BY <1>1, <1>3, <1>4 DEF PanesOf
<1>6. QED
  BY <1>1, <1>2, <1>3, <1>5 DEF Separation

LEMMA StepSeparates ==
    ASSUME TypeInv, Separation, [Next]_vars
    PROVE  Separation'
<1>1. \E G : PanesFollow(G)
  <2>1. CASE UNCHANGED vars
    BY <2>1, QuietStepFollows DEF vars, live, ids
  <2>2. QED
    BY <2>1, GroupOperationFollows, PaneOperationFollows, TaskFollows, MessageFollows,
       HandlerFollows DEF Next
<1>2. nPanes \in Nat
  BY BoundsAssumption DEF TypeInv, TypeOK
<1>3. QED
  BY <1>1, <1>2, FollowingSeparates

(* No pane is ever in two groups, whatever the numbers of groups, panes,     *)
(* items and tasks, and in every order of operations, messages and events.   *)
THEOREM GroupsSeparate == Spec => []PanesDisjoint
<1>1. Init => Separation
  BY InitSeparates
<1>2. TypeInv /\ Separation /\ [Next]_vars => Separation'
  BY StepSeparates
<1>3. RosterInv /\ Separation => PanesDisjoint
  <2>1. ASSUME RosterInv
        PROVE  LiveGroup \in Existing
    BY <2>1 DEF RosterInv, LiveGroup, Existing
  <2>2. QED
    BY <2>1 DEF Separation, PanesOf, PanesDisjoint, Background
<1>4. TypeInv => RosterInv
  BY DEF TypeInv
<1>5. QED
  BY <1>1, <1>2, <1>3, <1>4, TypeInvariance, PTL DEF Spec

=============================================================================
