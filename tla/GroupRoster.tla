------------------------------ MODULE GroupRoster ------------------------------
(***************************************************************************)
(* What the workspace promises about its list of groups, without panes:    *)
(* groups are identified by what they are, never by an index.  One group   *)
(* is shown; it changes only when another one is chosen or added, or when  *)
(* it goes away itself, and then a neighbour in the list is shown.         *)
(* Reordering the list or removing another group leaves it alone.          *)
(***************************************************************************)
EXTENDS Naturals, Sequences, SequencesExt

CONSTANT Group

VARIABLES roster,  \* the groups in the order of the panel
          shown,   \* the group on screen
          used     \* groups that were ever created

Positions == 1..Len(roster)

Init ==
    /\ roster \in Seq(Group) /\ roster # <<>>
    /\ \A i, j \in Positions : roster[i] = roster[j] => i = j
    /\ shown \in {roster[i] : i \in Positions}
    /\ used = {roster[i] : i \in Positions}

Choose ==
    /\ shown' \in {roster[i] : i \in Positions}
    /\ UNCHANGED <<roster, used>>

Add ==
    \E g \in Group \ used :
        /\ roster' = Append(roster, g)
        /\ shown' = g
        /\ used' = used \cup {g}

Reorder ==
    \E from, to \in Positions :
        /\ roster' = InsertAt(RemoveAt(roster, from), to, roster[from])
        /\ UNCHANGED <<shown, used>>

Neighbour(i) == IF i > 1 THEN roster[i - 1] ELSE roster[2]

Drop ==
    \E i \in Positions :
        /\ Len(roster) > 1
        /\ roster' = RemoveAt(roster, i)
        /\ shown' = IF shown = roster[i] THEN Neighbour(i) ELSE shown
        /\ UNCHANGED used

Next == Choose \/ Add \/ Reorder \/ Drop

Spec == Init /\ [][Next]_<<roster, shown, used>>
=============================================================================
