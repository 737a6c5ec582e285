------------------------ MODULE RtpDataChannelTable ------------------------
(***************************************************************************)
(* What MediaStreamSignaling's table of RTP data channels promises, with   *)
(* no walk and no iteration order: a table from labels to channels that    *)
(* are live (connecting or open) or closed, and the labels last offered.   *)
(*   - a channel is only added for a label not in the table, and is live;  *)
(*   - a closed channel never becomes live again while it is in the table; *)
(*   - after a remote description the table holds exactly its labels: the  *)
(*     labels already tracked keep their channel, the new ones get a live  *)
(*     one;                                                                 *)
(*   - after a local description the offered labels keep their channel;    *)
(*     of the others, every closed one leaves and a live one may leave     *)
(*     (closed by zeroing its send SSRC) or stay;                          *)
(*   - teardown empties the table.                                         *)
(***************************************************************************)
EXTENDS FiniteSets, Functions, TLC

CONSTANTS
    Labels

VARIABLES
    table,    \* label -> "live" | "closed", for the labels in the table
    offered   \* the labels of the last session options

vars == <<table, offered>>

LiveLabels == {l \in DOMAIN table : table[l] = "live"}

Init ==
    /\ table = [l \in {} |-> "live"]
    /\ offered = {}

Add(l) ==
    /\ l \notin DOMAIN table
    /\ table' = (l :> "live") @@ table
    /\ UNCHANGED offered

Close(l) ==
    /\ l \in LiveLabels
    /\ table' = [table EXCEPT ![l] = "closed"]
    /\ UNCHANGED offered

Offer ==
    /\ offered' = LiveLabels
    /\ UNCHANGED table

ApplyRemote(streams) ==
    /\ table' = [l \in streams |-> IF l \in DOMAIN table THEN table[l]
                                                          ELSE "live"]
    /\ UNCHANGED offered

ApplyLocal ==
    \E gone \in SUBSET (DOMAIN table \ offered) :
        /\ \A l \in DOMAIN table \ offered : table[l] = "closed" => l \in gone
        /\ table' = Restrict(table, DOMAIN table \ gone)
        /\ UNCHANGED offered

Teardown ==
    /\ table' = [l \in {} |-> "live"]
    /\ UNCHANGED offered

Next ==
    \/ \E l \in Labels : Add(l) \/ Close(l)
    \/ Offer
    \/ \E s \in SUBSET Labels : ApplyRemote(s)
    \/ ApplyLocal
    \/ Teardown

Spec == Init /\ [][Next]_vars

=============================================================================
