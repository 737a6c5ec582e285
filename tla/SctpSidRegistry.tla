--------------------------- MODULE SctpSidRegistry ---------------------------
(***************************************************************************)
(* What MediaStreamSignaling's SCTP stream-id bookkeeping promises, with    *)
(* no cursors and no list order: a set of listed channels, each holding at  *)
(* most one sid, where                                                      *)
(*   - a sid is only ever given to a listed channel when no listed channel  *)
(*     holds it;                                                            *)
(*   - a channel that has a sid keeps it while it is listed;                *)
(*   - a channel without a sid can only be listed before the DTLS role is   *)
(*     known, and gets its sid when the role becomes known, of the role's   *)
(*     parity (even for the client, odd for the server), or keeps none when *)
(*     that parity is exhausted;                                            *)
(*   - a channel leaves the list only by releasing its sid, or when the     *)
(*     whole list is dropped.                                               *)
(* Failed allocations, cursor moves and closes that release nothing are     *)
(* stuttering steps here.                                                   *)
(***************************************************************************)
EXTENDS Integers, FiniteSets

CONSTANTS
    Channels,   \* DataChannel objects
    MaxSid,     \* cricket::kMaxSctpSid
    NoSid       \* the id of a channel that has none

Sids == 0..MaxSid

VARIABLES
    listed,   \* the channels in the list
    ids,      \* [Channels -> Sids \cup {NoSid}]; NoSid for unlisted channels
    role      \* the DTLS role once known, "none" before

vars == <<listed, ids, role>>

InUse == {ids[c] : c \in listed} \ {NoSid}

Free(s) == s \in Sids /\ s \notin InUse

\* The parity the role allocates from.
OfRoleParity(r, s) == (r = "client") = (s % 2 = 0)

Init ==
    /\ listed = {}
    /\ ids = [c \in Channels |-> NoSid]
    /\ role = "none"

\* A channel is listed with a free sid, or without one before the role is
\* known.
Register(c, s) ==
    /\ c \notin listed
    /\ \/ s = NoSid /\ role = "none"
       \/ Free(s)
    /\ listed' = listed \cup {c}
    /\ ids' = [ids EXCEPT ![c] = s]
    /\ UNCHANGED role

\* The role becomes known: each listed channel without a sid gets a free
\* one of the role's parity, or stays without; no two get the same.
AssignIds(r) ==
    LET waiting == {c \in listed : ids[c] = NoSid}
        Choices == {s \in Sids : Free(s) /\ OfRoleParity(r, s)} \cup {NoSid}
    IN  /\ role = "none"
        /\ role' = r
        /\ \E f \in [waiting -> Choices] :
             /\ \A c, d \in waiting : c # d /\ f[c] # NoSid => f[c] # f[d]
             /\ ids' = [c \in Channels |-> IF c \in waiting THEN f[c] ELSE ids[c]]
        /\ UNCHANGED listed

\* A listed channel releases its sid and leaves the list.
Release(c) ==
    /\ c \in listed
    /\ ids[c] # NoSid
    /\ listed' = listed \ {c}
    /\ ids' = [ids EXCEPT ![c] = NoSid]
    /\ UNCHANGED role

\* The whole list is dropped.
DropAll ==
    /\ listed # {}
    /\ listed' = {}
    /\ ids' = [c \in Channels |-> NoSid]
    /\ UNCHANGED role

Next ==
    \/ \E c \in Channels, s \in Sids \cup {NoSid} : Register(c, s)
    \/ \E r \in {"client", "server"} : AssignIds(r)
    \/ \E c \in Channels : Release(c)
    \/ DropAll

Spec == Init /\ [][Next]_vars

=============================================================================
