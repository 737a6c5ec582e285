------------------------------- MODULE SctpSid -------------------------------
(***************************************************************************)
(* SCTP stream-id bookkeeping of MediaStreamSignaling                       *)
(* (src/talk/app/webrtc/mediastreamsignaling.cc): the two parity cursors   *)
(* last_allocated_sctp_even_sid_ / last_allocated_sctp_odd_sid_, the list   *)
(* sctp_data_channels_, and every operation that reads or changes them.    *)
(* All of them run on the signaling thread, so each one is one atomic step. *)
(*                                                                         *)
(* The DataChannel objects themselves (talk/app/webrtc/datachannel.cc) and  *)
(* the session code that creates them are not part of the sources; their   *)
(* part (creating a channel, closing it, reporting that it is closed) is   *)
(* modelled from the spec and marked so in PROJECT.json.                   *)
(***************************************************************************)
EXTENDS Integers, Sequences, SequencesExt, FiniteSets

CONSTANTS
    Channels,   \* DataChannel objects that may be created (model values)
    MaxSid,     \* cricket::kMaxSctpSid
    PeerSids,   \* sids the remote peer may put in an OPEN message
    CursorBound,\* model bound: a failed allocation still moves the cursor
                \* up by two, so retried failures are cut off at this value
    MaxPendingCloses \* bound on MSG_STREAMCLOSEDREMOTELY messages in flight

ASSUME MaxSid \in Nat /\ PeerSids \subseteq 0..MaxSid /\ CursorBound > MaxSid
ASSUME MaxPendingCloses \in Nat

NoSid == -1                       \* DataChannel::id() before a sid is set
Roles == {"client", "server"}     \* rtc::SSL_CLIENT, rtc::SSL_SERVER
Parities == {"even", "odd"}
\* Lifecycle of a DataChannel object as seen from this component.
Status == {"new", "live", "closing", "gone"}

VARIABLES
    lastAllocated,  \* [Parities -> Int]: the two last_allocated_* cursors
    sctpChannels,   \* sctp_data_channels_: sequence of channels
    sid,            \* [Channels -> Int]: each channel's id()
    status,         \* [Channels -> Status]
    role,           \* the DTLS role once known, "none" before
    closedMsgs      \* MSG_STREAMCLOSEDREMOTELY posted to the signaling
                    \* thread, in order: [sid, holder], where holder (a
                    \* history field) is the channel that held sid when the
                    \* peer reset the stream

vars == <<lastAllocated, sctpChannels, sid, status, role, closedMsgs>>

-----------------------------------------------------------------------------
(* Helpers translated from MediaStreamSignaling.                           *)

\* Mutant of ParityOf: the roles' cursors swapped.
ParityOfSwapped(r) == IF r = "client" THEN "odd" ELSE "even"

\* Which cursor AllocateSctpSid uses for a role.
ParityOf(r) == IF r = "client" THEN "even" ELSE "odd"

\* rtc::IsEven / rtc::IsOdd on an int (IsOdd(-1) holds: -1 & 1 = 1).
IsEven(n) == n % 2 = 0

\* FindDataChannelBySid: index (1-based, 0 if none) of the first channel
\* of the list whose id is s, under the id function ids.
FindDataChannelBySid(s, chans, ids) == SelectInSeq(chans, LAMBDA c : ids[c] = s)

\* IsSctpSidAvailable.
IsSctpSidAvailable(s, chans, ids) ==
    /\ s >= 0
    /\ s <= MaxSid
    /\ FindDataChannelBySid(s, chans, ids) = 0

\* Mutant of NextCandidate: the loop stops at the first candidate without
\* asking IsSctpSidAvailable.
NextCandidateUnchecked(l, chans, ids) == l

\* The do/while loop of AllocateSctpSid, starting from candidate l.
RECURSIVE NextCandidate(_, _, _)
NextCandidate(l, chans, ids) ==
    IF l <= MaxSid /\ ~IsSctpSidAvailable(l, chans, ids)
    THEN NextCandidate(l + 2, chans, ids)
    ELSE l

\* Mutant of AllocateSctpSid: the `last_id > kMaxSctpSid` check is lost,
\* so the loop's exit value is handed out.
AllocateSctpSidUnbounded(r, la, chans, ids) ==
    LET p == ParityOf(r)
        l == NextCandidate(la[p] + 2, chans, ids)
    IN  [last |-> [la EXCEPT ![p] = l], ok |-> TRUE, sid |-> l]

\* AllocateSctpSid(role): the cursor moves (through the reference last_id)
\* even when the allocation fails.
AllocateSctpSid(r, la, chans, ids) ==
    LET p == ParityOf(r)
        l == NextCandidate(la[p] + 2, chans, ids)
    IN  [last |-> [la EXCEPT ![p] = l], ok |-> l <= MaxSid, sid |-> l]

\* The loop of OnDtlsRoleReadyForSctp from list position i on: every
\* channel without an id is given one; a failed allocation is logged and
\* the loop goes on.
RECURSIVE RoleReadyLoop(_, _, _, _)
RoleReadyLoop(r, i, la, ids) ==
    IF i > Len(sctpChannels) THEN [last |-> la, ids |-> ids]
    ELSE LET c == sctpChannels[i] IN
         IF ids[c] >= 0 THEN RoleReadyLoop(r, i + 1, la, ids)
         ELSE LET a == AllocateSctpSid(r, la, sctpChannels, ids)
              IN  RoleReadyLoop(r, i + 1, a.last,
                                IF a.ok THEN [ids EXCEPT ![c] = a.sid] ELSE ids)

\* RemoveSctpDataChannel(s): erase the first channel with id s and rewind
\* the cursor of s's parity when s is not above it.
RemoveSctpDataChannel(s) ==
    LET i == FindDataChannelBySid(s, sctpChannels, sid) IN
    IF i = 0 THEN UNCHANGED <<sctpChannels, lastAllocated>>
    ELSE /\ sctpChannels' = RemoveAt(sctpChannels, i)
         /\ lastAllocated' =
              IF IsEven(s) /\ s <= lastAllocated["even"]
              THEN [lastAllocated EXCEPT !["even"] = s - 2]
              ELSE IF ~IsEven(s) /\ s <= lastAllocated["odd"]
              THEN [lastAllocated EXCEPT !["odd"] = s - 2]
              ELSE lastAllocated

-----------------------------------------------------------------------------
Init ==
    /\ lastAllocated = [p \in Parities |-> IF p = "even" THEN -2 ELSE -1]
    /\ sctpChannels = <<>>
    /\ sid = [c \in Channels |-> NoSid]
    /\ status = [c \in Channels |-> "new"]
    /\ role = "none"
    /\ closedMsgs = <<>>

(* The application creates an SCTP channel, optionally with an explicit   *)
(* id (spec 4.4 and the session's CreateDataChannel): without an id and    *)
(* with the DTLS role known, an id is allocated and creation fails when   *)
(* none is left; an explicit id must be available; the new channel is then *)
(* appended by AddDataChannel.                                            *)
CreateDataChannel(c, requested) ==
    /\ status[c] = "new"
    /\ \/ /\ requested = NoSid
          /\ role = "none"
          /\ sctpChannels' = Append(sctpChannels, c)
          /\ status' = [status EXCEPT ![c] = "live"]
          /\ UNCHANGED <<lastAllocated, sid>>
       \/ /\ requested = NoSid
          /\ role # "none"
          /\ lastAllocated[ParityOf(role)] < CursorBound
          /\ LET a == AllocateSctpSid(role, lastAllocated, sctpChannels, sid) IN
             /\ lastAllocated' = a.last
             /\ IF a.ok
                THEN /\ sid' = [sid EXCEPT ![c] = a.sid]
                     /\ sctpChannels' = Append(sctpChannels, c)
                     /\ status' = [status EXCEPT ![c] = "live"]
                ELSE UNCHANGED <<sid, sctpChannels, status>>
       \/ /\ requested >= 0
          /\ IsSctpSidAvailable(requested, sctpChannels, sid)
          /\ sid' = [sid EXCEPT ![c] = requested]
          /\ sctpChannels' = Append(sctpChannels, c)
          /\ status' = [status EXCEPT ![c] = "live"]
          /\ UNCHANGED lastAllocated
    /\ UNCHANGED <<role, closedMsgs>>

(* AddDataChannelFromOpenMessage: the peer opened stream s; the factory    *)
(* creates the acker-side channel with config.id = s, which it refuses     *)
(* when s is not available, and AddDataChannel appends it.                 *)
AddDataChannelFromOpenMessage(c, s) ==
    /\ status[c] = "new"
    /\ IsSctpSidAvailable(s, sctpChannels, sid)
    /\ sid' = [sid EXCEPT ![c] = s]
    /\ sctpChannels' = Append(sctpChannels, c)
    /\ status' = [status EXCEPT ![c] = "live"]
    /\ UNCHANGED <<lastAllocated, role, closedMsgs>>

(* OnDtlsRoleReadyForSctp(r): the DTLS role became known.                  *)
OnDtlsRoleReadyForSctp(r) ==
    /\ role = "none"
    /\ role' = r
    /\ LET res == RoleReadyLoop(r, 1, lastAllocated, sid) IN
       /\ lastAllocated' = res.last
       /\ sid' = res.ids
    /\ UNCHANGED <<sctpChannels, status, closedMsgs>>

(* The application closes a channel (DataChannel::Close).                  *)
Close(c) ==
    /\ status[c] = "live"
    /\ status' = [status EXCEPT ![c] = "closing"]
    /\ UNCHANGED <<lastAllocated, sctpChannels, sid, role, closedMsgs>>

(* The peer resets stream s: the SCTP media channel's                     *)
(* SignalStreamClosedRemotely reaches DataChannel::OnStreamClosedRemotely  *)
(* on the worker thread, which posts MSG_STREAMCLOSEDREMOTELY(s) to the    *)
(* signaling thread.  The peer resets only a stream some channel holds.    *)
OnStreamClosedRemotely(s) ==
    LET i == FindDataChannelBySid(s, sctpChannels, sid) IN
    /\ i # 0
    /\ Len(closedMsgs) < MaxPendingCloses
    /\ closedMsgs' = Append(closedMsgs, [sid |-> s, holder |-> sctpChannels[i]])
    /\ UNCHANGED <<lastAllocated, sctpChannels, sid, status, role>>

(* OnRemoteSctpDataChannelClosed(s): close the channel with id s; an       *)
(* unknown s is only logged.  DataChannel::Close of a channel already      *)
(* closing does nothing.                                                   *)
OnRemoteSctpDataChannelClosed(s) ==
    LET i == FindDataChannelBySid(s, sctpChannels, sid) IN
    IF i # 0 /\ status[sctpChannels[i]] = "live"
    THEN status' = [status EXCEPT ![sctpChannels[i]] = "closing"]
    ELSE UNCHANGED status

(* DataChannel::OnMessage(MSG_STREAMCLOSEDREMOTELY) on the signaling      *)
(* thread: SignalStreamClosedRemotely(sid), connected to                  *)
(* OnRemoteSctpDataChannelClosed.                                         *)
DeliverStreamClosedRemotely ==
    /\ closedMsgs # <<>>
    /\ closedMsgs' = Tail(closedMsgs)
    /\ OnRemoteSctpDataChannelClosed(Head(closedMsgs).sid)
    /\ UNCHANGED <<lastAllocated, sctpChannels, sid, role>>

(* The closing handshake of a channel completes and the channel releases  *)
(* its stream through RemoveSctpDataChannel (whose ASSERT(sid >= 0) the    *)
(* caller honours: a channel that never got an id releases nothing).       *)
ChannelClosed(c) ==
    /\ status[c] = "closing"
    /\ status' = [status EXCEPT ![c] = "gone"]
    /\ IF sid[c] >= 0 THEN RemoveSctpDataChannel(sid[c])
                      ELSE UNCHANGED <<sctpChannels, lastAllocated>>
    /\ UNCHANGED <<sid, role, closedMsgs>>

(* OnDataChannelClose (TearDown, or the data transport going away): the    *)
(* list is swapped out and every channel in it is closed by the engine;    *)
(* their RemoveSctpDataChannel callbacks find an empty list.               *)
OnDataChannelClose ==
    /\ sctpChannels # <<>>
    /\ sctpChannels' = <<>>
    /\ status' = [c \in Channels |->
                    IF c \in Range(sctpChannels) THEN "gone" ELSE status[c]]
    /\ UNCHANGED <<lastAllocated, sid, role, closedMsgs>>

Next ==
    \/ \E c \in Channels, s \in {NoSid} \cup (0..MaxSid) : CreateDataChannel(c, s)
    \/ \E c \in Channels, s \in PeerSids : AddDataChannelFromOpenMessage(c, s)
    \/ \E r \in Roles : OnDtlsRoleReadyForSctp(r)
    \/ \E c \in Channels : Close(c)
    \/ \E s \in 0..MaxSid : OnStreamClosedRemotely(s)
    \/ DeliverStreamClosedRemotely
    \/ \E c \in Channels : ChannelClosed(c)
    \/ OnDataChannelClose

Spec == Init /\ [][Next]_vars

-----------------------------------------------------------------------------
(* Properties.                                                             *)

TypeOK ==
    /\ lastAllocated \in [Parities -> Int]
    /\ sctpChannels \in Seq(Channels)
    /\ sid \in [Channels -> {NoSid} \cup (0..MaxSid)]
    /\ status \in [Channels -> Status]
    /\ role \in Roles \cup {"none"}
    /\ closedMsgs \in Seq([sid : 0..MaxSid, holder : Channels])

\* Spec 3: an SCTP sid is never held by two channels at once.  Breaking it
\* takes an explicit id or a peer-chosen id sitting ahead of the cursor and
\* an allocation (on create or in OnDtlsRoleReadyForSctp) reaching it.
SidsUnique ==
    \A i, j \in DOMAIN sctpChannels :
        /\ i # j
        /\ sid[sctpChannels[i]] >= 0
        => sid[sctpChannels[i]] # sid[sctpChannels[j]]

\* The comment of AllocateSctpSid: it "gets the first unused" id of the
\* role's parity.  With the cursor scheme that holds exactly when every id
\* of a parity at or below its cursor is held by a listed channel.
NoFreeSidBelowCursor ==
    \A s \in 0..MaxSid :
        LET p == IF IsEven(s) THEN "even" ELSE "odd" IN
        s <= lastAllocated[p] => FindDataChannelBySid(s, sctpChannels, sid) # 0

\* The bookkeeping as SctpSidRegistry sees it: the channels in the list and
\* the sids they hold.
Registry == INSTANCE SctpSidRegistry
              WITH listed <- Range(sctpChannels),
                   ids <- [c \in Channels |->
                             IF c \in Range(sctpChannels) THEN sid[c] ELSE NoSid]

\* SctpSid implements SctpSidRegistry: every allocation (on create and in
\* OnDtlsRoleReadyForSctp) hands out an id no listed channel holds, of the
\* DTLS role's parity when the role decides it, ids never change while a
\* channel is listed, and a channel leaves the list only by releasing its
\* own id through RemoveSctpDataChannel or in OnDataChannelClose.
RegistrySpec == Registry!Spec

\* Spec 3 and 8: releasing an id rewinds the cursor of its parity by two,
\* and only when it was the last id handed out; an id released out of
\* order is not reused before the cursor passes it again.
CursorRewindsOnlyFromTail ==
    [][\A p \in Parities :
         lastAllocated'[p] < lastAllocated[p] =>
             lastAllocated'[p] = lastAllocated[p] - 2]_lastAllocated

=============================================================================
