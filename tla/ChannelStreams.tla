--------------------------- MODULE ChannelStreams ---------------------------
(***************************************************************************)
(* The stream sub-step of BaseChannel::SetBaseLocalContent_w and           *)
(* SetBaseRemoteContent_w: UpdateLocalStreams_w keeps local_streams_ and   *)
(* the media channel's send streams, UpdateRemoteStreams_w keeps           *)
(* remote_streams_, the media channel's receive streams and the bundle     *)
(* filter's streams.  The `ret &=` chain of SetBase*Content_w runs this    *)
(* sub-step on every content call, whatever the earlier sub-steps          *)
(* returned, so each content call is one step here (Channel models the    *)
(* same sub-step only as a failure that may happen).  The public          *)
(* AddRecvStream / RemoveRecvStream / AddSendStream / RemoveSendStream of  *)
(* BaseChannel interleave with the content calls.                         *)
(*                                                                         *)
(* A StreamParams is reduced to its ids (groupid and id together) and its *)
(* first SSRC, NoSsrc when it has none.  A media-channel side is a record *)
(* [list, media, bundle]: the recorded StreamParams vector, the first     *)
(* SSRCs the media channel has streams for, and the bundle filter's.      *)
(***************************************************************************)
EXTENDS Naturals, SequencesExt

CONSTANTS
    StreamIds,       \* groupid/id pairs
    Ssrcs,           \* SSRCs
    NoSsrc,          \* first_ssrc() of a StreamParams without SSRCs
    Actions,         \* ContentActions the descriptions use
    MaxDescStreams,  \* bound on the streams in one description
    MaxEngineFaults, \* bound on the content calls during which the engine fails
    MaxDirectCalls   \* bound on the direct stream calls in a behaviour

ASSUME NoSsrc \notin Ssrcs /\ MaxDescStreams \in Nat
ASSUME Actions \subseteq {"offer", "pranswer", "answer", "update"}

Streams == [id : StreamIds, ssrc : Ssrcs \cup {NoSsrc}]

VARIABLES
    sendSide,   \* [list |-> local_streams_, media |-> send streams, bundle |-> {}]
    recvSide,   \* [list |-> remote_streams_, media |-> receive streams, bundle]
    lastOk,     \* what the last stream update returned to SetBase*Content_w
    faultCalls, \* content calls so far during which the engine failed a call
    directCalls \* direct stream calls so far

vars == <<sendSide, recvSide, lastOk, faultCalls, directCalls>>

-----------------------------------------------------------------------------
(* Lookups of streamparams.h.                                              *)

\* GetStreamBySsrc: a StreamParams without SSRCs never matches.
HasStreamBySsrc(list, ssrc) ==
    ssrc # NoSsrc /\ \E i \in 1..Len(list) : list[i].ssrc = ssrc

\* GetStreamByIds: the index of the first stream with these ids, or 0.
StreamIndexByIds(list, id) == SelectInSeq(list, LAMBDA e : e.id = id)

\* RemoveStreamBySsrc: every stream with this first SSRC.
RemoveStreamBySsrc(list, ssrc) == SelectSeq(list, LAMBDA e : e.ssrc # ssrc)

-----------------------------------------------------------------------------
(* The media channel and the bundle filter.  A stream without SSRCs, or   *)
(* with an SSRC the channel already has, is refused.  Besides, the engine  *)
(* may fail a call for any SSRC: `faults` are the SSRCs whose add or       *)
(* remove the media channel refuses during one content call.              *)

EngineAdd(side, sp, faults) ==
    LET ok == sp.ssrc # NoSsrc /\ sp.ssrc \notin side.media /\ sp.ssrc \notin faults
    IN  [ok |-> ok,
         side |-> [side EXCEPT !.media = IF ok THEN @ \cup {sp.ssrc} ELSE @]]

EngineRemove(side, ssrc, faults) ==
    LET ok == ssrc \in side.media /\ ssrc \notin faults
    IN  [ok |-> ok,
         side |-> [side EXCEPT !.media = IF ok THEN @ \ {ssrc} ELSE @]]

\* MediaChannel::AddSendStream / RemoveSendStream.
AddSendStream(side, sp, faults) == EngineAdd(side, sp, faults)
RemoveSendStream(side, ssrc, faults) == EngineRemove(side, ssrc, faults)

\* Mutant of AddRecvStream_w: the bundle filter is given the stream before
\* the media channel is asked.
AddRecvStream_wBundleFirst(side, sp, faults) ==
    LET bok == sp.ssrc \notin side.bundle
        s1 == [side EXCEPT !.bundle = IF bok THEN @ \cup {sp.ssrc} ELSE @]
        r == EngineAdd(s1, sp, faults)
    IN  [ok |-> r.ok /\ bok, side |-> r.side]

\* BaseChannel::AddRecvStream_w: the media channel, then the bundle filter
\* (which refuses an SSRC it already has).
AddRecvStream_w(side, sp, faults) ==
    LET r == EngineAdd(side, sp, faults)
        bok == sp.ssrc \notin side.bundle
    IN  IF ~r.ok THEN r
        ELSE [ok |-> bok,
              side |-> [r.side EXCEPT !.bundle = IF bok THEN @ \cup {sp.ssrc} ELSE @]]

\* BaseChannel::RemoveRecvStream_w: the bundle filter first, then the media
\* channel, whose answer is returned.
RemoveRecvStream_w(side, ssrc, faults) ==
    EngineRemove([side EXCEPT !.bundle = @ \ {ssrc}], ssrc, faults)

-----------------------------------------------------------------------------
(* UpdateLocalStreams_w / UpdateRemoteStreams_w share their text but for  *)
(* the stream calls: the send ones, or (isRecv) AddRecvStream_w and        *)
(* RemoveRecvStream_w.  Result: [ok, side].                               *)

AddStream(side, sp, isRecv, faults) ==
    IF isRecv THEN AddRecvStream_w(side, sp, faults)
    ELSE AddSendStream(side, sp, faults)

RemoveStream(side, ssrc, isRecv, faults) ==
    IF isRecv THEN RemoveRecvStream_w(side, ssrc, faults)
    ELSE RemoveSendStream(side, ssrc, faults)

\* CA_UPDATE: streams carry only changes; the first failure returns false.
StreamDelta(side, streams, isRecv, faults) ==
    LET Step(acc, sp) ==
          LET i == StreamIndexByIds(acc.side.list, sp.id)
          IN  IF ~acc.ok THEN acc
              ELSE IF i = 0 /\ sp.ssrc # NoSsrc THEN
                LET r == AddStream(acc.side, sp, isRecv, faults)
                IN  [ok |-> r.ok,
                     side |-> IF r.ok THEN [r.side EXCEPT !.list = Append(@, sp)]
                              ELSE r.side]
              ELSE IF i # 0 /\ sp.ssrc = NoSsrc THEN
                LET old == acc.side.list[i].ssrc
                    r == RemoveStream(acc.side, old, isRecv, faults)
                IN  [ok |-> r.ok,
                     side |-> IF r.ok
                              THEN [r.side EXCEPT !.list = RemoveStreamBySsrc(@, old)]
                              ELSE r.side]
              ELSE acc   \* "Ignore unsupported stream update"
    IN  FoldLeft(Step, [ok |-> TRUE, side |-> side], streams)

\* Mutant of StreamFull: the removal pass matches old streams by ids.
StreamFullByIds(side, streams, isRecv, faults) ==
    LET old == side.list
        Gone(acc, e) ==
          IF StreamIndexByIds(streams, e.id) # 0 THEN acc
          ELSE LET r == RemoveStream(acc.side, e.ssrc, isRecv, faults)
               IN  [ok |-> acc.ok /\ r.ok, side |-> r.side]
        New(acc, sp) ==
          IF HasStreamBySsrc(old, sp.ssrc) THEN acc
          ELSE LET r == AddStream(acc.side, sp, isRecv, faults)
               IN  [ok |-> acc.ok /\ r.ok, side |-> r.side]
        r2 == FoldLeft(New, FoldLeft(Gone, [ok |-> TRUE, side |-> side], old),
                       streams)
    IN  [r2 EXCEPT !.side.list = streams]

\* Offer, pranswer, answer: streams are all the streams wanted.  Old ones
\* missing by SSRC are removed, new ones missing by SSRC are added; every
\* failure makes the result false, and the list becomes `streams` anyway.
StreamFull(side, streams, isRecv, faults) ==
    LET old == side.list
        Gone(acc, e) ==
          IF HasStreamBySsrc(streams, e.ssrc) THEN acc
          ELSE LET r == RemoveStream(acc.side, e.ssrc, isRecv, faults)
               IN  [ok |-> acc.ok /\ r.ok, side |-> r.side]
        New(acc, sp) ==
          IF HasStreamBySsrc(old, sp.ssrc) THEN acc
          ELSE LET r == AddStream(acc.side, sp, isRecv, faults)
               IN  [ok |-> acc.ok /\ r.ok, side |-> r.side]
        r2 == FoldLeft(New, FoldLeft(Gone, [ok |-> TRUE, side |-> side], old),
                       streams)
    IN  [r2 EXCEPT !.side.list = streams]

UpdateLocalStreams_w(side, streams, action, faults) ==
    IF action = "update"
    THEN StreamDelta(side, streams, FALSE, faults)
    ELSE StreamFull(side, streams, FALSE, faults)

UpdateRemoteStreams_w(side, streams, action, faults) ==
    IF action = "update"
    THEN StreamDelta(side, streams, TRUE, faults)
    ELSE StreamFull(side, streams, TRUE, faults)

-----------------------------------------------------------------------------
EmptySide == [list |-> << >>, media |-> {}, bundle |-> {}]

Init ==
    /\ sendSide = EmptySide
    /\ recvSide = EmptySide
    /\ lastOk = TRUE
    /\ faultCalls = 0
    /\ directCalls = 0

\* SetLocalContent_w, stream sub-step; a false result is reported as the
\* content call's error.
SetLocalContentStreams(action, streams, faults) ==
    LET r == UpdateLocalStreams_w(sendSide, streams, action, faults)
    IN  /\ sendSide' = r.side
        /\ lastOk' = r.ok
        /\ UNCHANGED recvSide

\* SetRemoteContent_w, stream sub-step.
SetRemoteContentStreams(action, streams, faults) ==
    LET r == UpdateRemoteStreams_w(recvSide, streams, action, faults)
    IN  /\ recvSide' = r.side
        /\ lastOk' = r.ok
        /\ UNCHANGED sendSide

\* BaseChannel::AddRecvStream, RemoveRecvStream, AddSendStream and
\* RemoveSendStream: one Invoke on the worker of the call alone; the
\* recorded lists are left as they are.
InvokeAddRecvStream(sp, faults) ==
    LET r == AddRecvStream_w(recvSide, sp, faults)
    IN  /\ recvSide' = r.side
        /\ lastOk' = r.ok
        /\ UNCHANGED sendSide

InvokeRemoveRecvStream(ssrc, faults) ==
    LET r == RemoveRecvStream_w(recvSide, ssrc, faults)
    IN  /\ recvSide' = r.side
        /\ lastOk' = r.ok
        /\ UNCHANGED sendSide

InvokeAddSendStream(sp, faults) ==
    LET r == AddSendStream(sendSide, sp, faults)
    IN  /\ sendSide' = r.side
        /\ lastOk' = r.ok
        /\ UNCHANGED recvSide

InvokeRemoveSendStream(ssrc, faults) ==
    LET r == RemoveSendStream(sendSide, ssrc, faults)
    IN  /\ sendSide' = r.side
        /\ lastOk' = r.ok
        /\ UNCHANGED recvSide

\* The engine fails the calls for at most one SSRC in a content call, and
\* in at most MaxEngineFaults content calls of a behaviour.
EngineFaults ==
    {{}} \cup IF faultCalls < MaxEngineFaults THEN {{s} : s \in Ssrcs} ELSE {}

Next ==
    \/ \E a \in Actions, s \in SeqOf(Streams, MaxDescStreams), f \in EngineFaults :
        /\ faultCalls' = IF f = {} THEN faultCalls ELSE faultCalls + 1
        /\ UNCHANGED directCalls
        /\ \/ SetLocalContentStreams(a, s, f)
           \/ SetRemoteContentStreams(a, s, f)
    \/ \E sp \in Streams :
        /\ directCalls < MaxDirectCalls
        /\ directCalls' = directCalls + 1
        /\ UNCHANGED faultCalls
        /\ \/ InvokeAddRecvStream(sp, {})
           \/ InvokeRemoveRecvStream(sp.ssrc, {})
           \/ InvokeAddSendStream(sp, {})
           \/ InvokeRemoveSendStream(sp.ssrc, {})

Spec == Init /\ [][Next]_vars

-----------------------------------------------------------------------------
(* Properties.                                                             *)

\* The first SSRCs a recorded stream list names.
ListedSsrcs(list) == {list[i].ssrc : i \in 1..Len(list)} \ {NoSsrc}

\* The SSRCs on which a side's recorded list and its media channel (and,
\* for receive, the bundle filter) disagree, tagged with the side.
Mismatch(side) ==
    LET listed == ListedSsrcs(side.list)
    IN  (listed \ side.media) \cup (side.media \ listed)
            \cup (side.bundle \ side.media)

Drift ==
    {<<"send", x>> : x \in Mismatch(sendSide)}
        \cup {<<"recv", x>> : x \in Mismatch(recvSide)
                                 \cup (recvSide.media \ recvSide.bundle)}

\* UpdateLocalStreams_w / UpdateRemoteStreams_w never add a disagreement
\* between the recorded lists and the media channel or the bundle filter
\* silently: through full and CA_UPDATE lists on both sides, duplicates,
\* engine errors, and streams the application added or removed directly
\* through BaseChannel::AddRecvStream and the like, a content call whose
\* stream update returns true leaves no SSRC in disagreement that was not
\* before (a failed one may: nothing is rolled back, and the error is
\* reported).
NoSilentDrift ==
    [][directCalls' = directCalls /\ lastOk' => Drift' \subseteq Drift]_vars

\* AddRecvStream_w asks the media channel before the bundle filter, and
\* RemoveRecvStream_w drops the SSRC from the bundle filter before asking
\* the media channel: whatever the engine refuses, the bundle filter never
\* routes an SSRC for which the media channel has no receive stream.
BundleWithinMedia == recvSide.bundle \subseteq recvSide.media

=============================================================================
