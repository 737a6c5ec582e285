------------------------------ MODULE Channel ------------------------------
(***************************************************************************)
(* The worker-thread state machine of one cricket::DataChannel             *)
(* (talk/session/media/channel.cc): BaseChannel's enablement, writability, *)
(* DTLS-SRTP keying and RTCP-mux handling, DataChannel's local and remote  *)
(* content handlers, and the MSG_READYTOSENDDATA notifications that        *)
(* ChangeState posts to the signaling thread.                              *)
(*                                                                         *)
(* Every worker-thread handler runs to completion (it is entered through   *)
(* a blocking Invoke or a transport signal on the worker thread), so each  *)
(* is one atomic action.  Its body is a sequence of calls, which this      *)
(* module writes as operators from a channel record to a channel record    *)
(* (or to [ok, st] when the call also returns a bool), composed in the     *)
(* order the code runs them.                                               *)
(*                                                                         *)
(* The transport is DTLS (IsDtlsActive holds on both legs): GetSrtpCipher  *)
(* succeeds exactly when the leg's handshake has completed, which happens  *)
(* when the leg first becomes writable.  Media-engine calls that may fail  *)
(* (header extensions, codecs, bandwidth, stream updates) and a            *)
(* description carrying SDES cryptos are the description's `fail` field.   *)
(***************************************************************************)
EXTENDS Integers, Sequences, FiniteSets

CONSTANTS
    Directions,   \* content directions the descriptions may carry
    DataTypes,    \* data channel protocols the descriptions may carry
    MaxQueue,     \* bound on the signaling thread's pending messages
    ContentFailures \* sub-step failures the descriptions may carry

AllDirections == {"inactive", "sendonly", "recvonly", "sendrecv"}
ContentActions == {"offer", "pranswer", "answer", "update"}
Legs == {"rtp", "rtcp"}
MuxStates == {"init", "sentoffer", "receivedoffer",
              "sentpranswer", "receivedpranswer", "active"}
\* The sub-step of a content handler that fails, or "none".  "srtp" is a
\* description with SDES cryptos (refused under DTLS), "nocodecs" a
\* remote RTP data description without codecs.
AllFailures == {"none", "ext", "srtp", "streams", "codecs",
                "bandwidth", "nocodecs"}
LocalFailures == ContentFailures \ {"bandwidth", "nocodecs"}
RemoteFailures == ContentFailures

ASSUME Directions \subseteq AllDirections
ASSUME DataTypes \subseteq {"rtp", "sctp"} /\ MaxQueue \in Nat \ {0}
ASSUME "none" \in ContentFailures /\ ContentFailures \subseteq AllFailures

VARIABLES
    ch,            \* the BaseChannel/DataChannel fields, see Channels below
    legWritable,   \* [Legs -> BOOLEAN]: TransportChannel::writable()
    legOpen,       \* [Legs -> BOOLEAN]: DTLS handshake done on the leg
    readyToSendData, \* DataChannel::ready_to_send_data_ (signaling thread)
    lastRecv       \* history: {the packet the last step handed to the media channel}, or {}

vars == <<ch, legWritable, legOpen, readyToSendData, lastRecv>>

\* The record `ch`.  mux/muxOfferEnable are rtcp_mux_filter_, srtpRtp and
\* srtpRtcp the SrtpFilter's installed send/recv sessions, rtcpTransport
\* whether rtcp_transport_channel_ is non-NULL, mediaSend/mediaRecv the
\* last SetSend/SetReceive given to the DataMediaChannel, queue the
\* messages posted to the signaling thread (MSG_READYTOSENDDATA with its
\* payload, MSG_FIRSTPACKETRECEIVED), errors the BaseSession errors
\* SetSessionError raised, secureRequired secure_required_ and
\* hasReceivedPacket has_received_packet_.
Channels == [enabled : BOOLEAN, writable : BOOLEAN, wasEverWritable : BOOLEAN,
             localDir : AllDirections, remoteDir : AllDirections,
             dtlsKeyed : BOOLEAN, srtpRtp : BOOLEAN, srtpRtcp : BOOLEAN,
             mux : MuxStates, muxOfferEnable : BOOLEAN,
             rtcpTransport : BOOLEAN, dcType : {"none", "rtp", "sctp"},
             mediaSend : BOOLEAN, mediaRecv : BOOLEAN,
             queue : Seq([msg : {"ready", "first"}, data : BOOLEAN]),
             errors : SUBSET {"content", "transport"},
             secureRequired : BOOLEAN, hasReceivedPacket : BOOLEAN]

Descriptions(fails) == [type : DataTypes, mux : BOOLEAN, dir : Directions,
                        fail : fails]

-----------------------------------------------------------------------------
(* BaseChannel readiness and DataChannel::ChangeState.                     *)

IsReceiveContentDirection(d) == d \in {"sendrecv", "recvonly"}
IsSendContentDirection(d) == d \in {"sendrecv", "sendonly"}

IsReadyToReceive(s) == s.enabled /\ IsReceiveContentDirection(s.localDir)

IsReadyToSend(s) ==
    /\ s.enabled
    /\ IsReceiveContentDirection(s.remoteDir)
    /\ IsSendContentDirection(s.localDir)
    /\ s.wasEverWritable

\* Messages posted to the signaling thread.
ReadyMsg(b) == [msg |-> "ready", data |-> b]
FirstMsg == [msg |-> "first", data |-> FALSE]

\* SetReceive, SetSend, then OnDataChannelReadyToSend(send), which posts
\* MSG_READYTOSENDDATA to the signaling thread.
ChangeState(s) ==
    [s EXCEPT !.mediaRecv = IsReadyToReceive(s),
              !.mediaSend = IsReadyToSend(s),
              !.queue = Append(@, ReadyMsg(IsReadyToSend(s)))]

-----------------------------------------------------------------------------
(* DTLS-SRTP keying and writability.                                       *)

\* SetupDtlsSrtp(rtcp_channel) on a DTLS leg: GetSrtpCipher fails until
\* the handshake is done; SrtpFilter::SetRtpParams / SetRtcpParams refuse
\* a second installation.
SetupDtlsSrtp(s, leg, open) ==
    LET field == IF leg = "rtp" THEN "srtpRtp" ELSE "srtpRtcp"
    IN  IF ~open[leg] \/ s[field]
        THEN [ok |-> FALSE, st |-> s]
        ELSE [ok |-> TRUE,
              st |-> [s EXCEPT ![field] = TRUE, !.dtlsKeyed = TRUE]]

DataChannelShouldSetupDtlsSrtp(s) == s.dcType = "rtp"

MarkWritable(s) ==
    ChangeState([s EXCEPT !.wasEverWritable = TRUE, !.writable = TRUE])

TransportError(s) == [s EXCEPT !.errors = @ \cup {"transport"}]

\* Mutant of ChannelWritable: only the RTP leg is keyed.
ChannelWritableRtpOnly(s, open) ==
    IF s.writable THEN s
    ELSE IF s.wasEverWritable \/ ~DataChannelShouldSetupDtlsSrtp(s)
    THEN MarkWritable(s)
    ELSE LET r1 == SetupDtlsSrtp(s, "rtp", open)
         IN  IF ~r1.ok THEN TransportError(r1.st) ELSE MarkWritable(r1.st)

ChannelWritable(s, open) ==
    IF s.writable THEN s
    ELSE IF s.wasEverWritable \/ ~DataChannelShouldSetupDtlsSrtp(s)
    THEN MarkWritable(s)
    ELSE LET r1 == SetupDtlsSrtp(s, "rtp", open)
             r2 == SetupDtlsSrtp(r1.st, "rtcp", open)
         IN  CASE ~r1.ok -> TransportError(r1.st)
               [] ~r1.st.rtcpTransport -> MarkWritable(r1.st)
               [] ~r2.ok -> TransportError(r2.st)
               [] OTHER -> MarkWritable(r2.st)

ChannelNotWritable(s) ==
    IF ~s.writable THEN s ELSE ChangeState([s EXCEPT !.writable = FALSE])

OnWritableState(s, lw, open) ==
    IF lw["rtp"] /\ (~s.rtcpTransport \/ lw["rtcp"])
    THEN ChannelWritable(s, open)
    ELSE ChannelNotWritable(s)

-----------------------------------------------------------------------------
(* RtcpMuxFilter (not part of this repository; the behaviour channel.cc    *)
(* relies on: its comment in SetRtcpMux_w says the filter is active after  *)
(* a provisional answer as well as after a final one).                    *)

MuxExpectOffer(s, src) ==
    s.mux \in {"init", "active"} \/
    (s.mux = "sentoffer" /\ src = "local") \/
    (s.mux = "receivedoffer" /\ src = "remote")

MuxExpectAnswer(s, src) ==
    (s.mux \in {"sentoffer", "receivedpranswer"} /\ src = "remote") \/
    (s.mux \in {"receivedoffer", "sentpranswer"} /\ src = "local")

MuxIsActive(s) == s.mux \in {"sentpranswer", "receivedpranswer", "active"}

MuxFail(s) == [ok |-> FALSE, st |-> s]

MuxSetOffer(s, enable, src) ==
    IF ~MuxExpectOffer(s, src) THEN MuxFail(s)
    ELSE [ok |-> TRUE,
          st |-> [s EXCEPT !.muxOfferEnable = enable,
                           !.mux = IF src = "local" THEN "sentoffer"
                                                    ELSE "receivedoffer"]]

MuxSetProvisionalAnswer(s, enable, src) ==
    CASE ~MuxExpectAnswer(s, src) -> MuxFail(s)
      [] s.muxOfferEnable /\ enable ->
           [ok |-> TRUE,
            st |-> [s EXCEPT !.mux = IF src = "remote" THEN "receivedpranswer"
                                                       ELSE "sentpranswer"]]
      [] s.muxOfferEnable ->
           [ok |-> TRUE,
            st |-> [s EXCEPT !.mux = IF src = "remote" THEN "sentoffer"
                                                       ELSE "receivedoffer"]]
      [] enable -> MuxFail(s)
      [] OTHER -> [ok |-> TRUE, st |-> s]

MuxSetAnswer(s, enable, src) ==
    CASE ~MuxExpectAnswer(s, src) -> MuxFail(s)
      [] s.muxOfferEnable /\ enable ->
           [ok |-> TRUE, st |-> [s EXCEPT !.mux = "active"]]
      [] enable -> MuxFail(s)
      [] OTHER -> [ok |-> TRUE, st |-> [s EXCEPT !.mux = "init"]]

-----------------------------------------------------------------------------
(* The content handlers.                                                   *)

\* SetRtcpMux_w: negotiate with the filter; a final answer that activates
\* mux drops the RTCP transport; whenever the filter is active and the RTP
\* transport is writable, ChannelWritable_w runs.
SetRtcpMux(s, enable, action, src, lw, open) ==
    LET r == CASE action = "offer" -> MuxSetOffer(s, enable, src)
               [] action = "pranswer" -> MuxSetProvisionalAnswer(s, enable, src)
               [] action = "answer" -> MuxSetAnswer(s, enable, src)
               [] action = "update" -> [ok |-> TRUE, st |-> s]
        s1 == IF action = "answer" /\ r.ok /\ MuxIsActive(r.st)
              THEN [r.st EXCEPT !.rtcpTransport = FALSE]
              ELSE r.st
    IN  IF ~r.ok THEN MuxFail(s1)
        ELSE [ok |-> TRUE,
              st |-> IF MuxIsActive(s1) /\ lw["rtp"]
                     THEN ChannelWritable(s1, open) ELSE s1]

\* SetSrtp_w under DTLS: an update carries no crypto; otherwise
\* CheckSrtpConfig refuses SDES cryptos.
SetSrtpOk(action, d) == action = "update" \/ d.fail # "srtp"

\* SetBaseLocalContent_w / SetBaseRemoteContent_w: the sub-steps are
\* chained with `ret &=`, so each runs whatever the earlier ones returned,
\* and the direction is stored in every case.
\* secure_required_ is cached first: under DTLS every content's
\* crypto_required() is CT_DTLS, never CT_NONE.
SetBaseLocalContent(s, action, d, lw, open) ==
    LET m == SetRtcpMux([s EXCEPT !.secureRequired = TRUE], d.mux, action,
                        "local", lw, open)
    IN  [ok |-> d.fail \notin {"ext", "streams"} /\ SetSrtpOk(action, d)
                /\ m.ok,
         st |-> [m.st EXCEPT !.localDir = d.dir]]

SetBaseRemoteContent(s, action, d, lw, open) ==
    LET m == SetRtcpMux(s, d.mux, action, "remote", lw, open)
    IN  [ok |-> d.fail \notin {"ext", "streams", "bandwidth"}
                /\ SetSrtpOk(action, d) /\ m.ok,
         st |-> [m.st EXCEPT !.remoteDir = d.dir]]

\* DataChannel::SetDataChannelType: the first description fixes the type.
SetDataChannelType(s, t) ==
    IF s.dcType \in {"none", t} THEN [ok |-> TRUE, st |-> [s EXCEPT !.dcType = t]]
    ELSE [ok |-> FALSE, st |-> s]

\* The tail of both DataChannel handlers: ChangeState only on success.
FinishContent(ok, s) ==
    [ok |-> ok, st |-> IF ok THEN ChangeState(s) ELSE s]

DataChannelSetLocalContent(s, action, d, lw, open) ==
    LET t == SetDataChannelType(s, d.type)
        s0 == t.st
        b == SetBaseLocalContent(s0, action, d, lw, open)
    IN  CASE ~t.ok -> t
          [] s0.dcType = "sctp" /\ d.fail = "streams" -> FinishContent(FALSE, s0)
          [] s0.dcType = "sctp" ->
               FinishContent(d.fail # "codecs", [s0 EXCEPT !.localDir = d.dir])
          [] OTHER -> FinishContent(b.ok /\ d.fail # "codecs", b.st)

DataChannelSetRemoteContent(s, action, d, lw, open) ==
    LET t == SetDataChannelType(s, d.type)
        s0 == t.st
        hasCodecs == d.fail # "nocodecs"
        codecsOk == (action = "update" /\ ~hasCodecs) \/ d.fail # "codecs"
        b == IF codecsOk THEN SetBaseRemoteContent(s0, action, d, lw, open)
             ELSE [ok |-> FALSE, st |-> s0]
        bandwidthOk == action = "update" \/ d.fail # "bandwidth"
    IN  CASE ~t.ok -> t
          [] s0.dcType = "sctp" /\ d.fail = "streams" -> FinishContent(FALSE, s0)
          [] s0.dcType = "sctp" ->
               FinishContent(d.fail # "codecs", [s0 EXCEPT !.remoteDir = d.dir])
          [] action # "update" /\ ~hasCodecs -> [ok |-> TRUE, st |-> s0]
          [] OTHER -> FinishContent(b.ok /\ bandwidthOk, b.st)

-----------------------------------------------------------------------------
(* The inbound path.  A packet is reduced to its kind, whether its size   *)
(* passes ValidPacket (`valid`), the answer of the check on its contents   *)
(* (`w`: the bundle filter's DemuxPacket for RTP data, !IsRtpPacket for    *)
(* SCTP) and whether SRTP unprotect would succeed on it (`u`).             *)

PacketKinds == {"rtp", "rtcp"}

\* SrtpFilter::IsActive (not part of this repository): the RTP session
\* keys are installed.
SrtpFilterIsActive(s) == s.srtpRtp

\* BaseChannel::WantsPacket: ValidPacket, then the bundle filter.
BaseWantsPacket(valid, w) == valid /\ w

\* DataChannel::WantsPacket: SCTP only asks whether the packet is not RTP
\* (no size check); RTP data asks BaseChannel; no type yet wants nothing.
DataChannelWantsPacket(s, valid, w) ==
    CASE s.dcType = "sctp" -> w
      [] s.dcType = "rtp" -> BaseWantsPacket(valid, w)
      [] OTHER -> FALSE

\* What the media channel is handed (a set of at most one): the packet's
\* size check and whether secure_required_ held and SRTP unprotected it.
Received(valid, s, active) ==
    [valid |-> valid, secure |-> s.secureRequired, decrypted |-> active]

\* BaseChannel::HandlePacket: drop what the channel does not want; the
\* first wanted packet sets has_received_packet_ and posts
\* MSG_FIRSTPACKETRECEIVED; with SRTP active a packet that fails to
\* unprotect is dropped, without it a packet is dropped while
\* secure_required_; the rest goes to the media channel.
HandlePacket(s, valid, w, u) ==
    IF ~DataChannelWantsPacket(s, valid, w) THEN [st |-> s, recv |-> {}]
    ELSE LET s1 == IF s.hasReceivedPacket THEN s
                   ELSE [s EXCEPT !.hasReceivedPacket = TRUE,
                                  !.queue = Append(@, FirstMsg)]
             active == SrtpFilterIsActive(s1)
         IN  [st |-> s1,
              recv |-> IF (active /\ ~u) \/ (~active /\ s1.secureRequired)
                       THEN {} ELSE {Received(valid, s1, active)}]

-----------------------------------------------------------------------------
(* Initial state: DataChannel::Init creates the RTP transport and, when    *)
(* rtcp_ is set, a separate RTCP transport; nothing is enabled, writable   *)
(* or negotiated.                                                          *)

Init ==
    /\ \E rtcp \in BOOLEAN :
         ch = [enabled |-> FALSE, writable |-> FALSE, wasEverWritable |-> FALSE,
               localDir |-> "inactive", remoteDir |-> "inactive",
               dtlsKeyed |-> FALSE, srtpRtp |-> FALSE, srtpRtcp |-> FALSE,
               mux |-> "init", muxOfferEnable |-> FALSE,
               rtcpTransport |-> rtcp, dcType |-> "none",
               mediaSend |-> FALSE, mediaRecv |-> FALSE,
               queue |-> <<>>, errors |-> {},
               secureRequired |-> FALSE, hasReceivedPacket |-> FALSE]
    /\ legWritable = [l \in Legs |-> FALSE]
    /\ legOpen = [l \in Legs |-> FALSE]
    /\ readyToSendData = FALSE
    /\ lastRecv = {}

\* A worker step that ends in state s; the posts it made must fit the
\* signaling queue bound.
WorkerStep(s) == ch' = s /\ Len(s.queue) <= MaxQueue

\* BaseChannel::Enable -> EnableMedia_w / DisableMedia_w.
EnableMedia(b) ==
    /\ ch.enabled # b
    /\ WorkerStep(ChangeState([ch EXCEPT !.enabled = b]))
    /\ UNCHANGED <<legWritable, legOpen, readyToSendData>>
    /\ lastRecv' = {}

\* OnNewLocalDescription / OnNewRemoteDescription -> SetLocalContent_w /
\* SetRemoteContent_w; a failure raises ERROR_CONTENT on the session.
ContentError(r) ==
    IF r.ok THEN r.st ELSE [r.st EXCEPT !.errors = @ \cup {"content"}]

SetLocalContent(action, d) ==
    /\ WorkerStep(ContentError(
          DataChannelSetLocalContent(ch, action, d, legWritable, legOpen)))
    /\ UNCHANGED <<legWritable, legOpen, readyToSendData>>
    /\ lastRecv' = {}

SetRemoteContent(action, d) ==
    /\ WorkerStep(ContentError(
          DataChannelSetRemoteContent(ch, action, d, legWritable, legOpen)))
    /\ UNCHANGED <<legWritable, legOpen, readyToSendData>>
    /\ lastRecv' = {}

\* A transport leg's writability changes and SignalWritableState runs
\* OnWritableState.  A DTLS leg turns writable once its handshake is done.
\* The RTCP leg signals only while it is attached.  Connectivity starts
\* only after a description has been applied (ICE needs the candidates
\* the descriptions carry).
TransportWritableState(leg, w) ==
    /\ ch.dcType # "none"
    /\ leg = "rtp" \/ ch.rtcpTransport
    /\ legWritable[leg] # w
    /\ legWritable' = [legWritable EXCEPT ![leg] = w]
    /\ legOpen' = [legOpen EXCEPT ![leg] = @ \/ w]
    /\ WorkerStep(OnWritableState(ch, legWritable', legOpen'))
    /\ UNCHANGED readyToSendData
    /\ lastRecv' = {}

\* The data media channel's SignalReadyToSend (congestion state) ->
\* OnDataChannelReadyToSend.
MediaReadyToSend(b) ==
    /\ WorkerStep([ch EXCEPT !.queue = Append(@, ReadyMsg(b))])
    /\ UNCHANGED <<legWritable, legOpen, readyToSendData>>
    /\ lastRecv' = {}

\* A transport leg's SignalReadPacket -> BaseChannel::OnChannelRead.  The
\* DTLS transport passes non-DTLS packets up only once the leg's handshake
\* is done, and only an attached leg delivers.  PacketIsRtcp: everything
\* on the RTCP leg is RTCP; on the RTP leg RtcpMuxFilter::DemuxRtcp finds
\* RTCP only while mux is active.  A packet the channel does not want
\* changes nothing, so only wanted ones are steps.
OnChannelRead(leg, kind, valid, w, u) ==
    LET r == HandlePacket(ch, valid, w, u)
    IN  /\ legOpen[leg]
        /\ leg = "rtp" \/ ch.rtcpTransport
        /\ leg = "rtcp" => kind = "rtcp"
        /\ leg = "rtp" /\ kind = "rtcp" => MuxIsActive(ch)
        /\ DataChannelWantsPacket(ch, valid, w)
        /\ WorkerStep(r.st)
        /\ lastRecv' = r.recv
        /\ UNCHANGED <<legWritable, legOpen, readyToSendData>>

\* The signaling thread handles MSG_READYTOSENDDATA (DataChannel::OnMessage).
DeliverReadyToSendData ==
    /\ ch.queue # <<>>
    /\ Head(ch.queue).msg = "ready"
    /\ readyToSendData' = Head(ch.queue).data
    /\ ch' = [ch EXCEPT !.queue = Tail(@)]
    /\ UNCHANGED <<legWritable, legOpen>>
    /\ lastRecv' = {}

\* BaseChannel::OnMessage(MSG_FIRSTPACKETRECEIVED) on the signaling thread
\* raises SignalFirstPacketReceived, which changes nothing here.
DeliverFirstPacketReceived ==
    /\ ch.queue # <<>>
    /\ Head(ch.queue) = FirstMsg
    /\ ch' = [ch EXCEPT !.queue = Tail(@)]
    /\ UNCHANGED <<legWritable, legOpen, readyToSendData>>
    /\ lastRecv' = {}

ControlNext ==
    \/ \E b \in BOOLEAN : EnableMedia(b)
    \/ \E a \in ContentActions, d \in Descriptions(LocalFailures) :
         SetLocalContent(a, d)
    \/ \E a \in ContentActions, d \in Descriptions(RemoteFailures) :
         SetRemoteContent(a, d)
    \/ \E l \in Legs, w \in BOOLEAN : TransportWritableState(l, w)
    \/ \E b \in BOOLEAN : MediaReadyToSend(b)
    \/ DeliverReadyToSendData
    \/ DeliverFirstPacketReceived

Next ==
    \/ ControlNext
    \/ \E l \in Legs, k \in PacketKinds, v, u \in BOOLEAN :
         OnChannelRead(l, k, v, TRUE, u)   \* w = FALSE is a stutter

\* The signaling thread's message loop keeps handling posted messages.
Spec == Init /\ [][Next]_vars /\ WF_vars(DeliverReadyToSendData)
                              /\ WF_vars(DeliverFirstPacketReceived)

-----------------------------------------------------------------------------
(* Properties.                                                             *)

TypeOK ==
    /\ ch \in Channels
    /\ legWritable \in [Legs -> BOOLEAN]
    /\ legOpen \in [Legs -> BOOLEAN]
    /\ readyToSendData \in BOOLEAN
    /\ lastRecv \in SUBSET [valid : BOOLEAN, secure : BOOLEAN, decrypted : BOOLEAN]
    /\ Cardinality(lastRecv) <= 1

\* ChannelWritable_w: an RTP data channel is never marked writable (and so
\* never lets SendPacket hand packets to the transport) unless DTLS-SRTP
\* keys are installed for RTP and, while a separate RTCP transport is
\* attached, for RTCP.
SrtpKeyedWhenWritable ==
    ch.writable /\ ch.dcType = "rtp" =>
        ch.srtpRtp /\ (ch.rtcpTransport => ch.srtpRtcp)

\* ChannelWritable_w escalates ERROR_TRANSPORT only on a real DTLS-SRTP
\* failure.  Here the handshake never fails, so no transport error may be
\* raised at all.
NoSpuriousTransportError == "transport" \notin ch.errors

\* ChangeState keeps the media channel's send/receive flags equal to
\* IsReadyToSend/IsReadyToReceive: every change of the negotiated
\* direction is followed by a recomputation.
MediaFlagsMatchReadiness ==
    /\ ch.mediaSend = IsReadyToSend(ch)
    /\ ch.mediaRecv = IsReadyToReceive(ch)

=============================================================================
