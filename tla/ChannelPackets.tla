--------------------------- MODULE ChannelPackets ---------------------------
(***************************************************************************)
(* The outbound packet path of BaseChannel and its teardown, on top of the *)
(* worker-thread state machine of Channel.                                 *)
(*                                                                         *)
(* A media-engine thread sends through MediaChannel::DoSendPacket, which   *)
(* holds network_interface_crit_ while it reads network_interface_ and     *)
(* calls BaseChannel::SendPacket; off the worker thread that call posts    *)
(* MSG_RTPPACKET / MSG_RTCPPACKET to the worker.  The worker runs          *)
(* SendPacket for posted packets (OnMessage) and for packets the media     *)
(* channel sends on the worker itself.  A send that meets EWOULDBLOCK, and *)
(* a transport's SignalReadyToSend, update rtp_ready_to_send_ /            *)
(* rtcp_ready_to_send_ and the media channel's OnReadyToSend.  The         *)
(* destructor (~DataChannel then ~BaseChannel) disables media, detaches    *)
(* the interface, flushes posted RTCP and clears what is left.             *)
(***************************************************************************)
EXTENDS Channel

CONSTANTS
    MaxPosts   \* bound on the packets the media thread posts in a behaviour

ASSUME MaxPosts \in Nat \ {0}

VARIABLES
    phase,        \* "live", or "destroyed" once the destructor has run
    iface,        \* MediaChannel::network_interface_ is non-NULL
    critHolder,   \* owner of network_interface_crit_: "none" or "media"
    media,        \* the media thread: [pc : {"idle", "insend"}, kind]
    workerQueue,  \* packet messages posted to the worker, in order
    rtpReady,     \* rtp_ready_to_send_
    rtcpReady,    \* rtcp_ready_to_send_
    mediaReady,   \* last MediaChannel::OnReadyToSend value
    posted,       \* history: [PacketKinds -> Nat] packets posted so far
    handled       \* history: [PacketKinds -> Nat] posted packets SendPacket ran for

packetVars == <<phase, iface, critHolder, media, workerQueue, rtpReady,
                rtcpReady, mediaReady, posted, handled>>
allVars == <<vars, packetVars>>

-----------------------------------------------------------------------------
(* BaseChannel::SetReadyToSend(channel, ready).                            *)

SetReadyToSend(leg, ready) ==
    LET rtp == IF leg = "rtp" THEN ready ELSE rtpReady
        rtcp == IF leg = "rtcp" THEN ready ELSE rtcpReady
    IN  /\ rtpReady' = rtp
        /\ rtcpReady' = rtcp
        /\ mediaReady' =
             IF ~ready THEN FALSE
             ELSE IF rtp /\ (rtcp \/ ~ch.rtcpTransport) THEN TRUE
             ELSE mediaReady

\* BaseChannel::SendPacket on the worker thread: pick the transport (the
\* RTP one for RTP, and for RTCP once mux is active), give up when it is
\* missing or not writable, protect (never fails here: SRTP keys come from
\* DTLS) and hand it over; a short write with EWOULDBLOCK marks the leg
\* not ready.  `blocked` is the transport's answer.
WorkerSendPacket(kind, blocked) ==
    LET leg == IF kind = "rtp" \/ MuxIsActive(ch) THEN "rtp" ELSE "rtcp"
        usable == (leg = "rtp" \/ ch.rtcpTransport) /\ legWritable[leg]
    IN  IF usable /\ blocked THEN SetReadyToSend(leg, FALSE)
        ELSE UNCHANGED <<rtpReady, rtcpReady, mediaReady>>

-----------------------------------------------------------------------------
Init2 ==
    /\ Init
    /\ phase = "live"
    /\ iface = TRUE            \* BaseChannel::Init ends with SetInterface(this)
    /\ critHolder = "none"
    /\ media = [pc |-> "idle", kind |-> "rtp"]
    /\ workerQueue = <<>>
    /\ rtpReady = FALSE
    /\ rtcpReady = FALSE
    /\ mediaReady = FALSE
    /\ posted = [k \in PacketKinds |-> 0]
    /\ handled = [k \in PacketKinds |-> 0]

\* Mutant of CanEnterInterfaceCrit: SetInterface without its CritScope.
CanEnterInterfaceCritUnlocked(h) == TRUE

\* network_interface_crit_ as SetInterface takes it.
CanEnterInterfaceCrit(h) == h = "none"

\* A step of Channel while the channel is alive; the packet state is
\* untouched except that a final answer dropping the RTCP transport leaves
\* rtcp_ready_to_send_ and the media channel's readiness as they were.
\* The inbound path (OnChannelRead) touches none of the packet state and
\* is checked in Channel's own runs.
ChannelStep ==
    /\ phase = "live"
    /\ ControlNext
    /\ UNCHANGED packetVars

\* MediaChannel::DoSendPacket on a media thread, first half: take the
\* lock and read network_interface_; a NULL interface returns false.
MediaEnterSend(kind) ==
    /\ media.pc = "idle"
    /\ critHolder = "none"
    /\ posted[kind] < MaxPosts
    /\ IF iface
       THEN /\ critHolder' = "media"
            /\ media' = [pc |-> "insend", kind |-> kind]
       ELSE UNCHANGED <<critHolder, media>>
    /\ UNCHANGED <<vars, phase, iface, workerQueue, rtpReady, rtcpReady,
                   mediaReady, posted, handled>>

\* Second half: BaseChannel::SendPacket off the worker posts the packet to
\* the worker thread; then the lock is released.
MediaPostPacket ==
    /\ media.pc = "insend"
    /\ workerQueue' = Append(workerQueue, media.kind)
    /\ posted' = [posted EXCEPT ![media.kind] = @ + 1]
    /\ critHolder' = "none"
    /\ media' = [media EXCEPT !.pc = "idle"]
    /\ UNCHANGED <<vars, phase, iface, rtpReady, rtcpReady, mediaReady,
                   handled>>

\* Mutant of WorkerHandlePacket: the message is dispatched but stays queued.
WorkerHandlePacketRedelivered(blocked) ==
    /\ phase = "live"
    /\ workerQueue # <<>>
    /\ WorkerSendPacket(Head(workerQueue), blocked)
    /\ handled' = [handled EXCEPT ![Head(workerQueue)] = @ + 1]
    /\ UNCHANGED <<vars, phase, iface, critHolder, media, posted, workerQueue>>

\* BaseChannel::OnMessage(MSG_RTPPACKET / MSG_RTCPPACKET).
WorkerHandlePacket(blocked) ==
    /\ phase = "live"
    /\ workerQueue # <<>>
    /\ WorkerSendPacket(Head(workerQueue), blocked)
    /\ workerQueue' = Tail(workerQueue)
    /\ handled' = [handled EXCEPT ![Head(workerQueue)] = @ + 1]
    /\ UNCHANGED <<vars, phase, iface, critHolder, media, posted>>

\* The media channel sending on the worker thread itself (DataChannel's
\* SendData is invoked on the worker): DoSendPacket takes the free lock,
\* finds the interface and SendPacket runs directly.
WorkerDirectSend(kind, blocked) ==
    /\ phase = "live"
    /\ critHolder = "none"
    /\ iface
    /\ WorkerSendPacket(kind, blocked)
    /\ UNCHANGED <<vars, phase, iface, critHolder, media, workerQueue,
                   posted, handled>>

\* A transport leg's SignalReadyToSend -> BaseChannel::OnReadyToSend.
TransportReadyToSend(leg) ==
    /\ phase = "live"
    /\ leg = "rtp" \/ ch.rtcpTransport
    /\ legWritable[leg]
    /\ SetReadyToSend(leg, TRUE)
    /\ UNCHANGED <<vars, phase, iface, critHolder, media, workerQueue,
                   posted, handled>>

\* ~DataChannel (DisableMedia_w, Deinit) then ~BaseChannel (Deinit,
\* FlushRtcpMessages, Clear, delete media_channel_, release transports).
\* Deinit's SetInterface(NULL) waits for network_interface_crit_.
\* FlushRtcpMessages sends every posted RTCP packet synchronously; Clear
\* then eats the posted RTP packets.  What the flushed sends do to the
\* ready-to-send flags is not kept: the media channel is deleted next.
DestroyChannel ==
    /\ phase = "live"
    /\ CanEnterInterfaceCrit(critHolder)
    /\ WorkerStep(IF ch.enabled
                  THEN ChangeState([ch EXCEPT !.enabled = FALSE]) ELSE ch)
    /\ iface' = FALSE
    /\ handled' = [handled EXCEPT
                     !["rtcp"] = @ + Len(SelectSeq(workerQueue,
                                                   LAMBDA k : k = "rtcp"))]
    /\ workerQueue' = <<>>
    /\ phase' = "destroyed"
    /\ UNCHANGED <<legWritable, legOpen, readyToSendData, lastRecv, critHolder, media,
                   rtpReady, rtcpReady, mediaReady, posted>>

Next2 ==
    \/ ChannelStep
    \/ \E k \in PacketKinds : MediaEnterSend(k)
    \/ MediaPostPacket
    \/ \E b \in BOOLEAN : WorkerHandlePacket(b)
    \/ \E k \in PacketKinds, b \in BOOLEAN : WorkerDirectSend(k, b)
    \/ \E l \in Legs : TransportReadyToSend(l)
    \/ DestroyChannel

Spec2 == Init2 /\ [][Next2]_allVars

-----------------------------------------------------------------------------
(* Properties.                                                             *)

TypeOK2 ==
    /\ TypeOK
    /\ phase \in {"live", "destroyed"}
    /\ iface \in BOOLEAN
    /\ critHolder \in {"none", "media"}
    /\ media \in [pc : {"idle", "insend"}, kind : PacketKinds]
    /\ workerQueue \in Seq(PacketKinds)
    /\ {rtpReady, rtcpReady, mediaReady} \subseteq BOOLEAN
    /\ posted \in [PacketKinds -> 0..MaxPosts]
    /\ handled \in [PacketKinds -> 0..MaxPosts]

\* The destructor's order (Deinit under network_interface_crit_, then
\* FlushRtcpMessages, then Clear): once the channel is destroyed, every
\* RTCP packet a media thread posted has gone through SendPacket, and no
\* packet is left posted to the destroyed channel.
RtcpFlushedAtDestroy ==
    phase = "destroyed" =>
        /\ handled["rtcp"] = posted["rtcp"]
        /\ workerQueue = <<>>

\* SetReadyToSend: while the channel is alive, once the RTP transport and
\* (if one is attached) the RTCP transport can both send, the media
\* channel has been told OnReadyToSend(true).
MediaReadyWhenTransportsReady ==
    phase = "live" /\ rtpReady /\ (rtcpReady \/ ~ch.rtcpTransport)
        => mediaReady

=============================================================================
