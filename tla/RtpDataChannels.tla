--------------------------- MODULE RtpDataChannels ---------------------------
(***************************************************************************)
(* MediaStreamSignaling's table of RTP data channels (rtp_data_channels_,  *)
(* a std::map keyed by label) and its reconciliation against the streams   *)
(* of each applied session description: UpdateRemoteRtpDataChannels,       *)
(* UpdateLocalRtpDataChannels and UpdateClosingDataChannels, with the      *)
(* application adding and closing channels and the session asking for     *)
(* offer/answer options in between.  All of it runs on the signaling      *)
(* thread, so every handler is one atomic step.                           *)
(*                                                                         *)
(* A label is a number so that the map's iteration order is the order of  *)
(* the labels.  The DataChannel object is outside this repository: it is  *)
(* reduced to whether it is closed and to the number of                   *)
(* RemotePeerRequestClose calls it received.                              *)
(***************************************************************************)
EXTENDS Naturals, FiniteSets, SequencesExt, Functions

CONSTANTS
    Labels   \* the labels the application and the peer use

ASSUME Labels \subseteq Nat /\ Labels # {}

\* No remote description since the table last changed otherwise.
NoView == [valid |-> FALSE, labels |-> {}]

VARIABLES
    rtpChannels,   \* rtp_data_channels_: label -> [closed : BOOLEAN]
    remoteCloses,  \* per label, RemotePeerRequestClose calls on its current object
    offered,       \* labels SetStreams put in the last session options
    lastRemote     \* history: labels of the last remote description, NoView
                   \* once the table has been touched by anything else since

vars == <<rtpChannels, remoteCloses, offered, lastRemote>>

-----------------------------------------------------------------------------
(* The DataChannel object, from the spec (not part of this repository).    *)

\* A new object is connecting; it has had no remote close yet.
NewDataChannel == [closed |-> FALSE]

\* DataChannel::RemotePeerRequestClose: the RTP channel is closed at once.
RemotePeerRequestClose(c) == [c EXCEPT !.closed = TRUE]

\* DataChannel::SetSendSsrc(0): whether zeroing the send SSRC takes the
\* channel to kClosed is the object's business; `closes` is that answer.
ZeroSendSsrc(c, closes) == [c EXCEPT !.closed = @ \/ closes]

-----------------------------------------------------------------------------
(* MediaStreamSignaling.                                                   *)

\* SetStreams: one send stream per channel that is connecting or open.
SetStreams(m) == {l \in DOMAIN m : ~m[l].closed}

\* Mutant of UpdateClosingDataChannels: after erase the walk goes on with
\* the element after the erased one's successor (erase, then ++it).
UpdateClosingDataChannelsSkipNext(m, cnt, active, isLocal, zeroCloses) ==
    LET RECURSIVE Walk(_, _, _)
        Walk(mm, cc, i) ==
          LET ks == SetToSortSeq(DOMAIN mm, <) IN
          IF i > Len(ks) THEN [channels |-> mm, closes |-> cc]
          ELSE LET l == ks[i] IN
            IF l \in active THEN Walk(mm, cc, i + 1)
            ELSE LET c2 == IF isLocal THEN ZeroSendSsrc(mm[l], l \in zeroCloses)
                                      ELSE RemotePeerRequestClose(mm[l])
                     cc2 == IF isLocal THEN cc ELSE [cc EXCEPT ![l] = @ + 1]
                 IN  IF c2.closed
                     THEN Walk(Restrict(mm, DOMAIN mm \ {l}), cc2, i + 1)
                     ELSE Walk([mm EXCEPT ![l] = c2], cc2, i + 1)
    IN  Walk(m, cnt, 1)

\* Mutant of UpdateClosingDataChannels: the closed test uses the state read
\* before the close request.
UpdateClosingDataChannelsStale(m, cnt, active, isLocal, zeroCloses) ==
    LET RECURSIVE Walk(_, _, _)
        Walk(mm, cc, i) ==
          LET ks == SetToSortSeq(DOMAIN mm, <) IN
          IF i > Len(ks) THEN [channels |-> mm, closes |-> cc]
          ELSE LET l == ks[i] IN
            IF l \in active THEN Walk(mm, cc, i + 1)
            ELSE LET c2 == IF isLocal THEN ZeroSendSsrc(mm[l], l \in zeroCloses)
                                      ELSE RemotePeerRequestClose(mm[l])
                     cc2 == IF isLocal THEN cc ELSE [cc EXCEPT ![l] = @ + 1]
                 IN  IF mm[l].closed
                     THEN Walk(Restrict(mm, DOMAIN mm \ {l}), cc2, 1)
                     ELSE Walk([mm EXCEPT ![l] = c2], cc2, i + 1)
    IN  Walk(m, cnt, 1)

\* UpdateClosingDataChannels: walk the map; a channel whose label is not
\* active is told to close (remote) or has its send SSRC zeroed (local);
\* if it is now closed it is erased and the walk restarts from begin().
UpdateClosingDataChannels(m, cnt, active, isLocal, zeroCloses) ==
    LET RECURSIVE Walk(_, _, _)
        Walk(mm, cc, i) ==
          LET ks == SetToSortSeq(DOMAIN mm, <) IN
          IF i > Len(ks) THEN [channels |-> mm, closes |-> cc]
          ELSE LET l == ks[i] IN
            IF l \in active THEN Walk(mm, cc, i + 1)
            ELSE LET c2 == IF isLocal THEN ZeroSendSsrc(mm[l], l \in zeroCloses)
                                      ELSE RemotePeerRequestClose(mm[l])
                     cc2 == IF isLocal THEN cc ELSE [cc EXCEPT ![l] = @ + 1]
                 IN  IF c2.closed
                     THEN Walk(Restrict(mm, DOMAIN mm \ {l}), cc2, 1)
                     ELSE Walk([mm EXCEPT ![l] = c2], cc2, i + 1)
    IN  Walk(m, cnt, 1)

\* The map with `made` added: CreateRemoteDataChannel succeeded for them
\* (the factory registers each through AddDataChannel) and set their
\* receive SSRC.  The factory is taken to succeed: an RTP channel created
\* with no config has nothing to reject.
CreateRemoteDataChannels(m, made) ==
    [l \in DOMAIN m \cup made |-> IF l \in made THEN NewDataChannel ELSE m[l]]

\* Mutant of UpdateRemoteRtpDataChannels: every stream's label gets a new
\* channel object, as if the lookup of the existing one were missing.
UpdateRemoteRtpDataChannelsRecreate(m, cnt, streams) ==
    UpdateClosingDataChannels(
      CreateRemoteDataChannels(m, streams),
      [l \in DOMAIN cnt |-> IF l \in streams THEN 0 ELSE cnt[l]],
      streams, FALSE, {})

\* UpdateRemoteRtpDataChannels: a new label gets a channel, a known one
\* only a new receive SSRC; then the ones left out are closed.
UpdateRemoteRtpDataChannels(m, cnt, streams) ==
    LET made == streams \ DOMAIN m
    IN  UpdateClosingDataChannels(
          CreateRemoteDataChannels(m, made),
          [l \in DOMAIN cnt |-> IF l \in made THEN 0 ELSE cnt[l]],
          streams, FALSE, {})

\* UpdateLocalRtpDataChannels: each stream's label must be tracked (the
\* VERIFY; a missing one is skipped) and gets its send SSRC; then the send
\* SSRC of the others is zeroed.
UpdateLocalRtpDataChannels(m, cnt, streams, zeroCloses) ==
    UpdateClosingDataChannels(m, cnt, streams \cap DOMAIN m, TRUE, zeroCloses)

-----------------------------------------------------------------------------
Init ==
    /\ rtpChannels = [l \in {} |-> NewDataChannel]
    /\ remoteCloses = [l \in Labels |-> 0]
    /\ offered = {}
    /\ lastRemote = NoView

\* PeerConnection::CreateDataChannel -> AddDataChannel for an RTP channel:
\* refused when the label is already in the map.
AddDataChannel(l) ==
    /\ l \notin DOMAIN rtpChannels
    /\ rtpChannels' = (l :> NewDataChannel) @@ rtpChannels
    /\ remoteCloses' = [remoteCloses EXCEPT ![l] = 0]
    /\ lastRemote' = NoView
    /\ UNCHANGED offered

\* DataChannel::Close by the application: the object closes, the map keeps it.
CloseDataChannel(l) ==
    /\ l \in DOMAIN rtpChannels
    /\ ~rtpChannels[l].closed
    /\ rtpChannels' = [rtpChannels EXCEPT ![l].closed = TRUE]
    /\ UNCHANGED <<remoteCloses, offered, lastRemote>>

\* RTCOfferAnswerOptions::kUndefined and kMaxOfferToReceiveMedia
\* (peerconnectioninterface.h), and offer_to_receive_* values in and just
\* outside the range they bound.
kUndefined == -1
kMaxOfferToReceiveMedia == 1
OfferToReceiveValues == {-2, -1, 0, 1, 2}

IsValidOfferToReceiveMedia(v) ==
    v >= kUndefined /\ v <= kMaxOfferToReceiveMedia

\* The keys ParseConstraintsForAnswer looks up with FindConstraint, and the
\* answer constraints: NULL, or a set of mandatory keys (one it looks up,
\* one it does not).
LookedUpKeys == {"OfferToReceiveAudio", "OfferToReceiveVideo",
                 "VoiceActivityDetection", "googUseRtpMux", "IceRestart"}
AnswerConstraints ==
    [present : {FALSE}, mandatory : {{}}] \cup
    [present : {TRUE}, mandatory : SUBSET {"OfferToReceiveAudio", "other"}]

\* ParseConstraintsForAnswer's result: FindConstraint counts each looked-up
\* key it finds among the mandatory ones, and the call succeeds when that
\* count is the number of mandatory constraints (always, for NULL).  The
\* receive, VAD, bundle and ICE-restart flags it fills are left out.
ParseConstraintsForAnswer(c) ==
    ~c.present \/ c.mandatory \subseteq LookedUpKeys

\* GetOptionsForOffer: invalid offer_to_receive_audio/video values return
\* false before SetStreams; otherwise the options carry SetStreams' streams
\* (and flags derived from the caller's input, left out).  The session
\* uses the options only when the call returns true.
GetOptionsForOffer(audio, video) ==
    /\ offered' = IF IsValidOfferToReceiveMedia(audio)
                     /\ IsValidOfferToReceiveMedia(video)
                  THEN SetStreams(rtpChannels) ELSE offered
    /\ UNCHANGED <<rtpChannels, remoteCloses, lastRemote>>

\* GetOptionsForAnswer: SetStreams, then ParseConstraintsForAnswer, whose
\* failure makes the call return false.
GetOptionsForAnswer(c) ==
    /\ offered' = IF ParseConstraintsForAnswer(c)
                  THEN SetStreams(rtpChannels) ELSE offered
    /\ UNCHANGED <<rtpChannels, remoteCloses, lastRemote>>

\* OnRemoteDescriptionChanged with an RTP data content carrying `streams`
\* (a description without one, or with SCTP data, changes nothing).
OnRemoteDescriptionChanged(streams) ==
    LET r == UpdateRemoteRtpDataChannels(rtpChannels, remoteCloses, streams)
    IN  /\ rtpChannels' = r.channels
        /\ remoteCloses' = r.closes
        /\ lastRemote' = [valid |-> TRUE, labels |-> streams]
        /\ UNCHANGED offered

\* OnLocalDescriptionChanged with our own description, whose streams are
\* the ones SetStreams offered; `zeroCloses` are the channels the zeroed
\* send SSRC closes.
OnLocalDescriptionChanged ==
    \E zeroCloses \in SUBSET (DOMAIN rtpChannels \ offered) :
      LET r == UpdateLocalRtpDataChannels(rtpChannels, remoteCloses,
                                          offered, zeroCloses)
      IN  /\ rtpChannels' = r.channels
          /\ remoteCloses' = r.closes
          /\ lastRemote' = NoView
          /\ UNCHANGED offered

\* TearDown -> OnDataChannelClose: the map is swapped out and every channel
\* gets OnDataEngineClose.
OnDataChannelClose ==
    /\ DOMAIN rtpChannels # {}
    /\ rtpChannels' = [l \in {} |-> NewDataChannel]
    /\ lastRemote' = NoView
    /\ UNCHANGED <<remoteCloses, offered>>

Next ==
    \/ \E l \in Labels : AddDataChannel(l) \/ CloseDataChannel(l)
    \/ \E a, v \in OfferToReceiveValues : GetOptionsForOffer(a, v)
    \/ \E c \in AnswerConstraints : GetOptionsForAnswer(c)
    \/ \E s \in SUBSET Labels : OnRemoteDescriptionChanged(s)
    \/ OnLocalDescriptionChanged
    \/ OnDataChannelClose

Spec == Init /\ [][Next]_vars

-----------------------------------------------------------------------------
(* Properties.                                                             *)

TypeOK ==
    /\ DOMAIN rtpChannels \subseteq Labels
    /\ \A l \in DOMAIN rtpChannels : rtpChannels[l] \in [closed : BOOLEAN]
    /\ remoteCloses \in [Labels -> Nat]
    /\ offered \subseteq Labels
    /\ lastRemote \in [valid : BOOLEAN, labels : SUBSET Labels]

\* The reconciliation of UpdateRemoteRtpDataChannels and
\* UpdateClosingDataChannels: right after a remote description, the labels
\* tracked are exactly the labels of its streams.
TrackedMatchesRemote ==
    lastRemote.valid => DOMAIN rtpChannels = lastRemote.labels

\* The table as RtpDataChannelTable sees it: each tracked label with
\* whether its channel is live (connecting or open) or closed.
Table == INSTANCE RtpDataChannelTable
           WITH table <- [l \in DOMAIN rtpChannels |->
                            IF rtpChannels[l].closed THEN "closed" ELSE "live"]

\* The handlers of rtp_data_channels_ implement RtpDataChannelTable: a
\* label gets a channel only when it has none, a closed channel is never
\* made live again in place, a remote description leaves exactly its labels
\* with the tracked ones keeping their channel, and a local description
\* drops only labels it does not carry, and all closed ones among them.
TableSpec == Table!Spec

\* The erase-and-restart walk of UpdateClosingDataChannels never tells a
\* channel object twice that the peer requested close, and every channel a
\* remote description drops has been told exactly once.
RemoteCloseOnce ==
    /\ [](\A l \in Labels : remoteCloses[l] <= 1)
    /\ [][\A l \in DOMAIN rtpChannels \ DOMAIN rtpChannels' :
            lastRemote'.valid => remoteCloses'[l] = 1]_vars

=============================================================================
