--------------------------- MODULE ChannelManager ---------------------------
(***************************************************************************)
(* cricket::ChannelManager: Init/Terminate (initialized_ follows the      *)
(* media engine's Init and Terminate), the                                 *)
(* registry data_channels_ of the DataChannels it creates and destroys on  *)
(* the worker thread, and its destructor.  Every public call is a blocking *)
(* Invoke onto the worker thread (or runs on the caller's), so each one is *)
(* a single atomic step.  A DataChannel is a model value; what happens to  *)
(* it is recorded in obj: "none" (not created), "registered", "failed"     *)
(* (deleted by CreateDataChannel_w after a failed Init) or "destroyed";    *)
(* deletes counts the deletes of each object.                              *)
(***************************************************************************)
EXTENDS Naturals

CONSTANTS
    ChannelIds   \* the DataChannel objects CreateDataChannel may hand out

VARIABLES
    phase,         \* "alive", or "destroyed" once ~ChannelManager has run
    initialized,   \* initialized_
    obj,           \* DataChannel object -> "none" | "registered" | "failed" | "destroyed"
    deletes,       \* DataChannel object -> number of deletes
    srtpShutdown,  \* ShutdownSrtp has run
    everInit       \* history: Init has succeeded at least once

vars == <<phase, initialized, obj, deletes, srtpShutdown, everInit>>

\* data_channels_ as a set: the order of the vector is never used.
Registered == {c \in ChannelIds : obj[c] = "registered"}

-----------------------------------------------------------------------------
\* ChannelManager::Construct.
Init ==
    /\ phase = "alive"
    /\ initialized = FALSE
    /\ obj = [c \in ChannelIds |-> "none"]
    /\ deletes = [c \in ChannelIds |-> 0]
    /\ srtpShutdown = FALSE
    /\ everInit = FALSE

\* ChannelManager::Init: a second Init returns false; otherwise the result
\* is the media engine's Init (`engineOk`).
InitManager(engineOk) ==
    /\ phase = "alive"
    /\ ~initialized
    /\ initialized' = engineOk
    /\ everInit' = (everInit \/ engineOk)
    /\ UNCHANGED <<phase, obj, deletes, srtpShutdown>>

\* ChannelManager::Terminate: Terminate_w on the worker (empty), then the
\* media engine's Terminate.  Not initialized: returns at once.
TerminateManager ==
    /\ phase = "alive"
    /\ initialized
    /\ initialized' = FALSE
    /\ UNCHANGED <<phase, obj, deletes, srtpShutdown, everInit>>

\* ChannelManager::CreateDataChannel_w (through Invoke).  ASSERT(initialized_)
\* is not compiled into a release build, so the call is not guarded by it.
\* When the data engine's CreateChannel returns NULL nothing changes; else
\* the new DataChannel's Init may fail (`initOk`), and it is deleted.
CreateDataChannel(c, initOk) ==
    /\ phase = "alive"
    /\ obj[c] = "none"
    /\ obj' = [obj EXCEPT ![c] = IF initOk THEN "registered" ELSE "failed"]
    /\ deletes' = IF initOk THEN deletes ELSE [deletes EXCEPT ![c] = @ + 1]
    /\ UNCHANGED <<phase, initialized, srtpShutdown, everInit>>

\* ChannelManager::DestroyDataChannel(_w) with a pointer CreateDataChannel
\* returned earlier: an object no longer in data_channels_ (destroyed
\* before) is left alone, so only a registered one changes anything: it is
\* erased and deleted.
DestroyDataChannel(c) ==
    /\ phase = "alive"
    /\ obj[c] = "registered"
    /\ obj' = [obj EXCEPT ![c] = "destroyed"]
    /\ deletes' = [deletes EXCEPT ![c] = @ + 1]
    /\ UNCHANGED <<phase, initialized, srtpShutdown, everInit>>

\* ~ChannelManager: when still initialized, Terminate then ShutdownSrtp.
\* data_channels_ is not walked: what is left in it is never deleted.
DestroyManager ==
    /\ phase = "alive"
    /\ phase' = "destroyed"
    /\ initialized' = FALSE
    /\ srtpShutdown' = initialized
    /\ UNCHANGED <<obj, deletes, everInit>>

Next ==
    \/ \E ok \in BOOLEAN : InitManager(ok)
    \/ TerminateManager
    \/ \E c \in ChannelIds, i \in BOOLEAN : CreateDataChannel(c, i)
    \/ \E c \in ChannelIds : DestroyDataChannel(c)
    \/ DestroyManager

Spec == Init /\ [][Next]_vars

-----------------------------------------------------------------------------
(* Properties.                                                             *)

\* The destructor's comment: srtp_shutdown must be called at the end, once
\* the channels are destroyed, and ~ChannelManager is the place for it.
\* Once the manager is gone, ShutdownSrtp has run if Init ever succeeded.
SrtpShutdownAtDestruction ==
    phase = "destroyed" /\ everInit => srtpShutdown

=============================================================================
