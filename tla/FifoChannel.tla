----------------------------- MODULE FifoChannel -----------------------------
(***************************************************************************)
(* What a ring buffer between one writer and one reader promises: a        *)
(* bounded channel that delivers what was sent, in order, each value once. *)
(***************************************************************************)
EXTENDS Naturals, Sequences

CONSTANTS
    Values,        \* what may be sent
    ChannelSize    \* values sent and not yet received, at most

VARIABLES
    channel,       \* sent and not yet received, oldest first
    received       \* everything received, oldest first

channelVars == <<channel, received>>

ChannelInit == channel = <<>> /\ received = <<>>

Send ==
    /\ Len(channel) < ChannelSize
    /\ \E v \in Values : channel' = Append(channel, v)
    /\ UNCHANGED received

Receive ==
    /\ channel # <<>>
    /\ received' = Append(received, Head(channel))
    /\ channel' = Tail(channel)

ChannelNext == Send \/ Receive

ChannelSpec == ChannelInit /\ [][ChannelNext]_channelVars
=============================================================================
