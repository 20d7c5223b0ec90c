------------------------- MODULE MCChannelManager -------------------------
(* The channel manager for TLC: channels, and connections, are             *)
(* interchangeable.                                                        *)
EXTENDS ChannelManager, TLC

ManagerSymmetry == Permutations(Channels) \union Permutations(Connections)

=============================================================================
