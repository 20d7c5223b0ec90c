-------------------------- MODULE ChannelRegistry ---------------------------
(***************************************************************************)
(* What the manager of a server's secure channels promises: it knows who   *)
(* holds a channel, lets nobody find one that is not registered, and takes *)
(* none away that is held; the names of the registered channels and the    *)
(* connections they are linked to are distinct; and the end of a channel   *)
(* is announced once at most.  Reference counts, channel states, watchdog  *)
(* counters and a counter for the names are how the code does it.          *)
(***************************************************************************)
EXTENDS Integers

CONSTANTS Channels, Connections, Holders, Ids, None

VARIABLES
    registered,     \* the channels that can be found
    leaving,        \* those taken out whose end is still to be announced
    name,           \* name[c]: the id of c, or 0
    link,           \* link[c]: the connection of c, or None
    hold,           \* hold[h]: the channel h holds, or None
    conns,          \* the connections there are
    told            \* told[c]: how often the end of c was announced

channels == <<registered, leaving, name, link>>
vars     == <<channels, hold, conns, told>>

Init ==
    /\ registered = {} /\ leaving = {}
    /\ name = [c \in Channels |-> 0] /\ link = [c \in Channels |-> None]
    /\ hold = [h \in Holders |-> None]
    /\ conns = {}
    /\ told = [c \in Channels |-> 0]

Held(c) == \E h \in Holders : hold[h] = c

\* The connections no channel is linked to.
Unlinked == {k \in conns : \A c \in registered : link[c] # k}

\* A connection comes, with a channel whose memory nobody uses.
Open(k, c) ==
    /\ k \notin conns /\ c \notin registered \union leaving
    /\ conns' = conns \union {k}
    /\ registered' = registered \union {c}
    /\ link' = [link EXCEPT ![c] = k]
    /\ told' = [told EXCEPT ![c] = 0]
    /\ UNCHANGED <<leaving, name, hold>>

\* A connection that no channel is linked to goes.
Drop == \E k \in Unlinked : conns' = conns \ {k}

Lose ==
    /\ Drop
    /\ UNCHANGED <<channels, hold, told>>

Find(h, c) ==
    /\ hold[h] = None /\ c \in registered
    /\ hold' = [hold EXCEPT ![h] = c]
    /\ UNCHANGED <<channels, conns, told>>

Release(h) ==
    /\ hold[h] # None
    /\ hold' = [hold EXCEPT ![h] = None]
    /\ Drop \/ UNCHANGED conns
    /\ UNCHANGED <<channels, told>>

\* A channel somebody holds gets a name that no registered channel has.
Identify(c, i) ==
    /\ c \in registered /\ Held(c)
    /\ name[c] = 0 /\ \A d \in registered : name[d] # i
    /\ name' = [name EXCEPT ![c] = i]
    /\ UNCHANGED <<registered, leaving, link, hold, conns, told>>

\* Whoever closes the connection of a channel holds it.
Unlink(c) ==
    /\ c \in registered /\ Held(c) /\ link[c] # None
    /\ link' = [link EXCEPT ![c] = None]
    /\ conns' \in {conns, conns \ {link[c]}}
    /\ UNCHANGED <<registered, leaving, name, hold, told>>

\* The client asked for the end of a channel.
Announce(c) ==
    /\ c \in registered /\ Held(c) /\ told[c] = 0
    /\ told' = [told EXCEPT ![c] = 1]
    /\ UNCHANGED <<channels, hold, conns>>

\* Nobody holds the channel any more: it goes, at once or with an announcement.
Remove(c) ==
    /\ c \in registered /\ ~Held(c)
    /\ registered' = registered \ {c}
    /\ leaving' = leaving \/ (told[c] = 0 /\ leaving' = leaving \union {c})
    /\ name' = [name EXCEPT ![c] = 0] /\ link' = [link EXCEPT ![c] = None]
    /\ UNCHANGED <<hold, conns, told>>

\* The end of a channel that was taken out is announced, and its memory free.
Leave(c) ==
    /\ c \in leaving /\ told[c] = 0
    /\ leaving' = leaving \ {c}
    /\ told' = [told EXCEPT ![c] = 1]
    /\ UNCHANGED <<registered, name, link, hold, conns>>

Next ==
    \/ Lose
    \/ \E h \in Holders : Release(h) \/ \E c \in Channels : Find(h, c)
    \/ \E c \in Channels :
          \/ Unlink(c) \/ Announce(c) \/ Remove(c) \/ Leave(c)
          \/ \E k \in Connections : Open(k, c)
          \/ \E i \in Ids : Identify(c, i)

Spec == Init /\ [][Next]_vars
=============================================================================
