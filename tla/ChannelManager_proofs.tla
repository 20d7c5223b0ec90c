----------------------- MODULE ChannelManager_proofs -----------------------
(***************************************************************************)
(* Proofs about ChannelManager: however many channels, connections and     *)
(* users there are, the reference count of a channel is exact, nobody      *)
(* holds one that was removed, and channel ids stay distinct when the      *)
(* counter they come from wraps around; and together they implement the    *)
(* registry of ChannelRegistry.                                            *)
(***************************************************************************)
EXTENDS ChannelManager, FiniteSetTheorems, TLAPS

-----------------------------------------------------------------------------
(* The inductive invariant.                                                 *)

\* The transport thread is in an event on a connection; it holds a channel
\* except between events and after it gave a bad request's channel back.
HandlerInv ==
    /\ handler.stage = "idle" => handler = Idle
    /\ handler.stage # "idle" => handler.conn \in Connections
    /\ handler.stage = "bad" => handler.ch = None
    /\ handler.stage \notin {"idle", "bad"} => handler.ch \in Channels

UserInv == \A u \in Users : user[u].op = "idle" <=> user[u].ch = None

\* What a pass has still to check is in the list.
WatchInv == toCheck \subseteq Listed

Serving == {"issue", "identified", "renew", "call", "begun", "close",
            "failing", "unlink", "abort", "lost"}

\* The channel a request is served on belongs to the connection it came on,
\* and a connection that is being closed has no channel left.
ServingInv ==
    /\ handler.stage \in Serving => chan[handler.ch].conn = handler.conn
    /\ handler.stage = "issue" => chan[handler.ch].id = 0
    /\ handler.stage = "close" => handler.isClose
    /\ handler.stage \in {"expire", "done"} =>
        \A c \in Listed : chan[c].conn # handler.conn

\* The id that will be given out next is not in use.
NextIdFree == \A c \in Listed : chan[c].id # uNextSecureChannelId

\* Once the client's request to close a channel was announced, the channel
\* loses its connection before anything else happens to it.
Going(c) ==
    \/ chan[c].conn = None
    \/ /\ handler.isClose /\ handler.stage \in {"releaseBad", "bad", "unlink"}
       /\ handler.conn = chan[c].conn

ToldInv ==
    \A c \in Channels :
        /\ told[c] <= 1
        /\ place[c] = "removed" => told[c] = 0
        /\ place[c] = "listed" /\ told[c] = 1 => chan[c].state = "Closed" /\ Going(c)

Exact(c) == chan[c].ref = Cardinality(Holders(c))

IInv ==
    /\ TypeOK /\ HandlerInv /\ UserInv /\ WatchInv /\ ServingInv
    /\ RefCountExact /\ HeldIsListed
    /\ LinkSound /\ IdUnique /\ NextIdFree /\ ToldInv

-----------------------------------------------------------------------------
(* The next channel id.                                                     *)

\* A set of natural numbers that is not empty has a smallest one.
LEMMA Smallest ==
    ASSUME NEW S \in SUBSET Nat, S # {}
    PROVE  \E n \in S : \A m \in S : n <= m
<1> DEFINE Upto == {0..n : n \in S}
<1>1. Upto \subseteq FiniteSubsetsOf(Nat) /\ Upto # {}
    <2>1. \A n \in S : 0..n \in SUBSET Nat /\ IsFiniteSet(0..n)
        BY FS_Interval
    <2> QED BY <2>1 DEF FiniteSubsetsOf
<1>2. IsWellFoundedOn(StrictSubsetOrdering(Nat), FiniteSubsetsOf(Nat))
    BY FS_StrictSubsetOrderingWellFounded
<1>3. \E x \in Upto : \A y \in Upto : <<y, x>> \notin StrictSubsetOrdering(Nat)
    <2> HIDE DEF Upto
    <2> QED BY <1>1, <1>2, WFMin
<1>4. PICK n \in S : \A m \in S : <<0..m, 0..n>> \notin StrictSubsetOrdering(Nat)
    BY <1>3
<1>5. ASSUME NEW m \in S
      PROVE  n <= m
    <2> SUFFICES ASSUME m < n
                 PROVE  FALSE
        OBVIOUS
    <2>1. 0..m \subseteq 0..n /\ 0..m \in SUBSET Nat /\ 0..n \in SUBSET Nat
        OBVIOUS
    <2>2. n \in 0..n /\ n \notin 0..m
        OBVIOUS
    <2>3. <<0..m, 0..n>> \in StrictSubsetOrdering(Nat)
        BY <2>1, <2>2, Zenon DEF StrictSubsetOrdering
    <2> QED BY <1>4, <2>3
<1> QED BY <1>5

\* There are ids.
LEMMA IdsThere == IdModulus \in Nat /\ IdModulus >= 2
<1>1. Cardinality(Channels) \in Nat
    BY FS_CardinalityType, ManagerAssumption
<1> QED BY <1>1, ManagerAssumption

\* The step from an id to another one, modulo the number of ids.
LEMMA StepToId ==
    ASSUME NEW i \in Ids, NEW d \in 1..(IdModulus - 1)
    PROVE  /\ (i + d) % IdModulus \in 0..(IdModulus - 1)
           /\ (i + d) % IdModulus # i
           /\ (i + d) % IdModulus = IF i + d < IdModulus THEN i + d ELSE i + d - IdModulus
<1>1. i \in Int /\ d \in Int /\ IdModulus \in Nat /\ i + d >= 0 /\ i + d < 2 * IdModulus
    BY ManagerAssumption DEF Ids
<1>2. CASE i + d < IdModulus
    <2>1. (i + d) % IdModulus = i + d
        BY <1>1, <1>2
    <2> QED BY <1>1, <1>2, <2>1
<1>3. CASE i + d >= IdModulus
    <2>1. (i + d) % IdModulus = i + d - IdModulus
        BY <1>1, <1>3
    <2> QED BY <1>1, <1>3, <2>1 DEF Ids
<1> QED BY <1>1, <1>2, <1>3

\* As long as one channel of the list has no id, there is an id that is neither
\* the last one nor in use: there are more ids than channels.
LEMMA IdLeft ==
    ASSUME TypeOK, NEW i \in Ids, NEW h \in Listed, chan[h].id = 0
    PROVE  \E v \in Ids : v # i /\ v \notin {chan[c].id : c \in Listed}
<1> DEFINE Idof == {chan[c].id : c \in Listed \ {h}}
           Rest == Ids \ {i}
<1>1. IsFiniteSet(Listed \ {h}) /\ Cardinality(Listed \ {h}) < Cardinality(Channels)
    <2>1. Listed \ {h} \in SUBSET Channels /\ Listed \ {h} # Channels
        BY DEF Listed
    <2>2. Cardinality(Channels) \in Nat
        BY FS_CardinalityType, ManagerAssumption
    <2>3. /\ IsFiniteSet(Listed \ {h}) /\ Cardinality(Listed \ {h}) <= Cardinality(Channels)
          /\ Cardinality(Listed \ {h}) # Cardinality(Channels)
        BY <2>1, FS_Subset, ManagerAssumption
    <2>4. Cardinality(Listed \ {h}) \in Nat
        BY <2>3, FS_CardinalityType
    <2> QED BY <2>2, <2>3, <2>4
<1>2. IsFiniteSet(Idof) /\ Cardinality(Idof) <= Cardinality(Listed \ {h})
    <2> DEFINE f == [c \in Listed \ {h} |-> chan[c].id]
    <2>1. f \in Surjection(Listed \ {h}, Idof)
        BY DEF Surjection
    <2> HIDE DEF f, Idof
    <2> QED BY <1>1, <2>1, FS_Surjection
<1>3. IsFiniteSet(Rest) /\ Cardinality(Rest) = IdModulus - 2
    <2>1. IsFiniteSet(Ids) /\ Cardinality(Ids) = IdModulus - 1
        BY IdsThere, FS_Interval DEF Ids
    <2> QED BY <2>1, IdsThere, FS_RemoveElement
<1>4. ~(Rest \subseteq Idof)
    <2>1. SUFFICES ASSUME Rest \subseteq Idof
                   PROVE  FALSE
        OBVIOUS
    <2> HIDE DEF Rest, Idof
    <2>2. Cardinality(Rest) <= Cardinality(Idof)
        BY <1>2, <2>1, FS_Subset
    <2>3. /\ Cardinality(Idof) \in Nat /\ Cardinality(Channels) \in Nat
          /\ Cardinality(Listed \ {h}) \in Nat
        BY <1>1, <1>2, FS_CardinalityType, ManagerAssumption
    <2> QED BY <1>1, <1>2, <1>3, <2>2, <2>3, ManagerAssumption
<1>5. PICK v \in Rest : v \notin Idof
    BY <1>4
<1>6. v # 0
    BY <1>5 DEF Ids
<1> QED BY <1>5, <1>6

\* The loop ends with an id that is not the last one and not in use.
LEMMA NextValidIdIsValid ==
    ASSUME TypeOK, NEW i \in Ids, NEW h \in Listed, chan[h].id = 0
    PROVE  /\ NextValidId(i, Listed) \in Ids
           /\ NextValidId(i, Listed) # i
           /\ NextValidId(i, Listed) \notin {chan[c].id : c \in Listed}
<1> DEFINE After(d) == (i + d) % IdModulus
           Valid(d) == After(d) # 0 /\ After(d) \notin {chan[c].id : c \in Listed}
           First(d) == Valid(d) /\ \A e \in 1 .. d - 1 : ~Valid(e)
           Steps == {d \in 1 .. IdModulus - 1 : Valid(d)}
<1>1. PICK v \in Ids : v # i /\ v \notin {chan[c].id : c \in Listed}
    BY IdLeft
<1>2. \E d \in 1 .. IdModulus - 1 : After(d) = v
    <2>1. /\ i \in Int /\ v \in Int /\ IdModulus \in Nat /\ 1 <= i /\ i < IdModulus
          /\ 1 <= v /\ v < IdModulus
        BY ManagerAssumption DEF Ids
    <2>2. CASE i < v
        <3>1. v - i \in 1 .. IdModulus - 1
            BY <2>1, <2>2
        <3>2. After(v - i) = v
            BY <2>1, <2>2, <3>1, StepToId
        <3> QED BY <3>1, <3>2
    <2>3. CASE v < i
        <3>1. v - i + IdModulus \in 1 .. IdModulus - 1
            BY <2>1, <2>3
        <3>2. After(v - i + IdModulus) = v
            BY <2>1, <2>3, <3>1, StepToId
        <3> QED BY <3>1, <3>2
    <2> QED BY <1>1, <2>1, <2>2, <2>3
<1>3. Steps # {} /\ Steps \in SUBSET Nat
    BY <1>1, <1>2 DEF Ids
<1>4. PICK n \in Steps : \A m \in Steps : n <= m
    <2> HIDE DEF Steps
    <2> QED BY <1>3, Smallest
<1>5. First(n)
    <2>1. \A e \in 1 .. n - 1 : e \notin Steps
        BY <1>4
    <2> QED BY <1>4, <2>1, ManagerAssumption
<1>6. \E d \in 1 .. IdModulus - 1 : First(d)
    BY <1>4, <1>5
<1> DEFINE d == CHOOSE d \in 1 .. IdModulus - 1 : First(d)
<1>7. d \in 1 .. IdModulus - 1 /\ Valid(d)
    <2> HIDE DEF Valid
    <2> QED BY <1>6
<1>8. NextValidId(i, Listed) = After(d)
    BY DEF NextValidId
<1> HIDE DEF d
<1>9. After(d) \in 0 .. IdModulus - 1 /\ After(d) # i
    BY <1>7, StepToId
<1> QED BY <1>7, <1>8, <1>9, ManagerAssumption DEF Ids

-----------------------------------------------------------------------------
(* Who holds a channel.                                                     *)

Fields == [state : {"Unknown", "Opened", "Closed"}, id : 0 .. IdModulus - 1,
           conn : Connections \union {None}, exp : 0 .. LifeTicks, ov : Nat, ref : Nat]

\* The channels keep their state, id and connection.
SameButRef ==
    \A d \in Channels :
        /\ chan'[d].state = chan[d].state /\ chan'[d].id = chan[d].id
        /\ chan'[d].conn = chan[d].conn

LEMMA BlankFields == Blank \in Fields
BY IdsThere, ManagerAssumption DEF Blank, Fields

LEMMA HoldersFinite ==
    ASSUME NEW c
    PROVE  IsFiniteSet(Holders(c)) /\ Cardinality(Holders(c)) \in Nat
<1>1. IsFiniteSet(Users \union {None})
    BY FS_AddElement, ManagerAssumption
<1>2. Holders(c) \in SUBSET (Users \union {None})
    BY DEF Holders
<1>3. IsFiniteSet(Holders(c))
    BY <1>1, <1>2, FS_Subset
<1> QED BY <1>3, FS_CardinalityType

\* The count of a channel that somebody holds is not zero.
LEMMA HeldIsUsed ==
    ASSUME RefCountExact, NEW c \in Listed
    PROVE  chan[c].ref = 0 <=> Holders(c) = {}
BY HoldersFinite, FS_EmptySet DEF RefCountExact

\* What Acquire does to the fields.
LEMMA AcquireOnce ==
    ASSUME TypeOK, NEW c \in Channels, Acquire(c)
    PROVE  /\ chan' \in [Channels -> Fields] /\ SameButRef
           /\ \A d \in Channels : chan'[d].ref = IF d = c THEN chan[d].ref + 1 ELSE chan[d].ref
BY DEF TypeOK, Acquire, Fields, SameButRef

\* What Release does to the fields.
LEMMA ReleaseOnce ==
    ASSUME TypeOK, NEW c \in Channels, Release(c)
    PROVE  /\ chan' \in [Channels -> Fields] /\ SameButRef
           /\ \A d \in Channels :
                chan'[d].ref = IF d = c /\ chan[d].ref # 0 THEN chan[d].ref - 1 ELSE chan[d].ref
<1>1. chan \in [Channels -> Fields]
    BY DEF TypeOK, Fields
<1>2. CASE chan[c].ref = 0
    BY <1>1, <1>2 DEF Release, Fields, SameButRef
<1>3. CASE chan[c].ref # 0
    BY <1>1, <1>3 DEF Release, Fields, SameButRef
<1> QED BY <1>2, <1>3

\* Nobody takes or gives back a channel: what goes is not held, what comes has
\* a count of zero.
LEMMA NobodyMoves ==
    ASSUME RefCountExact, HeldIsListed,
           handler'.ch = handler.ch, \A u \in Users : user'[u].ch = user[u].ch,
           \A c \in Channels :
              /\ place[c] = "listed" /\ place'[c] = "listed" => chan'[c].ref = chan[c].ref
              /\ place[c] = "listed" /\ place'[c] # "listed" => Holders(c) = {}
              /\ place[c] # "listed" /\ place'[c] = "listed" => chan'[c].ref = 0
    PROVE  RefCountExact' /\ HeldIsListed'
<1>1. \A c \in Channels : Holders(c)' = Holders(c)
    BY DEF Holders
<1>2. HeldIsListed'
    BY <1>1 DEF HeldIsListed
<1>3. ASSUME NEW c \in Channels, place'[c] = "listed"
      PROVE  chan'[c].ref = Cardinality(Holders(c))
    <2>1. CASE place[c] = "listed"
        BY <1>3, <2>1 DEF RefCountExact, Listed
    <2>2. CASE place[c] # "listed"
        BY <1>3, <2>2, FS_EmptySet DEF HeldIsListed
    <2> QED BY <2>1, <2>2
<1>4. RefCountExact'
    BY <1>1, <1>3 DEF RefCountExact, Listed
<1> QED BY <1>2, <1>4

\* Somebody who did not hold a channel of the list takes it.
LEMMA OneTakes ==
    ASSUME TypeOK, RefCountExact, HeldIsListed, NEW c \in Listed, NEW h, h \notin Holders(c),
           Acquire(c), UNCHANGED place,
           \A d \in Channels : Holders(d)' = IF d = c THEN Holders(d) \union {h} ELSE Holders(d)
    PROVE  RefCountExact' /\ HeldIsListed'
<1>1. c \in Channels /\ Listed' = Listed /\ Listed \subseteq Channels
    BY DEF Listed
<1>2. HeldIsListed'
    BY <1>1 DEF HeldIsListed, Listed
<1>3. Cardinality(Holders(c) \union {h}) = Cardinality(Holders(c)) + 1
    BY HoldersFinite, FS_AddElement
<1>4. \A d \in Listed : chan'[d].ref = Cardinality(Holders(d)')
    BY <1>1, <1>3, AcquireOnce DEF RefCountExact
<1>5. RefCountExact'
    BY <1>1, <1>4 DEF RefCountExact
<1> QED BY <1>2, <1>5

\* Somebody who held a channel gives it back.
LEMMA OneGives ==
    ASSUME TypeOK, RefCountExact, HeldIsListed, NEW c \in Channels, NEW h, h \in Holders(c),
           Release(c), UNCHANGED place,
           \A d \in Channels : Holders(d)' = IF d = c THEN Holders(d) \ {h} ELSE Holders(d)
    PROVE  RefCountExact' /\ HeldIsListed'
<1>1. c \in Listed /\ Listed' = Listed /\ Listed \subseteq Channels
    BY DEF Listed, HeldIsListed
<1>2. HeldIsListed'
    BY <1>1 DEF HeldIsListed, Listed
<1>3. Cardinality(Holders(c) \ {h}) = Cardinality(Holders(c)) - 1
    BY HoldersFinite, FS_RemoveElement
<1>4. chan[c].ref # 0
    BY <1>1, HeldIsUsed
<1>5. \A d \in Listed : chan'[d].ref = Cardinality(Holders(d)')
    BY <1>1, <1>3, <1>4, ReleaseOnce DEF RefCountExact
<1>6. RefCountExact'
    BY <1>1, <1>5 DEF RefCountExact
<1> QED BY <1>2, <1>6

\* The transport thread takes a channel.
LEMMA HandlerTakes ==
    ASSUME IInv, NEW c \in Listed, handler.ch = None, handler'.ch = c,
           Acquire(c), UNCHANGED <<place, user>>
    PROVE  RefCountExact' /\ HeldIsListed'
<1>1. None \notin Holders(c)
    BY ManagerAssumption DEF Holders, Listed
<1>2. \A d \in Channels : Holders(d)' = IF d = c THEN Holders(d) \union {None} ELSE Holders(d)
    BY ManagerAssumption DEF Holders, Listed
<1> QED BY <1>1, <1>2, OneTakes DEF IInv

\* The transport thread gives its channel back.
LEMMA HandlerGives ==
    ASSUME IInv, handler.ch \in Channels, handler'.ch = None,
           Release(handler.ch), UNCHANGED <<place, user>>
    PROVE  RefCountExact' /\ HeldIsListed'
<1>1. None \in Holders(handler.ch)
    BY DEF Holders
<1>2. \A d \in Channels :
        Holders(d)' = IF d = handler.ch THEN Holders(d) \ {None} ELSE Holders(d)
    BY ManagerAssumption DEF Holders
<1> QED BY <1>1, <1>2, OneGives DEF IInv

\* A user takes a channel.
LEMMA UserTakes ==
    ASSUME IInv, NEW u \in Users, NEW c \in Listed, user[u].ch = None,
           user'[u].ch = c, \A v \in Users \ {u} : user'[v] = user[v],
           Acquire(c), UNCHANGED place, handler'.ch = handler.ch
    PROVE  RefCountExact' /\ HeldIsListed'
<1>1. u \notin Holders(c)
    BY ManagerAssumption DEF Holders, Listed
<1>2. \A d \in Channels : Holders(d)' = IF d = c THEN Holders(d) \union {u} ELSE Holders(d)
    BY ManagerAssumption DEF Holders, Listed
<1> QED BY <1>1, <1>2, OneTakes DEF IInv

\* A user gives its channel back.
LEMMA UserGives ==
    ASSUME IInv, NEW u \in Users, user[u].ch \in Channels, user'[u].ch = None,
           \A v \in Users \ {u} : user'[v] = user[v],
           Release(user[u].ch), UNCHANGED place, handler'.ch = handler.ch
    PROVE  RefCountExact' /\ HeldIsListed'
<1>1. u \in Holders(user[u].ch)
    BY DEF Holders
<1>2. \A d \in Channels :
        Holders(d)' = IF d = user[u].ch THEN Holders(d) \ {u} ELSE Holders(d)
    BY ManagerAssumption DEF Holders
<1> QED BY <1>1, <1>2, OneGives DEF IInv

\* Links and ids do not depend on reference counts.
LEMMA LinksStay ==
    ASSUME IInv, SameButRef, UNCHANGED <<place, conns, uNextSecureChannelId, toCheck>>
    PROVE  WatchInv' /\ LinkSound' /\ IdUnique' /\ NextIdFree'
<1>1. Listed' = Listed /\ Listed \subseteq Channels
    BY DEF Listed
<1>2. \A c \in Channels : chan'[c].id = chan[c].id /\ chan'[c].conn = chan[c].conn
    BY DEF SameButRef, IInv
<1> QED BY <1>1, <1>2 DEF IInv, WatchInv, LinkSound, IdUnique, NextIdFree

-----------------------------------------------------------------------------
(* The transport thread.                                                    *)

\* The channel that the transport thread holds is in the list.
LEMMA HandlerHolds ==
    ASSUME IInv, handler.stage \notin {"idle", "bad"}
    PROVE  handler.ch \in Channels /\ handler.ch \in Listed /\ handler.conn \in Connections
<1>1. handler.ch \in Channels /\ handler.conn \in Connections
    BY DEF IInv, HandlerInv
<1>2. Holders(handler.ch) # {}
    BY DEF Holders
<1> QED BY <1>1, <1>2 DEF IInv, HeldIsListed, Listed

LEMMA ChannelOpenedKeeps ==
    ASSUME IInv, NEW k \in Connections, NEW c \in Channels, ChannelOpened(k, c)
    PROVE  IInv'
<1> USE DEF IInv
<1> DEFINE new == [Blank EXCEPT !.conn = k, !.ov = HelloTicks]
<1>0. /\ \A d \in Channels : d # c => chan'[d] = chan[d]
      /\ chan'[c].id = 0 /\ chan'[c].conn = k /\ chan'[c].ref = 0
      /\ \A d \in Channels : place'[d] = IF d = c THEN "listed" ELSE place[d]
      /\ \A d \in Channels : told'[d] = IF d = c THEN 0 ELSE told[d]
    <2>1. \A d \in Channels : chan'[d] = IF d = c THEN new ELSE chan[d]
        BY DEF ChannelOpened, TypeOK
    <2>2. new.id = 0 /\ new.conn = k /\ new.ref = 0
        BY DEF Blank
    <2> QED BY <2>1, <2>2 DEF ChannelOpened, TypeOK
<1>1. /\ place[c] = "free" /\ k \notin conns /\ conns' = conns \union {k}
      /\ handler = Idle /\ handler.stage = "idle"
      /\ UNCHANGED <<handler, uNextSecureChannelId, watch, user, uses>>
    BY DEF ChannelOpened, Idle
<1>2. TypeOK'
    <2>1. new \in Fields
        BY BlankFields, ManagerAssumption DEF Fields
    <2>2. chan' \in [Channels -> Fields]
        BY <2>1 DEF ChannelOpened, TypeOK, Fields
    <2> QED BY <1>1, <2>2 DEF ChannelOpened, TypeOK, Fields, Places, watch
<1>3. HandlerInv' /\ UserInv' /\ WatchInv'
    BY <1>0, <1>1 DEF HandlerInv, UserInv, WatchInv, Listed, watch
<1>4. RefCountExact' /\ HeldIsListed'
    BY <1>0, <1>1, NobodyMoves
<1>5. LinkSound'
    BY <1>0, <1>1 DEF LinkSound, Listed
<1>6. IdUnique' /\ NextIdFree'
    <2>1. uNextSecureChannelId # 0
        BY DEF TypeOK, Ids
    <2> QED BY <1>0, <1>1, <2>1 DEF IdUnique, NextIdFree, Listed
<1>7. ServingInv'
    BY <1>1 DEF ServingInv, Serving
<1>8. ToldInv'
    BY <1>0, <1>1 DEF ToldInv, Going
<1> QED BY <1>2, <1>3, <1>4, <1>5, <1>6, <1>7, <1>8

\* The transport thread goes on without touching a channel.
LEMMA HandlerGoesOn ==
    ASSUME IInv, UNCHANGED <<objects, conns, uNextSecureChannelId, watch, events>>,
           uses' \in 0 .. MaxUses,
           handler' \in [stage : Stages, conn : Connections \union {None},
                         ch : Channels \union {None}, isClose : BOOLEAN],
           user' \in [Users -> [op : {"idle", "begun", "response", "lookup"},
                                ch : Channels \union {None}]],
           handler'.ch = handler.ch, \A u \in Users : user'[u].ch = user[u].ch,
           HandlerInv', UserInv', ServingInv', ToldInv'
    PROVE  IInv'
<1> USE DEF IInv, objects, watch, events
<1>1. TypeOK'
    BY DEF TypeOK
<1>2. RefCountExact' /\ HeldIsListed'
    BY NobodyMoves
<1>3. WatchInv' /\ LinkSound' /\ IdUnique' /\ NextIdFree'
    BY DEF WatchInv, LinkSound, IdUnique, NextIdFree, Listed
<1> QED BY <1>1, <1>2, <1>3

\* A channel is taken for an event; nothing of it changes but its count.
LEMMA HandlerTakesOn ==
    ASSUME IInv, NEW c \in Listed, Acquire(c), handler.ch = None, handler'.ch = c,
           UNCHANGED <<place, conns, uNextSecureChannelId, watch, user, events>>,
           uses' \in 0 .. MaxUses,
           handler' \in [stage : Stages, conn : Connections \union {None},
                         ch : Channels \union {None}, isClose : BOOLEAN],
           HandlerInv', ServingInv', ToldInv'
    PROVE  IInv'
<1> USE DEF IInv, watch, events
<1>1. c \in Channels
    BY DEF Listed
<1>2. chan' \in [Channels -> Fields] /\ SameButRef
    BY <1>1, AcquireOnce
<1>3. TypeOK'
    BY <1>2 DEF TypeOK, Fields
<1>4. RefCountExact' /\ HeldIsListed'
    BY HandlerTakes
<1>5. WatchInv' /\ LinkSound' /\ IdUnique' /\ NextIdFree'
    BY <1>2, LinksStay
<1>6. UserInv'
    BY DEF UserInv
<1> QED BY <1>3, <1>4, <1>5, <1>6

\* What was announced stays announced while the fields of the channels stay.
LEMMA ToldStays ==
    ASSUME IInv, SameButRef, UNCHANGED <<place, told>>,
           \A c \in Listed : told[c] = 1 /\ Going(c) => Going(c)'
    PROVE  ToldInv'
<1>1. \A c \in Channels : chan'[c].state = chan[c].state
    BY DEF SameButRef, IInv
<1> QED BY <1>1 DEF IInv, ToldInv, Listed

LEMMA EventOnKeeps ==
    ASSUME IInv, NEW k \in Connections,
           NEW stage \in {"issue", "releaseBad", "release", "abort", "lost"},
           stage = "issue" => \A c \in ByConnection(k) : chan[c].id = 0,
           EventOn(k, stage)
    PROVE  IInv'
<1>1. PICK c \in ByConnection(k) :
        /\ Acquire(c)
        /\ handler' = [stage |-> stage, conn |-> k, ch |-> c, isClose |-> FALSE]
    BY DEF EventOn
<1>2. c \in Listed /\ c \in Channels /\ chan[c].conn = k
    BY DEF ByConnection, Listed
<1>3. /\ handler.ch = None /\ handler.stage = "idle"
      /\ UNCHANGED <<place, conns, uNextSecureChannelId, watch, user, events, uses>>
    BY DEF EventOn, Idle
<1>4. SameButRef
    BY <1>1, <1>2, AcquireOnce DEF IInv
<1>5. chan'[c].conn = k /\ chan'[c].id = chan[c].id
    BY <1>2, <1>4 DEF SameButRef, IInv
<1>6. /\ handler' \in [stage : Stages, conn : Connections \union {None},
                       ch : Channels \union {None}, isClose : BOOLEAN]
      /\ HandlerInv'
    BY <1>1, <1>2 DEF HandlerInv, Stages
<1>7. ServingInv'
    BY <1>1, <1>2, <1>5 DEF ServingInv, Serving
<1>8. ToldInv'
    <2>1. \A d \in Listed : Going(d) => Going(d)'
        BY <1>3, <1>4 DEF SameButRef, Going, IInv, Listed
    <2> QED BY <1>3, <1>4, <2>1, ToldStays DEF events
<1>9. uses' \in 0 .. MaxUses
    BY <1>3 DEF IInv, TypeOK
<1> QED BY <1>1, <1>2, <1>3, <1>6, <1>7, <1>8, <1>9, HandlerTakesOn

LEMMA IssueRequestKeeps ==
    ASSUME IInv, NEW k \in Connections, IssueRequest(k)
    PROVE  IInv'
<1>1. CASE EventOn(k, IF \E c \in ByConnection(k) : chan[c].id # 0 THEN "releaseBad" ELSE "issue")
    <2>1. CASE \E c \in ByConnection(k) : chan[c].id # 0
        BY <1>1, <2>1, EventOnKeeps
    <2>2. CASE ~\E c \in ByConnection(k) : chan[c].id # 0
        BY <1>1, <2>2, EventOnKeeps
    <2> QED BY <2>1, <2>2
<1>2. CASE handler' = [Idle EXCEPT !.stage = "bad", !.conn = k] /\ ~EventOn(k, "issue")
             /\ ByConnection(k) = {}
    <2>1. /\ UNCHANGED <<objects, conns, uNextSecureChannelId, watch, user, events, uses>>
          /\ handler = Idle
          /\ handler' = [stage |-> "bad", conn |-> k, ch |-> None, isClose |-> FALSE]
        BY <1>2 DEF IssueRequest, Idle, EventOn
    <2>2. HandlerInv' /\ ServingInv' /\ UserInv'
        BY <2>1 DEF IInv, HandlerInv, ServingInv, Serving, UserInv
    <2>3. ToldInv'
        BY <2>1 DEF IInv, ToldInv, Going, Idle, objects, events
    <2> QED BY <2>1, <2>2, <2>3, HandlerGoesOn DEF IInv, TypeOK, Stages, Idle
<1> QED BY <1>1, <1>2 DEF IssueRequest, EventOn

LEMMA RequestForKeeps ==
    ASSUME IInv, NEW k \in Connections, NEW i \in Ids, NEW stage \in {"renew", "call", "close"},
           RequestFor(k, i, stage)
    PROVE  IInv'
<1>1. /\ handler = Idle /\ handler.ch = None /\ handler.stage = "idle"
      /\ UNCHANGED <<place, conns, uNextSecureChannelId, watch, user, events>>
      /\ uses' \in 0 .. MaxUses
    BY ManagerAssumption DEF RequestFor, NextUse, Idle, IInv, TypeOK
<1>2. ASSUME NEW c \in ById(i), Acquire(c),
             handler' = [stage |-> IF chan[c].conn = k THEN stage ELSE "releaseBad",
                         conn |-> k, ch |-> c, isClose |-> stage = "close"]
      PROVE  IInv'
    <2>1. c \in Listed /\ c \in Channels
        BY DEF ById, Listed
    <2>2. SameButRef
        BY <1>2, <2>1, AcquireOnce DEF IInv
    <2>3. chan'[c].conn = chan[c].conn
        BY <2>1, <2>2 DEF SameButRef, IInv
    <2>4. /\ handler' \in [stage : Stages, conn : Connections \union {None},
                           ch : Channels \union {None}, isClose : BOOLEAN]
          /\ HandlerInv'
        BY <1>2, <2>1 DEF HandlerInv, Stages
    <2>5. ServingInv'
        BY <1>2, <2>3 DEF ServingInv, Serving
    <2>6. ToldInv'
        <3>1. \A d \in Listed : Going(d) => Going(d)'
            BY <1>1, <2>2 DEF SameButRef, Going, IInv, Listed
        <3> QED BY <1>1, <2>2, <3>1, ToldStays DEF events
    <2> QED BY <1>1, <1>2, <2>1, <2>4, <2>5, <2>6, HandlerTakesOn
<1>3. ASSUME UNCHANGED chan,
             handler' = [stage |-> "bad", conn |-> k, ch |-> None, isClose |-> stage = "close"]
      PROVE  IInv'
    <2>1. HandlerInv' /\ ServingInv' /\ UserInv'
        BY <1>1, <1>3 DEF IInv, HandlerInv, ServingInv, Serving, UserInv
    <2>2. ToldInv'
        BY <1>1, <1>3 DEF IInv, ToldInv, Going, events
    <2> QED BY <1>1, <1>3, <2>1, <2>2, HandlerGoesOn DEF IInv, TypeOK, Stages, objects
<1> QED BY <1>2, <1>3 DEF RequestFor

LEMMA UnknownRequestKeeps ==
    ASSUME IInv, NEW k \in Connections, UnknownRequest(k)
    PROVE  IInv'
<1>1. /\ UNCHANGED <<objects, conns, uNextSecureChannelId, watch, user, events, uses>>
      /\ handler = Idle
      /\ handler' = [stage |-> "bad", conn |-> k, ch |-> None, isClose |-> TRUE]
    BY DEF UnknownRequest, Idle
<1>2. HandlerInv' /\ ServingInv' /\ UserInv'
    BY <1>1 DEF IInv, HandlerInv, ServingInv, Serving, UserInv
<1>3. ToldInv'
    BY <1>1 DEF IInv, ToldInv, Going, Idle, objects, events
<1> QED BY <1>1, <1>2, <1>3, HandlerGoesOn DEF IInv, TypeOK, Stages, Idle

\* The thread goes on to a stage in which nothing is asked of the channel.
LEMMA GotoKeeps ==
    ASSUME IInv, NEW stage \in {"release", "releaseBad"}, Goto(stage),
           handler.stage \notin {"idle", "bad", "unlink"},
           handler.stage = "releaseBad" => stage = "releaseBad"
    PROVE  /\ handler' \in [stage : Stages, conn : Connections \union {None},
                            ch : Channels \union {None}, isClose : BOOLEAN]
           /\ handler'.ch = handler.ch /\ handler'.conn = handler.conn
           /\ handler'.isClose = handler.isClose /\ handler'.stage = stage
           /\ HandlerInv' /\ ServingInv'
<1>1. handler' = [handler EXCEPT !.stage = stage]
    BY DEF Goto
<1>2. /\ handler' \in [stage : Stages, conn : Connections \union {None},
                       ch : Channels \union {None}, isClose : BOOLEAN]
      /\ handler'.ch = handler.ch /\ handler'.conn = handler.conn
      /\ handler'.isClose = handler.isClose /\ handler'.stage = stage
    BY <1>1 DEF IInv, TypeOK, Stages
<1>3. HandlerInv' /\ ServingInv'
    BY <1>2 DEF IInv, HandlerInv, ServingInv, Serving
<1> QED BY <1>2, <1>3

LEMMA RequestEndsKeeps ==
    ASSUME IInv, RequestPartial \/ RequestFails
    PROVE  IInv'
<1>1. /\ handler.stage \in {"issue", "identified", "renew", "call", "close"}
      /\ Goto("release") \/ Goto("releaseBad")
      /\ UNCHANGED <<objects, conns, uNextSecureChannelId, watch, user, events, uses>>
    BY DEF RequestPartial, RequestFails
<1>2. /\ handler' \in [stage : Stages, conn : Connections \union {None},
                       ch : Channels \union {None}, isClose : BOOLEAN]
      /\ handler'.ch = handler.ch /\ HandlerInv' /\ ServingInv'
    BY <1>1, GotoKeeps
<1>3. UserInv' /\ ToldInv'
    BY <1>1 DEF IInv, UserInv, ToldInv, Going, objects, events
<1> QED BY <1>1, <1>2, <1>3, HandlerGoesOn DEF IInv, TypeOK

LEMMA BeginInvokeKeeps ==
    ASSUME IInv, NEW u \in Users, BeginInvoke(u)
    PROVE  IInv'
<1>1. /\ handler.stage = "begun" /\ user[u].op = "begun"
      /\ user' = [user EXCEPT ![u].op = "response"]
      /\ Goto("release") \/ Goto("releaseBad")
      /\ UNCHANGED <<objects, conns, uNextSecureChannelId, watch, events, uses>>
    BY DEF BeginInvoke
<1>2. /\ handler' \in [stage : Stages, conn : Connections \union {None},
                       ch : Channels \union {None}, isClose : BOOLEAN]
      /\ handler'.ch = handler.ch /\ HandlerInv' /\ ServingInv'
    BY <1>1, GotoKeeps
<1>3. /\ user' \in [Users -> [op : {"idle", "begun", "response", "lookup"},
                              ch : Channels \union {None}]]
      /\ \A v \in Users : user'[v].ch = user[v].ch
      /\ \A v \in Users : user'[v].op = "idle" <=> user[v].op = "idle"
    BY <1>1 DEF IInv, TypeOK
<1>4. UserInv'
    BY <1>3 DEF IInv, UserInv
<1>5. ToldInv'
    BY <1>1 DEF IInv, ToldInv, Going, objects, events
<1> QED BY <1>1, <1>2, <1>3, <1>4, <1>5, HandlerGoesOn DEF IInv, TypeOK

LEMMA SetSecureChannelIDKeeps ==
    ASSUME IInv, SetSecureChannelID
    PROVE  IInv'
<1> USE DEF IInv
<1> DEFINE h == handler.ch
<1>1. /\ handler.stage = "issue" /\ handler' = [handler EXCEPT !.stage = "identified"]
      /\ chan' = [chan EXCEPT ![h].id = uNextSecureChannelId]
      /\ uNextSecureChannelId' = NextValidId(uNextSecureChannelId, Listed)
      /\ UNCHANGED <<place, conns, watch, user, events, uses>>
    BY DEF SetSecureChannelID, Goto
<1>2. h \in Channels /\ h \in Listed /\ chan[h].id = 0
    BY <1>1, HandlerHolds DEF ServingInv
<1>3. /\ uNextSecureChannelId' \in Ids /\ uNextSecureChannelId' # uNextSecureChannelId
      /\ uNextSecureChannelId' \notin {chan[c].id : c \in Listed}
    BY <1>1, <1>2, NextValidIdIsValid DEF TypeOK
<1>4. /\ handler' \in [stage : Stages, conn : Connections \union {None},
                       ch : Channels \union {None}, isClose : BOOLEAN]
      /\ handler'.ch = h /\ handler'.conn = handler.conn /\ handler'.stage = "identified"
    BY <1>1 DEF TypeOK, Stages
<1>5. /\ chan' \in [Channels -> Fields]
      /\ \A d \in Channels :
            /\ chan'[d].id = IF d = h THEN uNextSecureChannelId ELSE chan[d].id
            /\ chan'[d].conn = chan[d].conn /\ chan'[d].ref = chan[d].ref
            /\ chan'[d].state = chan[d].state
    BY <1>1, <1>2 DEF TypeOK, Fields, Ids
<1>6. Listed' = Listed /\ Listed \subseteq Channels
    BY <1>1 DEF Listed
<1> HIDE DEF h
<1>7. TypeOK'
    BY <1>1, <1>3, <1>4, <1>5 DEF TypeOK, Fields, watch, events
<1>8. HandlerInv' /\ ServingInv'
    BY <1>1, <1>2, <1>4, <1>5 DEF HandlerInv, ServingInv, Serving, h
<1>9. UserInv' /\ WatchInv' /\ LinkSound'
    BY <1>1, <1>5, <1>6 DEF UserInv, WatchInv, LinkSound, watch
<1>10. RefCountExact' /\ HeldIsListed'
    BY <1>1, <1>4, <1>5, NobodyMoves DEF h
<1>11. IdUnique'
    BY <1>5, <1>6 DEF IdUnique, NextIdFree
<1>12. NextIdFree'
    BY <1>3, <1>5, <1>6 DEF NextIdFree
<1>13. ToldInv'
    BY <1>1, <1>4, <1>5 DEF ToldInv, Going, events
<1> QED BY <1>7, <1>8, <1>9, <1>10, <1>11, <1>12, <1>13
LEMMA OpenOrRenewKeeps ==
    ASSUME IInv, OpenOrRenew
    PROVE  IInv'
<1> USE DEF IInv
<1> DEFINE h == handler.ch
<1>1. /\ handler.stage \in {"identified", "renew"}
      /\ chan' = [chan EXCEPT ![h].state = "Opened", ![h].exp = LifeTicks, ![h].ov = OverlapTicks]
      /\ timedOut' = timedOut \ {h}
      /\ Goto("release") \/ Goto("releaseBad")
      /\ UNCHANGED <<place, conns, uNextSecureChannelId, watch, user, told, uses>>
    BY DEF OpenOrRenew
<1>2. /\ h \in Channels /\ handler.conn \in Connections /\ chan[h].conn = handler.conn
      /\ h \in Listed
    BY <1>1, HandlerHolds DEF ServingInv, Serving
<1>3. /\ handler' \in [stage : Stages, conn : Connections \union {None},
                       ch : Channels \union {None}, isClose : BOOLEAN]
      /\ handler'.ch = h /\ HandlerInv'
    BY <1>1, GotoKeeps
<1>4. /\ chan' \in [Channels -> Fields]
      /\ \A d \in Channels :
            /\ chan'[d].id = chan[d].id /\ chan'[d].conn = chan[d].conn
            /\ chan'[d].ref = chan[d].ref
            /\ d # h => chan'[d].state = chan[d].state
    <2>1. OverlapTicks \in Nat /\ LifeTicks \in 0 .. LifeTicks
        BY ManagerAssumption
    <2>2. chan \in [Channels -> Fields]
        BY DEF TypeOK, Fields
    <2> DEFINE opened == [chan EXCEPT ![h].state = "Opened"]
               timed  == [opened EXCEPT ![h].exp = LifeTicks]
    <2>3. /\ opened \in [Channels -> Fields]
          /\ \A d \in Channels :
                /\ opened[d].id = chan[d].id /\ opened[d].conn = chan[d].conn
                /\ opened[d].ref = chan[d].ref
                /\ d # h => opened[d].state = chan[d].state
        BY <1>2, <2>2 DEF Fields
    <2>4. chan' = [timed EXCEPT ![h].ov = OverlapTicks]
        BY <1>1
    <2> HIDE DEF opened
    <2>5. /\ timed \in [Channels -> Fields]
          /\ \A d \in Channels :
                /\ timed[d].id = opened[d].id /\ timed[d].conn = opened[d].conn
                /\ timed[d].ref = opened[d].ref /\ timed[d].state = opened[d].state
        BY <1>2, <2>1, <2>3 DEF Fields
    <2> HIDE DEF timed
    <2>6. /\ chan' \in [Channels -> Fields]
          /\ \A d \in Channels :
                /\ chan'[d].id = timed[d].id /\ chan'[d].conn = timed[d].conn
                /\ chan'[d].ref = timed[d].ref /\ chan'[d].state = timed[d].state
        BY <1>2, <2>1, <2>4, <2>5 DEF Fields
    <2> QED BY <2>3, <2>5, <2>6
<1>5. Listed' = Listed /\ Listed \subseteq Channels
    BY <1>1 DEF Listed
<1> HIDE DEF h
<1>6. TypeOK'
    BY <1>1, <1>3, <1>4 DEF TypeOK, Fields, watch
<1>7. ServingInv'
    BY <1>1, GotoKeeps
<1>8. UserInv' /\ WatchInv' /\ LinkSound' /\ IdUnique' /\ NextIdFree'
    BY <1>1, <1>4, <1>5 DEF UserInv, WatchInv, LinkSound, IdUnique, NextIdFree, watch
<1>9. RefCountExact' /\ HeldIsListed'
    BY <1>1, <1>3, <1>4, NobodyMoves DEF h
<1>10. ToldInv'
    <2>1. told[h] # 1
        BY <1>1, <1>2, ManagerAssumption DEF ToldInv, Going, Listed
    <2> QED BY <1>1, <1>4, <2>1 DEF ToldInv, Going
<1> QED BY <1>3, <1>6, <1>7, <1>8, <1>9, <1>10

LEMMA CloseRequestKeeps ==
    ASSUME IInv, CloseRequest
    PROVE  IInv'
<1> USE DEF IInv
<1> DEFINE h == handler.ch
<1>1. /\ handler.stage = "close" /\ Goto("releaseBad")
      /\ told' = [told EXCEPT ![h] = @ + 1]
      /\ chan' = [chan EXCEPT ![h].state = "Closed"]
      /\ UNCHANGED <<place, conns, uNextSecureChannelId, watch, user, timedOut, uses>>
    BY DEF CloseRequest
<1>2. /\ h \in Channels /\ handler.conn \in Connections /\ chan[h].conn = handler.conn
      /\ h \in Listed /\ handler.isClose
    BY <1>1, HandlerHolds DEF ServingInv, Serving
<1>3. /\ handler' \in [stage : Stages, conn : Connections \union {None},
                       ch : Channels \union {None}, isClose : BOOLEAN]
      /\ handler'.ch = h /\ handler'.conn = handler.conn
      /\ handler'.isClose = handler.isClose /\ handler'.stage = "releaseBad"
      /\ HandlerInv' /\ ServingInv'
    BY <1>1, GotoKeeps
<1>4. /\ chan' \in [Channels -> Fields]
      /\ \A d \in Channels :
            /\ chan'[d].id = chan[d].id /\ chan'[d].conn = chan[d].conn
            /\ chan'[d].ref = chan[d].ref
            /\ chan'[d].state = IF d = h THEN "Closed" ELSE chan[d].state
      /\ told' \in [Channels -> Nat]
      /\ \A d \in Channels : told'[d] = IF d = h THEN told[d] + 1 ELSE told[d]
    BY <1>1, <1>2 DEF TypeOK, Fields
<1>5. Listed' = Listed /\ Listed \subseteq Channels
    BY <1>1 DEF Listed
<1> HIDE DEF h
<1>6. TypeOK'
    BY <1>1, <1>3, <1>4 DEF TypeOK, Fields, watch
<1>7. UserInv' /\ WatchInv' /\ LinkSound' /\ IdUnique' /\ NextIdFree'
    BY <1>1, <1>4, <1>5 DEF UserInv, WatchInv, LinkSound, IdUnique, NextIdFree, watch
<1>8. RefCountExact' /\ HeldIsListed'
    BY <1>1, <1>3, <1>4, NobodyMoves DEF h
<1>9. ToldInv'
    <2>1. told[h] = 0
        <3>1. told[h] # 1 /\ told[h] <= 1 /\ told[h] \in Nat
            BY <1>1, <1>2, ManagerAssumption DEF ToldInv, Going, Listed, TypeOK
        <3> QED BY <3>1
    <2>2. place[h] = "listed"
        BY <1>2 DEF Listed
    <2> QED BY <1>1, <1>2, <1>3, <1>4, <2>1, <2>2 DEF ToldInv, Going
<1> QED BY <1>3, <1>6, <1>7, <1>8, <1>9

LEMMA HandlerReleaseKeeps ==
    ASSUME IInv, HandlerRelease
    PROVE  IInv'
<1> USE DEF IInv
<1> DEFINE h == handler.ch
<1>1. /\ handler.stage \in {"release", "releaseBad", "done"}
      /\ Release(h)
      /\ UNCHANGED <<place, uNextSecureChannelId, watch, user, events, uses>>
    BY DEF HandlerRelease
<1>2. h \in Channels /\ handler.conn \in Connections
    BY <1>1, HandlerHolds
<1>3. chan' \in [Channels -> Fields] /\ SameButRef
    BY <1>1, <1>2, ReleaseOnce
<1>4. /\ handler' = IF handler.stage = "releaseBad"
                    THEN [handler EXCEPT !.stage = "bad", !.ch = None] ELSE Idle
      /\ conns' = IF handler.stage = "done" THEN conns \ {handler.conn} ELSE conns
    BY DEF HandlerRelease
<1>5. /\ handler' \in [stage : Stages, conn : Connections \union {None},
                       ch : Channels \union {None}, isClose : BOOLEAN]
      /\ handler'.ch = None
      /\ handler.stage = "releaseBad" =>
            /\ handler'.stage = "bad" /\ handler'.conn = handler.conn
            /\ handler'.isClose = handler.isClose
      /\ handler.stage # "releaseBad" => handler' = Idle /\ handler'.stage = "idle"
      /\ conns' \subseteq conns
    BY <1>4 DEF TypeOK, Stages, Idle
<1>6. TypeOK'
    BY <1>1, <1>3, <1>5 DEF TypeOK, Fields, watch, events
<1>7. HandlerInv' /\ ServingInv'
    BY <1>1, <1>2, <1>5 DEF HandlerInv, ServingInv, Serving
<1>8. RefCountExact' /\ HeldIsListed'
    BY <1>1, <1>2, <1>5, HandlerGives
<1>9. Listed' = Listed /\ Listed \subseteq Channels
    BY <1>1 DEF Listed
<1>10. LinkSound'
    <2>1. \A c \in Listed : chan'[c].conn = chan[c].conn
        BY <1>3, <1>9 DEF SameButRef
    <2>2. ASSUME NEW c \in Listed, chan[c].conn # None
          PROVE  chan[c].conn \in conns'
        BY <1>4, <2>2 DEF LinkSound, ServingInv
    <2> QED BY <1>9, <2>1, <2>2 DEF LinkSound
<1>11. IdUnique' /\ NextIdFree'
    BY <1>1, <1>3, <1>9 DEF SameButRef, IdUnique, NextIdFree
<1>12. UserInv' /\ WatchInv'
    BY <1>1, <1>9 DEF UserInv, WatchInv, watch
<1>13. ToldInv'
    <2>1. \A c \in Channels : chan'[c].conn = chan[c].conn
        BY <1>3 DEF SameButRef
    <2>2. \A c \in Listed : Going(c) => Going(c)'
        BY <1>1, <1>5, <1>9, <2>1 DEF Going
    <2> QED BY <1>1, <1>3, <2>2, ToldStays DEF events
<1> QED BY <1>6, <1>7, <1>8, <1>10, <1>11, <1>12, <1>13
LEMMA BadRequestKeeps ==
    ASSUME IInv, BadRequest
    PROVE  IInv'
<1>1. /\ handler.stage = "bad" /\ handler.ch = None /\ handler.conn \in Connections
      /\ UNCHANGED <<place, conns, uNextSecureChannelId, watch, user, events, uses>>
    BY DEF BadRequest, IInv, HandlerInv
<1>2. ASSUME NEW c \in ByConnection(handler.conn), Acquire(c),
             handler' = [handler EXCEPT !.ch = c,
                            !.stage = IF handler.isClose THEN "unlink" ELSE "failing"]
      PROVE  IInv'
    <2>1. c \in Listed /\ c \in Channels /\ chan[c].conn = handler.conn
        BY DEF ByConnection, Listed
    <2>2. SameButRef
        BY <1>2, <2>1, AcquireOnce DEF IInv
    <2>3. /\ handler' \in [stage : Stages, conn : Connections \union {None},
                           ch : Channels \union {None}, isClose : BOOLEAN]
          /\ handler'.ch = c /\ handler'.conn = handler.conn
          /\ handler'.isClose = handler.isClose
          /\ handler'.stage = IF handler.isClose THEN "unlink" ELSE "failing"
        BY <1>2, <2>1 DEF IInv, TypeOK, Stages
    <2>4. HandlerInv' /\ ServingInv'
        BY <1>1, <2>1, <2>2, <2>3 DEF SameButRef, IInv, HandlerInv, ServingInv, Serving
    <2>5. ToldInv'
        <3>1. \A d \in Channels : chan'[d].conn = chan[d].conn
            BY <2>2 DEF SameButRef, IInv
        <3>2. \A d \in Listed : Going(d) => Going(d)'
            BY <2>3, <3>1 DEF Going, Listed
        <3> QED BY <1>1, <2>2, <3>2, ToldStays DEF events
    <2>6. uses' \in 0 .. MaxUses
        BY <1>1 DEF IInv, TypeOK
    <2> QED BY <1>1, <1>2, <2>1, <2>3, <2>4, <2>5, <2>6, HandlerTakesOn
<1>3. ASSUME ByConnection(handler.conn) = {}, handler' = Idle, UNCHANGED chan
      PROVE  IInv'
    <2>1. handler'.stage = "idle" /\ handler'.ch = None
        BY <1>3 DEF Idle
    <2>2. HandlerInv' /\ ServingInv' /\ UserInv'
        BY <1>1, <1>3, <2>1 DEF IInv, HandlerInv, ServingInv, Serving, UserInv
    <2>3. ToldInv'
        <3>1. \A c \in Listed : chan[c].conn # handler.conn
            BY <1>3 DEF ByConnection
        <3>2. \A c \in Listed : Going(c) => Going(c)'
            BY <1>3, <3>1 DEF Going
        <3> QED BY <1>1, <1>3, <3>2 DEF IInv, ToldInv, Listed, events
    <2>4. handler' \in [stage : Stages, conn : Connections \union {None},
                        ch : Channels \union {None}, isClose : BOOLEAN]
        BY <1>3 DEF Idle, Stages
    <2> QED BY <1>1, <1>3, <2>1, <2>2, <2>3, <2>4, HandlerGoesOn DEF IInv, TypeOK, objects
<1> QED BY <1>2, <1>3 DEF BadRequest

LEMMA BadRequestClosesKeeps ==
    ASSUME IInv, BadRequestCloses
    PROVE  IInv'
<1> USE DEF IInv
<1> DEFINE h == handler.ch
<1>1. /\ handler.stage = "failing" /\ handler' = [handler EXCEPT !.stage = "unlink"]
      /\ chan' = [chan EXCEPT ![h].state = "Closed"]
      /\ UNCHANGED <<place, conns, uNextSecureChannelId, watch, user, events, uses>>
    BY DEF BadRequestCloses, Goto
<1>2. h \in Channels /\ handler.conn \in Connections
    BY <1>1, HandlerHolds
<1>3. /\ handler' \in [stage : Stages, conn : Connections \union {None},
                       ch : Channels \union {None}, isClose : BOOLEAN]
      /\ handler'.ch = h /\ handler'.conn = handler.conn /\ handler'.stage = "unlink"
      /\ handler'.isClose = handler.isClose
    BY <1>1 DEF TypeOK, Stages
<1>4. /\ chan' \in [Channels -> Fields]
      /\ \A d \in Channels :
            /\ chan'[d].id = chan[d].id /\ chan'[d].conn = chan[d].conn
            /\ chan'[d].ref = chan[d].ref
            /\ chan'[d].state = IF d = h THEN "Closed" ELSE chan[d].state
    BY <1>1, <1>2 DEF TypeOK, Fields
<1>5. Listed' = Listed /\ Listed \subseteq Channels
    BY <1>1 DEF Listed
<1> HIDE DEF h
<1>6. TypeOK'
    BY <1>1, <1>3, <1>4 DEF TypeOK, Fields, watch, events
<1>7. HandlerInv' /\ ServingInv'
    BY <1>1, <1>2, <1>3, <1>4 DEF HandlerInv, ServingInv, Serving, h
<1>8. UserInv' /\ WatchInv' /\ LinkSound' /\ IdUnique' /\ NextIdFree'
    BY <1>1, <1>4, <1>5 DEF UserInv, WatchInv, LinkSound, IdUnique, NextIdFree, watch
<1>9. RefCountExact' /\ HeldIsListed'
    BY <1>1, <1>3, <1>4, NobodyMoves DEF h
<1>10. ToldInv'
    BY <1>1, <1>3, <1>4 DEF ToldInv, Going, events
<1> QED BY <1>6, <1>7, <1>8, <1>9, <1>10

LEMMA UnlinkKeeps ==
    ASSUME IInv, Unlink
    PROVE  IInv'
<1> USE DEF IInv
<1> DEFINE h == handler.ch
           next == IF handler.stage = "unlink" THEN "release" ELSE "expire"
<1>1. /\ handler.stage \in {"unlink", "abort", "lost"}
      /\ chan' = [chan EXCEPT ![h].conn = None]
      /\ conns' = IF handler.stage = "lost" THEN conns ELSE conns \ {handler.conn}
      /\ handler' = [handler EXCEPT !.stage = next]
      /\ UNCHANGED <<place, uNextSecureChannelId, watch, user, events, uses>>
    BY DEF Unlink, Goto
<1>2. /\ h \in Channels /\ h \in Listed /\ handler.conn \in Connections
      /\ chan[h].conn = handler.conn
    BY <1>1, HandlerHolds DEF ServingInv, Serving
<1>3. /\ handler' \in [stage : Stages, conn : Connections \union {None},
                       ch : Channels \union {None}, isClose : BOOLEAN]
      /\ handler'.ch = h /\ handler'.conn = handler.conn
      /\ handler'.stage \in {"release", "expire"}
    BY <1>1 DEF TypeOK, Stages
<1>4. /\ chan' \in [Channels -> Fields]
      /\ \A d \in Channels :
            /\ chan'[d].id = chan[d].id /\ chan'[d].state = chan[d].state
            /\ chan'[d].ref = chan[d].ref
            /\ chan'[d].conn = IF d = h THEN None ELSE chan[d].conn
    BY <1>1, <1>2 DEF TypeOK, Fields
<1>5. Listed' = Listed /\ Listed \subseteq Channels
    BY <1>1 DEF Listed
<1>6. conns \ {handler.conn} \subseteq conns' /\ conns' \subseteq conns
    BY <1>1
<1>7. \A d \in Listed : d # h => chan[d].conn # handler.conn
    BY <1>2, ManagerAssumption DEF LinkSound
<1> HIDE DEF h, next
<1>8. TypeOK'
    BY <1>1, <1>3, <1>4, <1>6 DEF TypeOK, Fields, watch, events
<1>9. HandlerInv' /\ ServingInv'
    BY <1>2, <1>3, <1>4, <1>5, <1>7, ManagerAssumption DEF HandlerInv, ServingInv, Serving
<1>10. LinkSound'
    BY <1>4, <1>5, <1>6, <1>7 DEF LinkSound
<1>11. UserInv' /\ WatchInv' /\ IdUnique' /\ NextIdFree'
    BY <1>1, <1>4, <1>5 DEF UserInv, WatchInv, IdUnique, NextIdFree, watch
<1>12. RefCountExact' /\ HeldIsListed'
    BY <1>1, <1>3, <1>4, NobodyMoves DEF h
<1>13. ToldInv'
    <2>1. \A d \in Listed : Going(d) => Going(d)'
        BY <1>4, <1>5, <1>7 DEF Going
    <2> QED BY <1>1, <1>4, <2>1 DEF ToldInv, Listed, events
<1> QED BY <1>8, <1>9, <1>10, <1>11, <1>12, <1>13

LEMMA ExpireNowKeeps ==
    ASSUME IInv, ExpireNow
    PROVE  IInv'
<1> USE DEF IInv
<1> DEFINE h == handler.ch
           expired == [chan EXCEPT ![h].exp = 0]
<1>1. /\ handler.stage = "expire" /\ handler' = [handler EXCEPT !.stage = "done"]
      /\ chan' = [expired EXCEPT ![h].ov = 0]
      /\ UNCHANGED <<place, conns, uNextSecureChannelId, watch, user, events, uses>>
    BY DEF ExpireNow, Goto
<1>2. h \in Channels /\ handler.conn \in Connections
    BY <1>1, HandlerHolds
<1>3. /\ handler' \in [stage : Stages, conn : Connections \union {None},
                       ch : Channels \union {None}, isClose : BOOLEAN]
      /\ handler'.ch = h /\ handler'.conn = handler.conn /\ handler'.stage = "done"
      /\ handler'.isClose = handler.isClose
    BY <1>1 DEF TypeOK, Stages
<1>4. /\ chan' \in [Channels -> Fields]
      /\ \A d \in Channels :
            /\ chan'[d].id = chan[d].id /\ chan'[d].conn = chan[d].conn
            /\ chan'[d].ref = chan[d].ref /\ chan'[d].state = chan[d].state
    <2>1. 0 \in 0 .. LifeTicks /\ chan \in [Channels -> Fields]
        BY ManagerAssumption DEF TypeOK, Fields
    <2>2. /\ expired \in [Channels -> Fields]
          /\ \A d \in Channels :
                /\ expired[d].id = chan[d].id /\ expired[d].conn = chan[d].conn
                /\ expired[d].ref = chan[d].ref /\ expired[d].state = chan[d].state
        BY <1>2, <2>1 DEF Fields
    <2> HIDE DEF expired
    <2>3. /\ chan' \in [Channels -> Fields]
          /\ \A d \in Channels :
                /\ chan'[d].id = expired[d].id /\ chan'[d].conn = expired[d].conn
                /\ chan'[d].ref = expired[d].ref /\ chan'[d].state = expired[d].state
        BY <1>1, <1>2, <2>2 DEF Fields
    <2> QED BY <2>2, <2>3
<1>5. Listed' = Listed /\ Listed \subseteq Channels
    BY <1>1 DEF Listed
<1> HIDE DEF h
<1>6. TypeOK'
    BY <1>1, <1>3, <1>4 DEF TypeOK, Fields, watch, events
<1>7. HandlerInv' /\ ServingInv'
    BY <1>1, <1>2, <1>3, <1>4, <1>5 DEF HandlerInv, ServingInv, Serving, h
<1>8. UserInv' /\ WatchInv' /\ LinkSound' /\ IdUnique' /\ NextIdFree'
    BY <1>1, <1>4, <1>5 DEF UserInv, WatchInv, LinkSound, IdUnique, NextIdFree, watch
<1>9. RefCountExact' /\ HeldIsListed'
    BY <1>1, <1>3, <1>4, NobodyMoves DEF h
<1>10. ToldInv'
    BY <1>1, <1>3, <1>4 DEF ToldInv, Going, events
<1> QED BY <1>6, <1>7, <1>8, <1>9, <1>10

LEMMA LostWithoutChannelKeeps ==
    ASSUME IInv, NEW k \in Connections, LostWithoutChannel(k)
    PROVE  IInv'
<1> USE DEF IInv
<1>1. /\ handler = Idle /\ handler.stage = "idle" /\ conns' = conns \ {k}
      /\ ByConnection(k) = {}
      /\ UNCHANGED <<place, chan, handler, uNextSecureChannelId, watch, user, events, uses>>
    BY DEF LostWithoutChannel, Idle, objects
<1>2. TypeOK'
    BY <1>1 DEF TypeOK, watch, events
<1>3. HandlerInv' /\ UserInv' /\ WatchInv' /\ IdUnique' /\ NextIdFree'
    BY <1>1 DEF HandlerInv, UserInv, WatchInv, IdUnique, NextIdFree, Listed, watch
<1>4. RefCountExact' /\ HeldIsListed'
    BY <1>1, NobodyMoves
<1>5. LinkSound'
    BY <1>1 DEF LinkSound, ByConnection, Listed
<1>6. ServingInv' /\ ToldInv'
    BY <1>1 DEF ServingInv, Serving, ToldInv, Going, Listed, events
<1> QED BY <1>2, <1>3, <1>4, <1>5, <1>6
-----------------------------------------------------------------------------
(* Users of channels.                                                       *)

\* A user takes a channel, or gives its own back, and the transport thread goes
\* on with its channel.
LEMMA UserMoves ==
    ASSUME IInv, NEW u \in Users, SameButRef, chan' \in [Channels -> Fields],
           UNCHANGED <<place, conns, uNextSecureChannelId, watch, events>>,
           uses' \in 0 .. MaxUses,
           user' \in [Users -> [op : {"idle", "begun", "response", "lookup"},
                                ch : Channels \union {None}]],
           \A v \in Users \ {u} : user'[v] = user[v],
           user'[u].op = "idle" <=> user'[u].ch = None,
           RefCountExact' /\ HeldIsListed',
           \/ UNCHANGED handler
           \/ /\ handler.stage \in {"call", "begun"}
              /\ \E stage \in {"begun", "releaseBad"} : handler' = [handler EXCEPT !.stage = stage]
    PROVE  IInv'
<1> USE DEF IInv, watch, events
<1>1. /\ handler' \in [stage : Stages, conn : Connections \union {None},
                       ch : Channels \union {None}, isClose : BOOLEAN]
      /\ handler'.ch = handler.ch /\ handler'.conn = handler.conn
      /\ handler'.isClose = handler.isClose
      /\ \/ UNCHANGED handler
         \/ handler.stage \in {"call", "begun"} /\ handler'.stage \in {"begun", "releaseBad"}
    BY DEF TypeOK, Stages
<1>2. TypeOK'
    BY <1>1 DEF TypeOK, Fields
<1>3. \A c \in Channels :
        /\ chan'[c].state = chan[c].state /\ chan'[c].id = chan[c].id
        /\ chan'[c].conn = chan[c].conn
    BY DEF SameButRef
<1>4. Listed' = Listed /\ Listed \subseteq Channels
    BY DEF Listed
<1>5. HandlerInv'
    BY <1>1 DEF HandlerInv
<1>6. ServingInv'
    <2>1. CASE UNCHANGED handler
        <3>1. handler.stage \in Serving => handler.ch \in Channels
            BY HandlerHolds DEF Serving
        <3>2. handler.stage = "issue" => handler.stage \in Serving
            BY DEF Serving
        <3> QED BY <1>3, <1>4, <2>1, <3>1, <3>2 DEF ServingInv
    <2>2. CASE handler.stage \in {"call", "begun"} /\ handler'.stage \in {"begun", "releaseBad"}
        <3>1. handler.ch \in Channels /\ chan[handler.ch].conn = handler.conn
            BY <2>2, HandlerHolds DEF ServingInv, Serving
        <3> QED BY <1>1, <1>3, <2>2, <3>1 DEF ServingInv, Serving
    <2> QED BY <1>1, <2>1, <2>2
<1>7. UserInv'
    BY DEF UserInv
<1>8. WatchInv' /\ LinkSound' /\ IdUnique' /\ NextIdFree'
    BY LinksStay
<1>9. ToldInv'
    <2>1. \A d \in Listed : Going(d) => Going(d)'
        BY <1>1, <1>3, <1>4 DEF Going
    <2> QED BY <2>1, ToldStays
<1> QED BY <1>2, <1>5, <1>6, <1>7, <1>8, <1>9

LEMMA BeginSendResponseKeeps ==
    ASSUME IInv, NEW u \in Users, BeginSendResponse(u)
    PROVE  IInv'
<1>1. PICK c \in ById(chan[handler.ch].id) :
        Acquire(c) /\ user' = [user EXCEPT ![u] = [op |-> "begun", ch |-> c]]
    BY DEF BeginSendResponse
<1>2. /\ handler.stage = "call" /\ user[u].op = "idle"
      /\ handler' = [handler EXCEPT !.stage = "begun"]
      /\ UNCHANGED <<place, conns, uNextSecureChannelId, watch, events, uses>>
    BY DEF BeginSendResponse, Goto
<1>3. c \in Listed /\ c \in Channels /\ c # None /\ user[u].ch = None
    BY <1>2, ManagerAssumption DEF ById, Listed, IInv, UserInv
<1>4. /\ user' \in [Users -> [op : {"idle", "begun", "response", "lookup"},
                              ch : Channels \union {None}]]
      /\ user'[u].op = "begun" /\ user'[u].ch = c
      /\ \A v \in Users \ {u} : user'[v] = user[v]
    BY <1>1, <1>3 DEF IInv, TypeOK
<1>5. SameButRef /\ chan' \in [Channels -> Fields]
    BY <1>1, <1>3, AcquireOnce DEF IInv
<1>6. handler'.ch = handler.ch /\ uses' \in 0 .. MaxUses
    BY <1>2 DEF IInv, TypeOK
<1>7. RefCountExact' /\ HeldIsListed'
    BY <1>1, <1>2, <1>3, <1>4, <1>6, UserTakes
<1> QED BY <1>2, <1>3, <1>4, <1>5, <1>6, <1>7, UserMoves

LEMMA LookUpKeeps ==
    ASSUME IInv, NEW u \in Users, NEW i \in Ids, LookUp(u, i)
    PROVE  IInv'
<1>1. PICK c \in ById(i) :
        Acquire(c) /\ user' = [user EXCEPT ![u] = [op |-> "lookup", ch |-> c]]
    BY DEF LookUp
<1>2. /\ user[u].op = "idle" /\ NextUse
      /\ UNCHANGED <<place, conns, handler, uNextSecureChannelId, watch, events>>
    BY DEF LookUp
<1>3. c \in Listed /\ c \in Channels /\ c # None /\ user[u].ch = None
    BY <1>2, ManagerAssumption DEF ById, Listed, IInv, UserInv
<1>4. /\ user' \in [Users -> [op : {"idle", "begun", "response", "lookup"},
                              ch : Channels \union {None}]]
      /\ user'[u].op = "lookup" /\ user'[u].ch = c
      /\ \A v \in Users \ {u} : user'[v] = user[v]
    BY <1>1, <1>3 DEF IInv, TypeOK
<1>5. SameButRef /\ chan' \in [Channels -> Fields]
    BY <1>1, <1>3, AcquireOnce DEF IInv
<1>6. uses' \in 0 .. MaxUses
    BY <1>2, ManagerAssumption DEF IInv, TypeOK, NextUse
<1>7. RefCountExact' /\ HeldIsListed'
    BY <1>1, <1>2, <1>3, <1>4, UserTakes
<1> QED BY <1>2, <1>3, <1>4, <1>5, <1>6, <1>7, UserMoves

\* A user that is not idle gives its channel back.
LEMMA UserGivesOn ==
    ASSUME IInv, NEW u \in Users, user[u].op # "idle",
           Release(user[u].ch),
           user' = [user EXCEPT ![u] = [op |-> "idle", ch |-> None]],
           UNCHANGED <<place, conns, uNextSecureChannelId, watch, events, uses>>,
           \/ UNCHANGED handler
           \/ handler.stage = "begun" /\ handler' = [handler EXCEPT !.stage = "releaseBad"]
    PROVE  IInv'
<1>1. user[u].ch \in Channels
    BY DEF IInv, UserInv, TypeOK
<1>2. /\ user' \in [Users -> [op : {"idle", "begun", "response", "lookup"},
                              ch : Channels \union {None}]]
      /\ user'[u].op = "idle" /\ user'[u].ch = None
      /\ \A v \in Users \ {u} : user'[v] = user[v]
    BY DEF IInv, TypeOK
<1>3. SameButRef /\ chan' \in [Channels -> Fields]
    BY <1>1, ReleaseOnce DEF IInv
<1>4. handler'.ch = handler.ch /\ uses' \in 0 .. MaxUses
    BY DEF IInv, TypeOK
<1>5. RefCountExact' /\ HeldIsListed'
    BY <1>1, <1>2, <1>4, UserGives
<1> QED BY <1>2, <1>3, <1>4, <1>5, UserMoves

LEMMA BeginSendRefusedKeeps ==
    ASSUME IInv, NEW u \in Users, BeginSendRefused(u)
    PROVE  IInv'
BY UserGivesOn DEF BeginSendRefused, Goto

LEMMA FinishKeeps ==
    ASSUME IInv, NEW u \in Users, Finish(u)
    PROVE  IInv'
BY UserGivesOn DEF Finish

-----------------------------------------------------------------------------
(* The watchdog.                                                            *)

\* A pass begins, ends, or the announcements do.
LEMMA WatchdogMoves ==
    ASSUME IInv, TimerStart \/ TimerLeave \/ TimerEnd
    PROVE  IInv'
<1> USE DEF IInv
<1>1. /\ UNCHANGED <<place, chan, conns, handler, uNextSecureChannelId, user, events, uses>>
      /\ timer' \in {"idle", "checking", "notify"}
      /\ toCheck' = Listed \/ toCheck' = toCheck
    BY DEF TimerStart, TimerLeave, TimerEnd, objects
<1>2. Listed' = Listed /\ Listed \subseteq Channels
    BY <1>1 DEF Listed
<1>3. TypeOK'
    BY <1>1, <1>2 DEF TypeOK, events
<1>4. HandlerInv' /\ UserInv' /\ WatchInv' /\ ServingInv'
    BY <1>1, <1>2 DEF HandlerInv, UserInv, WatchInv, ServingInv
<1>5. RefCountExact' /\ HeldIsListed'
    BY <1>1, NobodyMoves
<1>6. LinkSound' /\ IdUnique' /\ NextIdFree'
    BY <1>1, <1>2 DEF LinkSound, IdUnique, NextIdFree
<1>7. ToldInv'
    BY <1>1 DEF ToldInv, Going, events
<1> QED BY <1>3, <1>4, <1>5, <1>6, <1>7

\* One channel that the watchdog looks at changes, or goes when nobody holds it;
\* its id and its connection stay as long as it is in the list.
LEMMA WatchdogChecks ==
    ASSUME IInv, NEW c \in Listed,
           UNCHANGED <<conns, handler, uNextSecureChannelId, timer, user, told, uses>>,
           toCheck' \subseteq toCheck \ {c}, timedOut' \subseteq timedOut \union {c},
           chan' \in [Channels -> Fields], place' \in [Channels -> Places],
           \A d \in Channels \ {c} : chan'[d] = chan[d] /\ place'[d] = place[d],
           \/ /\ place'[c] = "listed"
              /\ chan'[c].id = chan[c].id /\ chan'[c].conn = chan[c].conn
              /\ chan'[c].ref = chan[c].ref
              /\ chan[c].state = "Closed" => chan'[c].state = "Closed"
           \/ place'[c] = "free" /\ Holders(c) = {}
           \/ place'[c] = "removed" /\ Holders(c) = {} /\ chan[c].state # "Closed"
    PROVE  IInv'
<1> USE DEF IInv
<1>1. c \in Channels /\ place[c] = "listed"
    BY DEF Listed
<1>2. /\ Listed' \subseteq Listed /\ Listed \subseteq Channels
      /\ \A d \in Listed' : chan'[d].id = chan[d].id /\ chan'[d].conn = chan[d].conn
      /\ \A d \in Listed : d # c => d \in Listed'
    BY <1>1 DEF Listed
<1>3. TypeOK'
    BY <1>1 DEF TypeOK, Fields
<1>4. HandlerInv' /\ UserInv'
    BY DEF HandlerInv, UserInv
<1>5. WatchInv'
    BY <1>2 DEF WatchInv
<1>6. RefCountExact' /\ HeldIsListed'
    BY <1>1, NobodyMoves
<1>7. LinkSound' /\ IdUnique' /\ NextIdFree'
    BY <1>2 DEF LinkSound, IdUnique, NextIdFree
<1>8. ServingInv'
    <2>1. ASSUME handler.stage \in Serving
          PROVE  handler.ch \in Listed'
        <3>1. handler.stage \notin {"idle", "bad"}
            BY <2>1 DEF Serving
        <3>2. handler.ch \in Channels
            BY <3>1, HandlerHolds
        <3>3. Holders(handler.ch)' # {}
            BY DEF Holders
        <3> QED BY <1>6, <3>2, <3>3 DEF HeldIsListed, Listed
    <2>2. handler.stage = "issue" => handler.stage \in Serving
        BY DEF Serving
    <2> QED BY <1>2, <2>1, <2>2 DEF ServingInv
<1>9. ToldInv'
    <2> SUFFICES ASSUME NEW d \in Channels
                 PROVE  /\ told[d] <= 1
                        /\ place'[d] = "removed" => told[d] = 0
                        /\ place'[d] = "listed" /\ told[d] = 1 =>
                                chan'[d].state = "Closed" /\ Going(d)'
        BY DEF ToldInv
    <2>1. Going(d) /\ place'[d] = "listed" => Going(d)'
        BY <1>2 DEF Going, Listed
    <2>2. told[d] <= 1 /\ told[d] \in Nat
        BY DEF ToldInv, TypeOK
    <2>3. CASE d = c
        BY <1>1, <2>1, <2>2, <2>3 DEF ToldInv
    <2>4. CASE d # c
        BY <2>1, <2>2, <2>4 DEF ToldInv
    <2> QED BY <2>3, <2>4
<1> QED BY <1>3, <1>4, <1>5, <1>6, <1>7, <1>8, <1>9

LEMMA CheckKeeps ==
    ASSUME IInv, NEW c \in Channels, Check(c)
    PROVE  IInv'
<1> USE DEF IInv
<1>1. /\ c \in Listed /\ c \in toCheck /\ toCheck' = toCheck \ {c}
      /\ UNCHANGED <<conns, handler, uNextSecureChannelId, timer, user, told, uses>>
    BY DEF Check, WatchInv
<1>2. place[c] = "listed" /\ place \in [Channels -> Places] /\ chan \in [Channels -> Fields]
    BY <1>1 DEF Listed, TypeOK, Fields
<1>3. chan[c].ref = 0 => Holders(c) = {}
    BY <1>1, HeldIsUsed
<1>4. CASE CheckClosed(c)
    BY <1>1, <1>2, <1>3, <1>4, BlankFields, WatchdogChecks DEF CheckClosed, Places
<1>5. CASE CountDown(c)
    <2>1. /\ chan' \in [Channels -> Fields]
          /\ \A d \in Channels \ {c} : chan'[d] = chan[d]
          /\ chan'[c].id = chan[c].id /\ chan'[c].conn = chan[c].conn
          /\ chan'[c].ref = chan[c].ref /\ chan'[c].state = chan[c].state
        <3>1. LifeTicks \in Nat
            BY ManagerAssumption
        <3>2. CASE Opened(c) /\ chan[c].exp # 0
            <4>1. chan[c].exp \in 0 .. LifeTicks /\ chan[c].exp - 1 \in 0 .. LifeTicks
                BY <1>2, <3>1, <3>2 DEF Fields
            <4>2. chan' = [chan EXCEPT ![c].exp = @ - 1]
                BY <1>5, <3>2 DEF CountDown
            <4> QED BY <1>2, <4>1, <4>2 DEF Fields
        <3>3. CASE ~(Opened(c) /\ chan[c].exp # 0)
            <4>1. chan[c].ov # 0
                BY <1>5, <3>3 DEF CountDown, Expired
            <4>2. chan[c].ov - 1 \in Nat
                BY <1>2, <4>1 DEF Fields
            <4>3. chan' = [chan EXCEPT ![c].ov = @ - 1]
                BY <1>5, <3>3 DEF CountDown
            <4> QED BY <1>2, <4>2, <4>3 DEF Fields
        <3> QED BY <3>2, <3>3
    <2> QED BY <1>1, <1>2, <1>5, <2>1, WatchdogChecks DEF CountDown
<1>6. CASE CheckExpired(c) /\ (chan[c].state # "Closed" \/ Used(c))
    BY <1>1, <1>2, <1>3, <1>6, WatchdogChecks DEF CheckExpired, Used, Places
<1>7. CASE CheckExpiredInUse(c)
    <2>1. /\ chan' \in [Channels -> Fields]
          /\ \A d \in Channels \ {c} : chan'[d] = chan[d]
          /\ chan'[c].id = chan[c].id /\ chan'[c].conn = chan[c].conn
          /\ chan'[c].ref = chan[c].ref
          /\ chan[c].state = "Closed" => chan'[c].state = "Closed"
          /\ timedOut' \subseteq timedOut \union {c} /\ UNCHANGED place
        <3>1. CASE Opened(c)
            BY <1>2, <1>7, <3>1 DEF CheckExpiredInUse, Fields
        <3>2. CASE ~Opened(c)
            BY <1>2, <1>7, <3>2 DEF CheckExpiredInUse
        <3> QED BY <3>1, <3>2
    <2> QED BY <1>1, <1>2, <2>1, WatchdogChecks
<1> QED BY <1>4, <1>5, <1>6, <1>7 DEF Check

LEMMA NotifyKeeps ==
    ASSUME IInv, NEW c \in Channels, Notify(c)
    PROVE  IInv'
<1> USE DEF IInv
<1>1. /\ place[c] = "removed" /\ place' = [place EXCEPT ![c] = "free"]
      /\ told' = [told EXCEPT ![c] = @ + 1] /\ chan' = [chan EXCEPT ![c] = Blank]
      /\ UNCHANGED <<conns, handler, uNextSecureChannelId, watch, user, timedOut, uses>>
    BY DEF Notify
<1>2. /\ place' \in [Channels -> Places] /\ chan' \in [Channels -> Fields]
      /\ told' \in [Channels -> Nat]
      /\ \A d \in Channels : d # c => place'[d] = place[d] /\ chan'[d] = chan[d]
      /\ \A d \in Channels : told'[d] = IF d = c THEN told[d] + 1 ELSE told[d]
      /\ place'[c] = "free"
    BY <1>1, BlankFields DEF TypeOK, Fields, Places
<1>3. /\ Listed' = Listed /\ Listed \subseteq Channels /\ c \notin Listed
      /\ \A d \in Listed : chan'[d] = chan[d]
    BY <1>1, <1>2 DEF Listed
<1>4. TypeOK'
    BY <1>1, <1>2 DEF TypeOK, Fields, watch
<1>5. HandlerInv' /\ UserInv' /\ WatchInv'
    BY <1>1, <1>3 DEF HandlerInv, UserInv, WatchInv, watch
<1>6. RefCountExact' /\ HeldIsListed'
    BY <1>1, <1>2, NobodyMoves
<1>7. LinkSound' /\ IdUnique' /\ NextIdFree'
    BY <1>1, <1>3 DEF LinkSound, IdUnique, NextIdFree
<1>8. ServingInv'
    <2>1. handler.stage \in Serving => handler.ch \in Listed
        BY HandlerHolds DEF Serving
    <2>2. handler.stage = "issue" => handler.stage \in Serving
        BY DEF Serving
    <2> QED BY <1>1, <1>3, <2>1, <2>2 DEF ServingInv
<1>9. ToldInv'
    BY <1>1, <1>2 DEF ToldInv, Going, TypeOK
<1> QED BY <1>4, <1>5, <1>6, <1>7, <1>8, <1>9

-----------------------------------------------------------------------------
(* The theorems.                                                            *)

LEMMA InitInvariant == Init => IInv
<1> SUFFICES ASSUME Init
             PROVE  IInv
    OBVIOUS
<1>1. /\ \A c \in Channels : place[c] = "free" /\ chan[c] = Blank /\ told[c] = 0
      /\ handler = Idle /\ handler.stage = "idle" /\ handler.ch = None
      /\ Listed = {} /\ toCheck = {}
    BY DEF Init, Idle, Listed
<1>2. TypeOK
    <2>1. chan \in [Channels -> Fields]
        BY BlankFields DEF Init
    <2>2. uNextSecureChannelId \in Ids
        BY IdsThere DEF Init, Ids
    <2> QED BY <2>1, <2>2, ManagerAssumption DEF Init, TypeOK, Fields, Places, Stages, Idle
<1>3. HandlerInv /\ UserInv /\ WatchInv /\ ServingInv
    BY <1>1 DEF Init, HandlerInv, UserInv, WatchInv, ServingInv, Serving
<1>4. RefCountExact
    BY <1>1 DEF RefCountExact
<1>5. HeldIsListed
    BY <1>1, ManagerAssumption DEF Init, HeldIsListed, Holders
<1>6. LinkSound /\ IdUnique /\ NextIdFree /\ ToldInv
    BY <1>1 DEF LinkSound, IdUnique, NextIdFree, ToldInv
<1> QED BY <1>2, <1>3, <1>4, <1>5, <1>6 DEF IInv

LEMMA StepInvariant == IInv /\ [Next]_vars => IInv'
<1> SUFFICES ASSUME IInv, [Next]_vars
             PROVE  IInv'
    OBVIOUS
<1>1. CASE UNCHANGED vars
    <2> USE DEF IInv, vars, objects, events, watch
    <2>1. Listed' = Listed /\ TypeOK' /\ HandlerInv' /\ UserInv'
        BY <1>1 DEF Listed, TypeOK, HandlerInv, UserInv
    <2>2. WatchInv' /\ ServingInv' /\ LinkSound' /\ IdUnique' /\ NextIdFree'
        BY <1>1, <2>1 DEF WatchInv, ServingInv, LinkSound, IdUnique, NextIdFree
    <2>3. RefCountExact' /\ HeldIsListed'
        BY <1>1, NobodyMoves
    <2>4. ToldInv'
        BY <1>1 DEF ToldInv, Going
    <2> QED BY <2>1, <2>2, <2>3, <2>4
<1>2. ASSUME NEW k \in Connections, Event(k)
      PROVE  IInv'
    <2>1. CASE \E c \in Channels : ChannelOpened(k, c)
        BY <2>1, ChannelOpenedKeeps
    <2>2. CASE IssueRequest(k) \/ UnknownRequest(k) \/ LostWithoutChannel(k)
        BY <2>2, IssueRequestKeeps, UnknownRequestKeeps, LostWithoutChannelKeeps
    <2>3. CASE \E i \in Ids, stage \in {"renew", "call", "close"} : RequestFor(k, i, stage)
        BY <2>3, RequestForKeeps
    <2>4. CASE EventOn(k, "abort") \/ EventOn(k, "lost") \/ EventOn(k, "release")
        BY <2>4, EventOnKeeps
    <2> QED BY <1>2, <2>1, <2>2, <2>3, <2>4 DEF Event
<1>3. CASE Handle
    BY <1>3, RequestEndsKeeps, SetSecureChannelIDKeeps, OpenOrRenewKeeps, BeginSendResponseKeeps,
       BeginSendRefusedKeeps, BeginInvokeKeeps, CloseRequestKeeps, HandlerReleaseKeeps,
       BadRequestKeeps, BadRequestClosesKeeps, UnlinkKeeps, ExpireNowKeeps
    DEF Handle
<1>4. CASE Watchdog
    BY <1>4, WatchdogMoves, CheckKeeps, NotifyKeeps DEF Watchdog
<1>5. ASSUME NEW u \in Users, Finish(u) \/ \E i \in Ids : LookUp(u, i)
      PROVE  IInv'
    BY <1>5, FinishKeeps, LookUpKeeps
<1> QED BY <1>1, <1>2, <1>3, <1>4, <1>5 DEF Next

\* The channels, who holds them, their connections, ids and announcements are
\* always as IInv says (opcua_securelistener_channelmanager.c).
THEOREM ManagerInvariant == Spec => []IInv
BY InitInvariant, StepInvariant, PTL DEF Spec

\* uRefCount of a channel is the number of those who hold it, for any number of
\* channels and users (GetChannelBy..., ReleaseChannel).
THEOREM RefCountsExact == Spec => []RefCountExact
<1>1. IInv => RefCountExact
    BY DEF IInv
<1> QED BY <1>1, ManagerInvariant, PTL

\* Nobody holds a channel that TimerCallback took out of the list or deleted.
THEOREM HeldAreListed == Spec => []HeldIsListed
<1>1. IInv => HeldIsListed
    BY DEF IInv
<1> QED BY <1>1, ManagerInvariant, PTL

\* A connection has one channel at most, and a channel no connection that was
\* closed, although the handles of connections come back.
THEOREM LinksSound == Spec => []LinkSound
<1>1. IInv => LinkSound
    BY DEF IInv
<1> QED BY <1>1, ManagerInvariant, PTL

\* Channel ids in use stay distinct when the counter wraps around, as long as
\* there are more ids than channels (IsValidChannelID).
THEOREM IdsUnique == Spec => []IdUnique
<1>1. IInv => IdUnique
    BY DEF IInv
<1> QED BY <1>1, ManagerInvariant, PTL

\* The application hears once at most of the end of a channel, whether the
\* client closes it or the watchdog, or both (CloseRequest, TimerCallback).
THEOREM EveryEndToldOnce == Spec => []ToldOnce
<1>1. IInv => ToldOnce
    BY DEF IInv, ToldInv, ToldOnce
<1> QED BY <1>1, ManagerInvariant, PTL

-----------------------------------------------------------------------------
(* The list, its counts and its watchdog as a registry: each step of the    *)
(* manager is a step of ChannelRegistry or not seen by it.                  *)

\* The channels of the list keep their ids and their connections.
SameFaces == \A c \in Listed : chan'[c].id = chan[c].id /\ chan'[c].conn = chan[c].conn

LEMMA FacesStay ==
    ASSUME UNCHANGED place, SameFaces
    PROVE  UNCHANGED <<Listed, Removed, Name, Link>>
<1>1. UNCHANGED <<Listed, Removed>>
    BY DEF Listed, Removed
<1>2. \A c \in Channels : place[c] = "listed" =>
        chan'[c].id = chan[c].id /\ chan'[c].conn = chan[c].conn
    BY DEF SameFaces, Listed
<1>3. Name' = Name
    BY <1>2 DEF Name
<1>4. Link' = Link
    BY <1>2 DEF Link
<1> QED BY <1>1, <1>3, <1>4

\* A count says nothing about names and connections.
LEMMA CountIsNoFace ==
    ASSUME SameButRef
    PROVE  SameFaces
BY DEF SameButRef, SameFaces, Listed

\* A step in which nobody takes or gives back anything is not seen.
LEMMA Unseen ==
    ASSUME UNCHANGED <<place, conns, told>>, SameFaces,
           handler'.ch = handler.ch, \A u \in Users : user'[u].ch = user[u].ch
    PROVE  UNCHANGED Registry!vars
<1>1. UNCHANGED <<Listed, Removed, Name, Link>>
    BY FacesStay
<1>2. Hold' = Hold
    BY ManagerAssumption DEF Hold
<1> QED BY <1>1, <1>2 DEF Registry!vars, Registry!channels

\* Whom the registry sees holding a channel.
LEMMA HeldIsHeld ==
    ASSUME NEW c \in Channels
    PROVE  Registry!Held(c) <=> Holders(c) # {}
<1>1. \A h \in Users \union {None} : Hold[h] = c <=> h \in Holders(c)
    BY ManagerAssumption DEF Hold, Holders
<1>2. Holders(c) \subseteq Users \union {None}
    BY DEF Holders
<1> QED BY <1>1, <1>2 DEF Registry!Held

\* The transport thread finds a channel.
LEMMA HandlerFinds ==
    ASSUME TypeOK, NEW c \in Listed, Acquire(c), handler.ch = None, handler'.ch = c,
           UNCHANGED <<place, conns, user, told>>
    PROVE  Registry!Next
<1>1. c \in Channels
    BY DEF Listed
<1>2. UNCHANGED <<Listed, Removed, Name, Link>>
    BY <1>1, AcquireOnce, CountIsNoFace, FacesStay
<1>3. Hold[None] = None
    BY DEF Hold
<1>4. Hold' = [Hold EXCEPT ![None] = c]
    BY ManagerAssumption DEF Hold
<1>5. Registry!Find(None, c)
    BY <1>2, <1>3, <1>4 DEF Registry!Find, Registry!channels
<1> QED BY <1>1, <1>5 DEF Registry!Next

\* A user finds a channel.
LEMMA UserFinds ==
    ASSUME TypeOK, NEW u \in Users, NEW c \in Listed, Acquire(c), user[u].ch = None,
           user'[u].ch = c, \A v \in Users \ {u} : user'[v] = user[v],
           handler'.ch = handler.ch, UNCHANGED <<place, conns, told>>
    PROVE  Registry!Next
<1>1. c \in Channels
    BY DEF Listed
<1>2. UNCHANGED <<Listed, Removed, Name, Link>>
    BY <1>1, AcquireOnce, CountIsNoFace, FacesStay
<1>3. u # None
    BY ManagerAssumption
<1>4. Hold[u] = None
    BY <1>3 DEF Hold
<1>5. Hold' = [Hold EXCEPT ![u] = c]
    BY <1>3 DEF Hold
<1>6. Registry!Find(u, c)
    BY <1>2, <1>4, <1>5 DEF Registry!Find, Registry!channels
<1> QED BY <1>1, <1>6 DEF Registry!Next

\* A user gives its channel back.
LEMMA UserReleases ==
    ASSUME TypeOK, NEW u \in Users, user[u].ch \in Channels, Release(user[u].ch),
           user'[u].ch = None, \A v \in Users \ {u} : user'[v] = user[v],
           handler'.ch = handler.ch, UNCHANGED <<place, conns, told>>
    PROVE  Registry!Next
<1>1. UNCHANGED <<Listed, Removed, Name, Link>>
    BY ReleaseOnce, CountIsNoFace, FacesStay
<1>2. u # None /\ user[u].ch # None
    BY ManagerAssumption
<1>3. Hold[u] # None
    BY <1>2 DEF Hold
<1>4. Hold' = [Hold EXCEPT ![u] = None]
    BY <1>2 DEF Hold
<1>5. Registry!Release(u)
    BY <1>1, <1>3, <1>4 DEF Registry!Release, Registry!channels
<1> QED BY <1>5 DEF Registry!Next

-----------------------------------------------------------------------------
(* Events of the transport.                                                 *)

LEMMA ChannelOpenedIsOpen ==
    ASSUME IInv, NEW k \in Connections, NEW c \in Channels, ChannelOpened(k, c)
    PROVE  Registry!Next
<1>1. /\ k \notin conns /\ place[c] = "free" /\ conns' = conns \union {k}
      /\ place' = [place EXCEPT ![c] = "listed"]
      /\ chan' = [chan EXCEPT ![c] = [Blank EXCEPT !.conn = k, !.ov = HelloTicks]]
      /\ told' = [told EXCEPT ![c] = 0] /\ UNCHANGED <<handler, user>>
    BY DEF ChannelOpened
<1>2. place \in [Channels -> Places] /\ DOMAIN chan = Channels
    BY DEF IInv, TypeOK
<1>3. c \notin Listed \union Removed /\ Listed' = Listed \union {c} /\ Removed' = Removed
    BY <1>1, <1>2 DEF Listed, Removed
<1>4. chan'[c].id = 0 /\ chan'[c].conn = k /\ \A d \in Channels \ {c} : chan'[d] = chan[d]
    BY <1>1, <1>2 DEF Blank
<1>5. Name' = Name
    BY <1>1, <1>2, <1>4 DEF Name
<1>6. Link' = [Link EXCEPT ![c] = k]
    BY <1>1, <1>2, <1>4 DEF Link
<1>7. Hold' = Hold
    BY <1>1 DEF Hold
<1>8. Registry!Open(k, c)
    BY <1>1, <1>3, <1>5, <1>6, <1>7 DEF Registry!Open
<1> QED BY <1>8 DEF Registry!Next

LEMMA EventOnIsFind ==
    ASSUME IInv, NEW k \in Connections, NEW stage, EventOn(k, stage)
    PROVE  Registry!Next
<1>1. PICK c \in ByConnection(k) :
        /\ Acquire(c)
        /\ handler' = [stage |-> stage, conn |-> k, ch |-> c, isClose |-> FALSE]
    BY DEF EventOn
<1>2. c \in Listed /\ handler.ch = None /\ handler'.ch = c
    BY <1>1 DEF ByConnection, EventOn, Idle
<1>3. UNCHANGED <<place, conns, user, told>>
    BY DEF EventOn, events
<1> QED BY <1>1, <1>2, <1>3, HandlerFinds DEF IInv

LEMMA RequestIsFindOrUnseen ==
    ASSUME IInv, NEW k \in Connections,
           \/ IssueRequest(k) \/ UnknownRequest(k)
           \/ \E i \in Ids, stage \in {"renew", "call", "close"} : RequestFor(k, i, stage)
    PROVE  [Registry!Next]_(Registry!vars)
<1>1. CASE UnknownRequest(k)
    <2>1. UNCHANGED <<place, chan, conns, told, user>> /\ handler'.ch = handler.ch
        BY <1>1 DEF UnknownRequest, objects, events, Idle
    <2> QED BY <2>1, Unseen DEF SameFaces
<1>2. CASE IssueRequest(k)
    <2>1. CASE EventOn(k, IF \E c \in ByConnection(k) : chan[c].id # 0
                          THEN "releaseBad" ELSE "issue")
        BY <2>1, EventOnIsFind
    <2>2. CASE ~EventOn(k, IF \E c \in ByConnection(k) : chan[c].id # 0
                           THEN "releaseBad" ELSE "issue")
        <3>1. UNCHANGED <<place, chan, conns, told, user>> /\ handler'.ch = handler.ch
            BY <1>2, <2>2 DEF IssueRequest, objects, events, Idle
        <3> QED BY <3>1, Unseen DEF SameFaces
    <2> QED BY <2>1, <2>2
<1>3. ASSUME NEW i \in Ids, NEW stage \in {"renew", "call", "close"}, RequestFor(k, i, stage)
      PROVE  [Registry!Next]_(Registry!vars)
    <2>1. handler.ch = None /\ UNCHANGED <<place, conns, user, told>>
        BY <1>3 DEF RequestFor, Idle, events
    <2>2. ASSUME NEW c \in ById(i), Acquire(c), handler'.ch = c
          PROVE  Registry!Next
        BY <2>1, <2>2, HandlerFinds DEF ById, IInv
    <2>3. CASE UNCHANGED chan /\ handler'.ch = None
        BY <2>1, <2>3, Unseen DEF SameFaces
    <2> QED BY <1>3, <2>2, <2>3 DEF RequestFor
<1> QED BY <1>1, <1>2, <1>3

\* The connections no channel is linked to.
LEMMA UnlinkedOnes ==
    ASSUME NEW k, \A c \in Listed : chan[c].conn # k
    PROVE  \A c \in Listed : Link[c] # k
BY DEF Link, Listed

LEMMA LostWithoutChannelIsLose ==
    ASSUME IInv, NEW k \in Connections, LostWithoutChannel(k)
    PROVE  Registry!Next
<1>1. k \in conns /\ conns' = conns \ {k} /\ UNCHANGED <<place, chan, handler, user, told>>
    BY DEF LostWithoutChannel, objects, events
<1>2. \A c \in Listed : chan[c].conn # k
    BY DEF LostWithoutChannel, ByConnection
<1>3. Registry!Drop
    BY <1>1, <1>2, UnlinkedOnes DEF Registry!Drop, Registry!Unlinked
<1>4. UNCHANGED <<Listed, Removed, Name, Link>>
    BY <1>1, FacesStay DEF SameFaces
<1>5. Hold' = Hold
    BY <1>1 DEF Hold
<1>6. Registry!Lose
    BY <1>1, <1>3, <1>4, <1>5 DEF Registry!Lose, Registry!channels
<1> QED BY <1>6 DEF Registry!Next

-----------------------------------------------------------------------------
(* What the transport thread does with the channel it holds.                *)

\* It holds the channel for the registry, too.
LEMMA HandlerHeld ==
    ASSUME IInv, handler.stage \notin {"idle", "bad"}
    PROVE  handler.ch \in Listed /\ Registry!Held(handler.ch)
<1>1. handler.ch \in Channels /\ handler.ch \in Listed
    BY HandlerHolds
<1>2. Holders(handler.ch) # {}
    BY DEF Holders
<1> QED BY <1>1, <1>2, HeldIsHeld

\* What it only notes in a channel, or in its own state.
LEMMA HandlerUnseen ==
    ASSUME IInv,
           \/ RequestPartial \/ RequestFails \/ OpenOrRenew \/ BadRequestCloses \/ ExpireNow
           \/ \E u \in Users : BeginInvoke(u)
    PROVE  UNCHANGED Registry!vars
<1>1. chan \in [Channels -> Fields] /\ DOMAIN handler = {"stage", "conn", "ch", "isClose"}
    BY DEF IInv, TypeOK, Fields
<1>2. CASE RequestPartial \/ RequestFails
    <2>1. UNCHANGED <<place, chan, conns, told, user>> /\ handler'.ch = handler.ch
        BY <1>1, <1>2 DEF RequestPartial, RequestFails, Goto, objects, events
    <2> QED BY <2>1, Unseen DEF SameFaces
<1>3. CASE OpenOrRenew
    <2>1. UNCHANGED <<place, conns, told, user>> /\ handler'.ch = handler.ch
        BY <1>1, <1>3 DEF OpenOrRenew, Goto
    <2>2. SameFaces
        BY <1>1, <1>3 DEF OpenOrRenew, SameFaces, Listed, Fields
    <2> QED BY <2>1, <2>2, Unseen
<1>4. CASE BadRequestCloses \/ ExpireNow
    <2>1. UNCHANGED <<place, conns, told, user>> /\ handler'.ch = handler.ch
        BY <1>1, <1>4 DEF BadRequestCloses, ExpireNow, Goto, events
    <2>2. SameFaces
        BY <1>1, <1>4 DEF BadRequestCloses, ExpireNow, SameFaces, Listed, Fields
    <2> QED BY <2>1, <2>2, Unseen
<1>5. ASSUME NEW u \in Users, BeginInvoke(u)
      PROVE  UNCHANGED Registry!vars
    <2>1. UNCHANGED <<place, chan, conns, told>> /\ handler'.ch = handler.ch
        BY <1>1, <1>5 DEF BeginInvoke, Goto, objects, events
    <2>2. \A v \in Users : user'[v].ch = user[v].ch
        BY <1>5 DEF BeginInvoke, IInv, TypeOK
    <2> QED BY <2>1, <2>2, Unseen DEF SameFaces
<1> QED BY <1>2, <1>3, <1>4, <1>5

LEMMA SetSecureChannelIDIsIdentify ==
    ASSUME IInv, SetSecureChannelID
    PROVE  Registry!Next
<1> DEFINE h == handler.ch
           i == uNextSecureChannelId
<1>1. /\ handler.stage = "issue" /\ handler'.ch = h
      /\ chan' = [chan EXCEPT ![h].id = i] /\ UNCHANGED <<place, conns, told, user>>
    BY DEF SetSecureChannelID, Goto, IInv, TypeOK, events
<1>2. h \in Channels /\ h \in Listed /\ Registry!Held(h) /\ chan[h].id = 0 /\ i \in Ids
    BY <1>1, HandlerHolds, HandlerHeld DEF IInv, ServingInv, TypeOK
<1>3. /\ chan \in [Channels -> Fields]
      /\ \A d \in Channels :
            /\ chan'[d].id = IF d = h THEN i ELSE chan[d].id
            /\ chan'[d].conn = chan[d].conn
    BY <1>1, <1>2 DEF IInv, TypeOK, Fields
<1>4. place[h] = "listed" /\ UNCHANGED <<Listed, Removed>>
    BY <1>1, <1>2 DEF Listed, Removed
<1>5. Name[h] = 0 /\ \A d \in Listed : Name[d] # i
    BY <1>2, <1>4 DEF Name, IInv, NextIdFree, Listed
<1>6. Name' = [Name EXCEPT ![h] = i]
    BY <1>1, <1>2, <1>3, <1>4 DEF Name
<1>7. Link' = Link
    BY <1>1, <1>3 DEF Link
<1>8. Hold' = Hold
    BY <1>1 DEF Hold
<1> HIDE DEF h, i
<1>9. Registry!Identify(h, i)
    BY <1>1, <1>2, <1>4, <1>5, <1>6, <1>7, <1>8 DEF Registry!Identify
<1> QED BY <1>2, <1>9 DEF Registry!Next

LEMMA CloseRequestIsAnnounce ==
    ASSUME IInv, CloseRequest
    PROVE  Registry!Next
<1> DEFINE h == handler.ch
<1>1. /\ handler.stage = "close" /\ handler'.ch = h
      /\ told' = [told EXCEPT ![h] = @ + 1]
      /\ chan' = [chan EXCEPT ![h].state = "Closed"]
      /\ UNCHANGED <<place, conns, user>>
    BY DEF CloseRequest, Goto, IInv, TypeOK
<1>2. /\ h \in Channels /\ h \in Listed /\ Registry!Held(h)
      /\ handler.conn \in Connections /\ chan[h].conn = handler.conn
    BY <1>1, HandlerHolds, HandlerHeld DEF IInv, ServingInv, Serving
<1>3. told[h] = 0
    <2>1. told[h] # 1 /\ told[h] <= 1 /\ told[h] \in Nat
        BY <1>1, <1>2, ManagerAssumption DEF IInv, ToldInv, Going, Listed, TypeOK
    <2> QED BY <2>1
<1>4. told' = [told EXCEPT ![h] = 1]
    BY <1>1, <1>2, <1>3
<1>5. UNCHANGED <<Listed, Removed, Name, Link>>
    <2>1. SameFaces
        BY <1>1, <1>2 DEF SameFaces, Listed, IInv, TypeOK
    <2> QED BY <1>1, <2>1, FacesStay
<1>6. Hold' = Hold
    BY <1>1 DEF Hold
<1> HIDE DEF h
<1>7. Registry!Announce(h)
    BY <1>1, <1>2, <1>3, <1>4, <1>5, <1>6 DEF Registry!Announce, Registry!channels
<1> QED BY <1>2, <1>7 DEF Registry!Next

LEMMA HandlerReleaseIsRelease ==
    ASSUME IInv, HandlerRelease
    PROVE  Registry!Next
<1> DEFINE h == handler.ch
<1>1. /\ handler.stage \in {"release", "releaseBad", "done"}
      /\ Release(h) /\ UNCHANGED <<place, user, told>>
      /\ conns' = IF handler.stage = "done" THEN conns \ {handler.conn} ELSE conns
    BY DEF HandlerRelease, events
<1>2. handler'.ch = None
    BY DEF HandlerRelease, Idle, IInv, TypeOK
<1>3. h \in Channels /\ h # None
    BY <1>1, HandlerHolds, ManagerAssumption
<1>4. UNCHANGED <<Listed, Removed, Name, Link>>
    BY <1>1, <1>3, ReleaseOnce, CountIsNoFace, FacesStay DEF IInv
<1>5. Hold[None] # None
    BY <1>3 DEF Hold
<1>6. Hold' = [Hold EXCEPT ![None] = None]
    BY <1>1, <1>2, ManagerAssumption DEF Hold
<1>7. Registry!Drop \/ UNCHANGED conns
    <2>1. CASE handler.stage = "done" /\ handler.conn \in conns
        <3>1. \A c \in Listed : chan[c].conn # handler.conn
            BY <2>1 DEF IInv, ServingInv
        <3>2. handler.conn \in Registry!Unlinked
            BY <2>1, <3>1, UnlinkedOnes DEF Registry!Unlinked
        <3> QED BY <1>1, <2>1, <3>2 DEF Registry!Drop
    <2>2. CASE ~(handler.stage = "done" /\ handler.conn \in conns)
        BY <1>1, <2>2
    <2> QED BY <2>1, <2>2
<1>8. Registry!Release(None)
    BY <1>1, <1>4, <1>5, <1>6, <1>7 DEF Registry!Release, Registry!channels
<1> QED BY <1>8 DEF Registry!Next

LEMMA BadRequestIsFindOrUnseen ==
    ASSUME IInv, BadRequest
    PROVE  [Registry!Next]_(Registry!vars)
<1>1. handler.ch = None /\ UNCHANGED <<place, conns, user, told>>
    BY DEF BadRequest, events, IInv, HandlerInv
<1>2. ASSUME NEW c \in ByConnection(handler.conn), Acquire(c), handler'.ch = c
      PROVE  Registry!Next
    BY <1>1, <1>2, HandlerFinds DEF ByConnection, IInv
<1>3. CASE handler' = Idle /\ UNCHANGED chan
    BY <1>1, <1>3, Unseen DEF Idle, SameFaces
<1> QED BY <1>2, <1>3 DEF BadRequest, IInv, TypeOK

LEMMA UnlinkIsUnlink ==
    ASSUME IInv, Unlink
    PROVE  Registry!Next
<1> DEFINE h == handler.ch
<1>1. /\ handler.stage \in {"unlink", "abort", "lost"} /\ handler'.ch = h
      /\ chan' = [chan EXCEPT ![h].conn = None]
      /\ conns' = IF handler.stage = "lost" THEN conns ELSE conns \ {handler.conn}
      /\ UNCHANGED <<place, user, told>>
    BY DEF Unlink, Goto, IInv, TypeOK, events
<1>2. /\ h \in Channels /\ h \in Listed /\ Registry!Held(h)
      /\ handler.conn \in Connections /\ chan[h].conn = handler.conn
    BY <1>1, HandlerHolds, HandlerHeld DEF IInv, ServingInv, Serving
<1>3. /\ chan \in [Channels -> Fields]
      /\ \A d \in Channels :
            /\ chan'[d].id = chan[d].id
            /\ chan'[d].conn = IF d = h THEN None ELSE chan[d].conn
    BY <1>1, <1>2 DEF IInv, TypeOK, Fields
<1>4. place[h] = "listed" /\ UNCHANGED <<Listed, Removed>>
    BY <1>1, <1>2 DEF Listed, Removed
<1>5. Link[h] = handler.conn /\ Link[h] # None
    BY <1>2, <1>4, ManagerAssumption DEF Link
<1>6. Link' = [Link EXCEPT ![h] = None]
    BY <1>1, <1>2, <1>3, <1>4 DEF Link
<1>7. Name' = Name
    BY <1>1, <1>3 DEF Name
<1>8. Hold' = Hold
    BY <1>1 DEF Hold
<1>9. conns' \in {conns, conns \ {Link[h]}}
    BY <1>1, <1>5
<1> HIDE DEF h
<1>10. Registry!Unlink(h)
    BY <1>1, <1>2, <1>4, <1>5, <1>6, <1>7, <1>8, <1>9 DEF Registry!Unlink
<1> QED BY <1>2, <1>10 DEF Registry!Next

-----------------------------------------------------------------------------
(* The users.                                                               *)

LEMMA UserStepIsSeen ==
    ASSUME IInv, NEW u \in Users,
           \/ BeginSendResponse(u) \/ BeginSendRefused(u)
           \/ Finish(u) \/ \E i \in Ids : LookUp(u, i)
    PROVE  Registry!Next
<1>1. /\ UserInv /\ user[u].ch \in Channels \union {None}
      /\ TypeOK /\ DOMAIN user = Users
      /\ DOMAIN handler = {"stage", "conn", "ch", "isClose"}
    BY DEF IInv, TypeOK
<1>2. CASE BeginSendResponse(u)
    <2>1. PICK c \in ById(chan[handler.ch].id) :
            Acquire(c) /\ user' = [user EXCEPT ![u] = [op |-> "begun", ch |-> c]]
        BY <1>2 DEF BeginSendResponse
    <2>2. c \in Listed /\ user'[u].ch = c /\ \A v \in Users \ {u} : user'[v] = user[v]
        BY <1>1, <2>1 DEF ById
    <2>3. /\ user[u].ch = None /\ handler'.ch = handler.ch
          /\ UNCHANGED <<place, conns, told>>
        BY <1>1, <1>2 DEF BeginSendResponse, UserInv, Goto, events
    <2> QED BY <1>1, <2>1, <2>2, <2>3, UserFinds
<1>3. ASSUME NEW i \in Ids, LookUp(u, i)
      PROVE  Registry!Next
    <2>1. PICK c \in ById(i) :
            Acquire(c) /\ user' = [user EXCEPT ![u] = [op |-> "lookup", ch |-> c]]
        BY <1>3 DEF LookUp
    <2>2. c \in Listed /\ user'[u].ch = c /\ \A v \in Users \ {u} : user'[v] = user[v]
        BY <1>1, <2>1 DEF ById
    <2>3. /\ user[u].ch = None /\ handler'.ch = handler.ch
          /\ UNCHANGED <<place, conns, told>>
        BY <1>1, <1>3 DEF LookUp, UserInv, events
    <2> QED BY <1>1, <2>1, <2>2, <2>3, UserFinds
<1>4. CASE BeginSendRefused(u) \/ Finish(u)
    <2>1. /\ Release(user[u].ch) /\ user[u].op # "idle"
          /\ user' = [user EXCEPT ![u] = [op |-> "idle", ch |-> None]]
          /\ handler'.ch = handler.ch /\ UNCHANGED <<place, conns, told>>
        BY <1>1, <1>4 DEF BeginSendRefused, Finish, Goto, events
    <2>2. user[u].ch \in Channels
        BY <1>1, <2>1 DEF UserInv
    <2>3. user'[u].ch = None /\ \A v \in Users \ {u} : user'[v] = user[v]
        BY <1>1, <2>1
    <2> QED BY <1>1, <2>1, <2>2, <2>3, UserReleases
<1> QED BY <1>2, <1>3, <1>4

-----------------------------------------------------------------------------
(* The watchdog.                                                            *)

\* A channel nobody holds goes out of the list, to nowhere or to be announced.
LEMMA CheckIsRemove ==
    ASSUME IInv, NEW c \in Listed, chan[c].ref = 0, UNCHANGED <<conns, handler, user, told>>,
           \A d \in Listed \ {c} : chan'[d].id = chan[d].id /\ chan'[d].conn = chan[d].conn,
           \/ place' = [place EXCEPT ![c] = "free"]
           \/ place' = [place EXCEPT ![c] = "removed"] /\ told[c] = 0
    PROVE  Registry!Next
<1>1. c \in Channels /\ place[c] = "listed" /\ place \in [Channels -> Places]
    BY DEF Listed, IInv, TypeOK
<1>2. ~Registry!Held(c)
    BY <1>1, HeldIsUsed, HeldIsHeld DEF IInv
<1>3. /\ place'[c] # "listed" /\ \A d \in Channels \ {c} : place'[d] = place[d]
      /\ place'[c] = "removed" => told[c] = 0
    BY <1>1
<1>4. Listed' = Listed \ {c}
    BY <1>1, <1>3 DEF Listed
<1>5. Removed' = Removed \/ (told[c] = 0 /\ Removed' = Removed \union {c})
    <2>1. CASE place'[c] = "removed"
        BY <1>1, <1>3, <2>1 DEF Removed
    <2>2. CASE place'[c] # "removed"
        BY <1>1, <1>3, <2>2 DEF Removed
    <2> QED BY <2>1, <2>2
<1>6. \A d \in Channels \ {c} : place[d] = "listed" =>
        chan'[d].id = chan[d].id /\ chan'[d].conn = chan[d].conn
    BY DEF Listed
<1>7. Name' = [Name EXCEPT ![c] = 0]
    BY <1>1, <1>3, <1>6 DEF Name
<1>8. Link' = [Link EXCEPT ![c] = None]
    BY <1>1, <1>3, <1>6 DEF Link
<1>9. Hold' = Hold
    BY DEF Hold
<1>10. Registry!Remove(c)
    BY <1>2, <1>4, <1>5, <1>7, <1>8, <1>9 DEF Registry!Remove
<1> QED BY <1>1, <1>10 DEF Registry!Next

LEMMA CheckIsRemoveOrUnseen ==
    ASSUME IInv, NEW c \in Channels, Check(c)
    PROVE  [Registry!Next]_(Registry!vars)
<1>1. c \in Listed /\ UNCHANGED <<conns, handler, user, told>>
    BY DEF Check, IInv, WatchInv
<1>2. chan \in [Channels -> Fields] /\ place[c] = "listed"
    BY <1>1 DEF IInv, TypeOK, Fields, Listed
<1>3. CASE CheckClosed(c)
    <2>1. \A d \in Listed \ {c} : chan'[d] = chan[d]
        BY <1>2, <1>3 DEF CheckClosed, Listed
    <2> QED BY <1>1, <1>3, <2>1, CheckIsRemove DEF CheckClosed
<1>4. CASE CountDown(c)
    <2>1. SameFaces
        BY <1>2, <1>4 DEF CountDown, SameFaces, Listed, Fields
    <2> QED BY <1>1, <1>4, <2>1, Unseen DEF CountDown
<1>5. CASE CheckExpired(c) /\ (chan[c].state # "Closed" \/ Used(c))
    <2>1. told[c] = 0
        <3>1. told[c] # 1 /\ told[c] <= 1 /\ told[c] \in Nat
            BY <1>2, <1>5 DEF CheckExpired, IInv, ToldInv, TypeOK
        <3> QED BY <3>1
    <2> QED BY <1>1, <1>5, <2>1, CheckIsRemove DEF CheckExpired, Used
<1>6. CASE CheckExpiredInUse(c)
    <2>1. SameFaces
        BY <1>2, <1>6 DEF CheckExpiredInUse, SameFaces, Listed, Fields
    <2> QED BY <1>1, <1>6, <2>1, Unseen DEF CheckExpiredInUse
<1> QED BY <1>3, <1>4, <1>5, <1>6 DEF Check

LEMMA NotifyIsLeave ==
    ASSUME IInv, NEW c \in Channels, Notify(c)
    PROVE  Registry!Next
<1>1. /\ place[c] = "removed" /\ place' = [place EXCEPT ![c] = "free"]
      /\ told' = [told EXCEPT ![c] = @ + 1] /\ chan' = [chan EXCEPT ![c] = Blank]
      /\ UNCHANGED <<conns, handler, user>>
    BY DEF Notify
<1>2. told[c] = 0 /\ place \in [Channels -> Places] /\ DOMAIN chan = Channels
    BY <1>1 DEF IInv, ToldInv, TypeOK
<1>3. told' = [told EXCEPT ![c] = 1]
    BY <1>1, <1>2
<1>4. Listed' = Listed /\ Removed' = Removed \ {c} /\ c \in Removed
    BY <1>1, <1>2 DEF Listed, Removed
<1>5. Name' = Name
    BY <1>1, <1>2 DEF Name
<1>6. Link' = Link
    BY <1>1, <1>2 DEF Link
<1>7. Hold' = Hold
    BY <1>1 DEF Hold
<1>8. Registry!Leave(c)
    BY <1>1, <1>2, <1>3, <1>4, <1>5, <1>6, <1>7 DEF Registry!Leave
<1> QED BY <1>8 DEF Registry!Next

-----------------------------------------------------------------------------
(* All of them.                                                             *)

LEMMA InitIsRegistry == Init => Registry!Init
<1> SUFFICES ASSUME Init
             PROVE  Registry!Init
    OBVIOUS
<1>1. Listed = {} /\ Removed = {}
    BY DEF Init, Listed, Removed
<1>2. Name = [c \in Channels |-> 0] /\ Link = [c \in Channels |-> None]
    BY DEF Init, Name, Link
<1>3. Hold = [h \in Users \union {None} |-> None]
    BY DEF Init, Idle, Hold
<1> QED BY <1>1, <1>2, <1>3 DEF Init, Registry!Init

LEMMA StepIsRegistry == IInv /\ [Next]_vars => [Registry!Next]_(Registry!vars)
<1> SUFFICES ASSUME IInv, [Next]_vars
             PROVE  [Registry!Next]_(Registry!vars)
    OBVIOUS
<1>1. CASE UNCHANGED vars
    BY <1>1, Unseen DEF vars, objects, events, SameFaces
<1>2. ASSUME NEW k \in Connections, Event(k)
      PROVE  [Registry!Next]_(Registry!vars)
    BY <1>2, ChannelOpenedIsOpen, EventOnIsFind, RequestIsFindOrUnseen,
       LostWithoutChannelIsLose DEF Event
<1>3. CASE Handle
    BY <1>3, HandlerUnseen, SetSecureChannelIDIsIdentify, UserStepIsSeen,
       CloseRequestIsAnnounce, HandlerReleaseIsRelease, BadRequestIsFindOrUnseen,
       UnlinkIsUnlink DEF Handle
<1>4. CASE Watchdog
    <2>1. CASE TimerStart \/ TimerLeave \/ TimerEnd
        <3>1. UNCHANGED <<place, chan, conns, handler, user, told>>
            BY <2>1 DEF TimerStart, TimerLeave, TimerEnd, objects, events
        <3> QED BY <3>1, Unseen DEF SameFaces
    <2> QED BY <1>4, <2>1, CheckIsRemoveOrUnseen, NotifyIsLeave DEF Watchdog
<1>5. ASSUME NEW u \in Users, Finish(u) \/ \E i \in Ids : LookUp(u, i)
      PROVE  [Registry!Next]_(Registry!vars)
    BY <1>5, UserStepIsSeen
<1> QED BY <1>1, <1>2, <1>3, <1>4, <1>5 DEF Next

\* The channel manager implements ChannelRegistry, for any number of channels,
\* connections and users: the counts, the ids that wrap around and the countdowns
\* of TimerCallback are a registry that knows its holders
\* (opcua_securelistener_channelmanager.c).
THEOREM RegistryImplemented == Spec => ImplementsRegistry
BY InitIsRegistry, StepIsRegistry, ManagerInvariant, PTL
DEF Spec, ImplementsRegistry, Registry!Spec
=============================================================================
