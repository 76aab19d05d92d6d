---------------------- MODULE BlockRangeHandler_proofs ----------------------
(***************************************************************************)
(* Proofs about the handlers of block streams, for every number of         *)
(* listeners and of messages and for every capacity of the channels.       *)
(*                                                                         *)
(* The inductive invariant follows the messages of one listener through    *)
(* its two tasks.  Read from the listener to the broadcast channel - what  *)
(* it knows of, the fetches in flight, the queue, what the forwarder has   *)
(* in hand, what it receives next - each place goes on right where the one *)
(* before it ends (Flow).  A step moves one item from a place to the next  *)
(* one, so that the chain is never broken; a forwarder that is done has    *)
(* emptied the channel (Drained); and who may end first is what Roles      *)
(* says.                                                                   *)
(***************************************************************************)
EXTENDS BlockRangeHandler, SequenceTheorems, TLAPS

\* A sequence of items that goes on where `a` ends, without a gap or an overlap.
Linked(s, a) ==
    \A i \in 1 .. Len(s) : s[i].from = 1 + IF i = 1 THEN a ELSE s[i - 1].to

\* The last message of such a sequence.
EndOf(s, a) == IF s = << >> THEN a ELSE s[Len(s)].to

\* The messages of the fetches f, and those in flight for a listener.
ItemsOf(f) == [i \in DOMAIN f |-> f[i].item]

InFetch(h, l) == ItemsOf(fetching[h][l])

EndOfFetching(h, l) == EndOf(InFetch(h, l), account[h][l])

EndOfQueue(h, l) == EndOf(queue[h][l], EndOfFetching(h, l))

Forwarders == {"none", "receiving", "sending", "done", "panicked", "aborted"}
Processors == {"none", "processing", "sending", "over"}
Fetches == Seq([item : Item, done : BOOLEAN])

\* The places of the tasks are tables of the handlers and the listeners.
Tables ==
    /\ hand \in [Handlers -> [Listeners -> Item \cup {Nothing}]]
    /\ queue \in [Handlers -> [Listeners -> Seq(Item)]]
    /\ fetching \in [Handlers -> [Listeners -> Fetches]]

\* From what the listener knows of to what the forwarder receives next, each
\* place goes on where the one before it ends.
Flow(h, l) ==
    /\ Linked(InFetch(h, l), account[h][l])
    /\ Linked(queue[h][l], EndOfFetching(h, l))
    /\ next[h][l] <= published[h] + 1
    /\ forwarder[h][l] \in {"none", "receiving"} => next[h][l] = EndOfQueue(h, l) + 1
    /\ forwarder[h][l] = "sending" =>
        /\ hand[h][l] \in Item
        /\ hand[h][l].from = EndOfQueue(h, l) + 1
        /\ hand[h][l].to + 1 = next[h][l]

\* A forwarder that ended before its processor has drained the channel for good.
Drained(h, l) ==
    forwarder[h][l] = "done" /\ processor[h][l] # "over" =>
        /\ published[h] = EndOfQueue(h, l)
        /\ handler[h] \in {"joining", "over", "panicked"}

\* The two tasks of a listener begin together, and the processor of a listener
\* of the StreamHandler ends first only when its consumer has left.
Roles(h, l) ==
    /\ processor[h][l] = "none" <=> forwarder[h][l] = "none"
    /\ handler[h] = "waiting" => forwarder[h][l] = "none"
    /\ handler[h] = "over" => forwarder[h][l] \in {"none", "done"}
    /\ h = "stream" /\ l \in present =>
        /\ processor[h][l] = "over" => forwarder[h][l] \in {"done", "aborted"}
        /\ forwarder[h][l] # "panicked"

ListenerInv(h, l) == Flow(h, l) /\ Drained(h, l) /\ Roles(h, l)

IInv == TypeOK /\ Tables /\ \A h \in Handlers, l \in Listeners : ListenerInv(h, l)

-----------------------------------------------------------------------------
(* Sequences of items. *)

\* An item that goes on where the sequence ends extends it.
LEMMA AppendLinks ==
    ASSUME NEW s \in Seq(Item), NEW a \in Nat, Linked(s, a),
           NEW x \in Item, x.from = EndOf(s, a) + 1
    PROVE  /\ Linked(Append(s, x), a)
           /\ EndOf(Append(s, x), a) = x.to
<1> DEFINE t == Append(s, x)
<1>1. /\ t \in Seq(Item) /\ t # << >> /\ Len(t) = Len(s) + 1 /\ Len(s) \in Nat
      /\ \A i \in 1 .. Len(s) : t[i] = s[i]
      /\ t[Len(s) + 1] = x
    BY AppendProperties, LenProperties
<1> HIDE DEF t
<1>2. EndOf(t, a) = x.to
    BY <1>1 DEF EndOf
<1>3. ASSUME NEW i \in 1 .. Len(t)
      PROVE  t[i].from = 1 + IF i = 1 THEN a ELSE t[i - 1].to
  <2>1. CASE i \in 1 .. Len(s)
    <3>1. t[i] = s[i] /\ (i # 1 => t[i - 1] = s[i - 1])
      BY <1>1, <2>1
    <3> QED
      BY <2>1, <3>1 DEF Linked
  <2>2. CASE i = Len(s) + 1 /\ s = << >>
    <3>1. i = 1 /\ t[i] = x /\ EndOf(s, a) = a /\ x.from = a + 1
      BY <1>1, <2>2 DEF EndOf
    <3> QED
      BY <3>1
  <2>3. CASE i = Len(s) + 1 /\ s # << >>
    <3>1. Len(s) # 0
      BY <2>3, EmptySeq
    <3>2. i # 1 /\ i - 1 = Len(s) /\ i - 1 \in 1 .. Len(s) /\ t[i - 1] = s[Len(s)] /\ t[i] = x
      BY <1>1, <2>3, <3>1
    <3>3. x.from = s[Len(s)].to + 1 /\ s[Len(s)].to \in Int
      <4>1. s[Len(s)] \in Item
        BY <1>1, <3>1, ElementOfSeq
      <4> QED
        BY <2>3, <4>1 DEF EndOf, Item
    <3> QED
      BY <3>2, <3>3
  <2> QED
    BY <1>1, <2>1, <2>2, <2>3
<1> QED
    BY <1>2, <1>3 DEF Linked, t

\* The first item goes on where the sequence does, and the others after it.
LEMMA TailLinks ==
    ASSUME NEW s \in Seq(Item), NEW a \in Nat, Linked(s, a), s # << >>
    PROVE  /\ Head(s) \in Item /\ Head(s) = s[1] /\ Head(s).from = a + 1
           /\ Tail(s) \in Seq(Item) /\ Len(Tail(s)) = Len(s) - 1
           /\ Linked(Tail(s), Head(s).to)
           /\ EndOf(Tail(s), Head(s).to) = EndOf(s, a)
<1> DEFINE t == Tail(s)
<1>1. /\ Head(s) \in Item /\ Head(s) = s[1] /\ t \in Seq(Item) /\ Len(t) = Len(s) - 1
      /\ Len(s) \in Nat /\ Len(s) # 0
      /\ \A i \in 1 .. Len(t) : t[i] = s[i + 1]
    BY HeadTailProperties, LenProperties, EmptySeq
<1> HIDE DEF t
<1>2. Head(s).from = a + 1
  <2>1. 1 \in 1 .. Len(s)
    BY <1>1
  <2>2. s[1].from = 1 + a
    BY <2>1 DEF Linked
  <2> QED
    BY <1>1, <2>2
<1>3. ASSUME NEW i \in 1 .. Len(t)
      PROVE  t[i].from = 1 + IF i = 1 THEN Head(s).to ELSE t[i - 1].to
  <2>1. i + 1 \in 1 .. Len(s) /\ i + 1 # 1 /\ (i + 1) - 1 = i /\ t[i] = s[i + 1]
    BY <1>1
  <2>2. s[i + 1].from = 1 + s[i].to
    BY <2>1 DEF Linked
  <2>3. i # 1 => t[i - 1] = s[i]
    BY <1>1
  <2> QED
    BY <1>1, <2>1, <2>2, <2>3
<1>4. EndOf(t, Head(s).to) = EndOf(s, a)
  <2>1. CASE Len(s) = 1
    <3>1. t = << >>
      BY <1>1, <2>1, EmptySeq
    <3> QED
      BY <1>1, <2>1, <3>1 DEF EndOf
  <2>2. CASE Len(s) # 1
    <3>1. Len(t) \in 1 .. Len(t) /\ t # << >> /\ Len(t) + 1 = Len(s)
      BY <1>1, <2>2, EmptySeq
    <3> QED
      BY <1>1, <3>1 DEF EndOf
  <2> QED
    BY <2>1, <2>2
<1> QED
    BY <1>1, <1>2, <1>3, <1>4 DEF Linked, t

\* A sequence of items ends with a message.
LEMMA EndOfIsMessage ==
    ASSUME NEW s \in Seq(Item), NEW a \in 0 .. MaxMessages
    PROVE  EndOf(s, a) \in 0 .. MaxMessages
<1>1. CASE s = << >>
    BY <1>1 DEF EndOf
<1>2. CASE s # << >>
  <2>1. Len(s) \in 1 .. Len(s)
    BY <1>2, LenProperties, EmptySeq
  <2>2. s[Len(s)] \in Item
    BY <2>1, ElementOfSeq
  <2> QED
    BY <1>2, <2>2 DEF EndOf, Item
<1> QED
    BY <1>1, <1>2

\* Two sequences of items end where the second one ends.
LEMMA EndOfConcat ==
    ASSUME NEW s \in Seq(Item), NEW t \in Seq(Item), NEW a
    PROVE  EndOf(s \o t, a) = EndOf(t, EndOf(s, a))
<1> DEFINE c == s \o t
<1>1. /\ c \in Seq(Item) /\ Len(c) = Len(s) + Len(t) /\ Len(s) \in Nat /\ Len(t) \in Nat
      /\ \A i \in 1 .. Len(s) + Len(t) : c[i] = IF i <= Len(s) THEN s[i] ELSE t[i - Len(s)]
    BY ConcatProperties, LenProperties
<1>2. (c = << >> <=> Len(c) = 0) /\ (s = << >> <=> Len(s) = 0) /\ (t = << >> <=> Len(t) = 0)
    BY <1>1, EmptySeq
<1> HIDE DEF c
<1>3. CASE t = << >> /\ s = << >>
    BY <1>1, <1>2, <1>3 DEF EndOf
<1>4. CASE t = << >> /\ s # << >>
  <2>1. Len(s) # 0 /\ Len(t) = 0
    BY <1>2, <1>4
  <2>2. Len(c) = Len(s) /\ Len(c) \in 1 .. Len(s) + Len(t) /\ Len(c) # 0
    BY <1>1, <2>1
  <2>3. c[Len(c)] = s[Len(s)]
    BY <1>1, <2>2
  <2>4. c # << >>
    BY <1>2, <2>2
  <2> QED
    BY <1>4, <2>3, <2>4 DEF EndOf
<1>5. CASE t # << >>
  <2>1. Len(t) # 0
    BY <1>2, <1>5
  <2>2. /\ Len(c) # 0 /\ Len(c) \in 1 .. Len(s) + Len(t)
        /\ ~(Len(c) <= Len(s)) /\ Len(c) - Len(s) = Len(t)
    BY <1>1, <2>1
  <2>3. c[Len(c)] = t[Len(t)]
    BY <1>1, <2>2
  <2>4. c # << >>
    BY <1>2, <2>2
  <2> QED
    BY <1>5, <2>3, <2>4 DEF EndOf
<1> QED
    BY <1>3, <1>4, <1>5 DEF c

-----------------------------------------------------------------------------
(* Tables of the handlers and the listeners. *)

HandlerStates == {"unused", "waiting", "running", "joining", "over", "panicked"}

\* g differs from f at most in the place of one listener.
OnlyAt(f, g, V, h, l) ==
    /\ g \in [Handlers -> [Listeners -> V]]
    /\ \A k \in Handlers, m \in Listeners : k # h \/ m # l => g[k][m] = f[k][m]

\* A table that stays differs nowhere.
LEMMA Stays ==
    ASSUME NEW V, NEW f \in [Handlers -> [Listeners -> V]], NEW h, NEW l
    PROVE  OnlyAt(f, f, V, h, l)
BY DEF OnlyAt

-----------------------------------------------------------------------------
(* The fetches in flight. *)

\* One item for each fetch.
LEMMA ItemsType ==
    ASSUME NEW f \in Fetches
    PROVE  /\ ItemsOf(f) \in Seq(Item) /\ Len(ItemsOf(f)) = Len(f) /\ Len(f) \in Nat
           /\ \A i \in 1 .. Len(f) : ItemsOf(f)[i] = f[i].item
           /\ ItemsOf(f) = << >> <=> f = << >>
<1>1. Len(f) \in Nat /\ DOMAIN f = 1 .. Len(f)
    BY LenProperties DEF Fetches
<1>2. \A i \in 1 .. Len(f) : f[i] \in [item : Item, done : BOOLEAN]
    BY ElementOfSeq DEF Fetches
<1>3. ItemsOf(f) \in [1 .. Len(f) -> Item]
    BY <1>1, <1>2 DEF ItemsOf
<1>4. ItemsOf(f) \in Seq(Item) /\ Len(ItemsOf(f)) = Len(f)
    BY <1>1, <1>3
<1>5. f = << >> <=> Len(f) = 0
    BY EmptySeq DEF Fetches
<1>6. ItemsOf(f) = << >> <=> Len(ItemsOf(f)) = 0
    BY <1>4, EmptySeq
<1> QED
    BY <1>1, <1>4, <1>5, <1>6 DEF ItemsOf

\* The same items, whatever is fetched already.
LEMMA ItemsSame ==
    ASSUME NEW f \in Fetches, NEW g \in Fetches, Len(g) = Len(f),
           \A i \in 1 .. Len(f) : g[i].item = f[i].item
    PROVE  ItemsOf(g) = ItemsOf(f)
<1>1. \A i \in 1 .. Len(ItemsOf(f)) : ItemsOf(g)[i] = ItemsOf(f)[i]
    BY ItemsType
<1> QED
    BY <1>1, ItemsType, SeqEqual

\* A fetch that begins is the last one.
LEMMA ItemsAppend ==
    ASSUME NEW f \in Fetches, NEW x \in Item, NEW d \in BOOLEAN
    PROVE  LET g == Append(f, [item |-> x, done |-> d]) IN
           /\ g \in Fetches /\ Len(g) = Len(f) + 1
           /\ ItemsOf(g) = Append(ItemsOf(f), x)
<1> DEFINE r == [item |-> x, done |-> d]
           g == Append(f, r)
           e == Append(ItemsOf(f), x)
<1>1. r \in [item : Item, done : BOOLEAN] /\ r.item = x
    OBVIOUS
<1> HIDE DEF r
<1>2. /\ g \in Fetches /\ Len(g) = Len(f) + 1 /\ Len(f) \in Nat
      /\ \A i \in 1 .. Len(f) : g[i] = f[i]
      /\ g[Len(f) + 1] = r
    BY <1>1, AppendProperties, LenProperties DEF Fetches
<1> HIDE DEF g
<1>3. /\ e \in Seq(Item) /\ Len(e) = Len(f) + 1
      /\ \A i \in 1 .. Len(f) : e[i] = f[i].item
      /\ e[Len(f) + 1] = x
    BY ItemsType, AppendProperties
<1> HIDE DEF e
<1>4. ItemsOf(g) \in Seq(Item) /\ Len(ItemsOf(g)) = Len(e)
      /\ \A i \in 1 .. Len(g) : ItemsOf(g)[i] = g[i].item
    BY <1>2, <1>3, ItemsType
<1>5. \A i \in 1 .. Len(ItemsOf(g)) : ItemsOf(g)[i] = e[i]
    BY <1>1, <1>2, <1>3, <1>4
<1>6. ItemsOf(g) = e
    BY <1>3, <1>4, <1>5, SeqEqual
<1> QED
    BY <1>2, <1>6 DEF g, r, e

\* `buffered` yields the first one.
LEMMA ItemsTail ==
    ASSUME NEW f \in Fetches, f # << >>
    PROVE  /\ RemoveAt(f, 1) \in Fetches /\ Len(RemoveAt(f, 1)) = Len(f) - 1
           /\ ItemsOf(RemoveAt(f, 1)) = Tail(ItemsOf(f))
           /\ f[1].item = Head(ItemsOf(f))
<1> DEFINE g == Tail(f)
           e == Tail(ItemsOf(f))
<1>1. Len(f) \in Nat /\ Len(f) # 0
    BY LenProperties, EmptySeq DEF Fetches
<1>2. RemoveAt(f, 1) = g
  <2>1. SubSeq(f, 1, 0) = << >> /\ SubSeq(f, 2, Len(f)) = Tail(f) /\ Tail(f) \in Fetches
    BY SubSeqEmpty, TailIsSubSeq, HeadTailProperties DEF Fetches
  <2>2. << >> \o Tail(f) = Tail(f)
    BY <2>1, ConcatEmptySeq DEF Fetches
  <2>3. 1 - 1 = 0 /\ 1 + 1 = 2
    OBVIOUS
  <2> QED
    BY <2>1, <2>2, <2>3 DEF RemoveAt
<1>3. /\ g \in Fetches /\ Len(g) = Len(f) - 1
      /\ \A i \in 1 .. Len(f) - 1 : g[i] = f[i + 1]
  <2>1. /\ g \in Fetches /\ Len(g) = Len(f) - 1
        /\ \A i \in 1 .. Len(g) : g[i] = f[i + 1]
    BY HeadTailProperties DEF Fetches
  <2> QED
    BY <2>1
<1> HIDE DEF g
<1>4. /\ e \in Seq(Item) /\ Len(e) = Len(f) - 1 /\ ItemsOf(f) # << >>
      /\ \A i \in 1 .. Len(f) - 1 : e[i] = f[i + 1].item
      /\ Head(ItemsOf(f)) = f[1].item
  <2>1. /\ ItemsOf(f) \in Seq(Item) /\ ItemsOf(f) # << >> /\ Len(ItemsOf(f)) = Len(f)
        /\ \A i \in 1 .. Len(f) : ItemsOf(f)[i] = f[i].item
    BY ItemsType
  <2>2. /\ e \in Seq(Item) /\ Len(e) = Len(f) - 1
        /\ \A i \in 1 .. Len(e) : e[i] = ItemsOf(f)[i + 1]
    BY <2>1, HeadTailProperties
  <2>3. Head(ItemsOf(f)) = ItemsOf(f)[1]
    BY <2>1
  <2> HIDE DEF e
  <2>4. Head(ItemsOf(f)) = f[1].item
    BY <1>1, <2>1, <2>3
  <2>5. \A i \in 1 .. Len(f) - 1 : e[i] = f[i + 1].item
    BY <1>1, <2>1, <2>2
  <2> QED
    BY <2>1, <2>2, <2>4, <2>5
<1> HIDE DEF e
<1>5. ItemsOf(g) = e
  <2>1. ItemsOf(g) \in Seq(Item) /\ Len(ItemsOf(g)) = Len(e)
        /\ \A i \in 1 .. Len(g) : ItemsOf(g)[i] = g[i].item
    BY <1>3, <1>4, ItemsType
  <2>2. \A i \in 1 .. Len(ItemsOf(g)) : ItemsOf(g)[i] = e[i]
    BY <1>3, <1>4, <2>1
  <2> QED
    BY <1>4, <2>1, <2>2, SeqEqual
<1> QED
    BY <1>2, <1>3, <1>4, <1>5 DEF e

-----------------------------------------------------------------------------
(* One listener and the others. *)

\* The constants are numbers.
LEMMA Numbers ==
    /\ MaxMessages \in Nat /\ MaxConcurrentFetches \in Nat \ {0}
    /\ BroadcastCapacity \in Nat \ {0}
BY HandlersAreConfigured DEF HandlerAssumption

\* The places of one listener have their types.
LEMMA Places ==
    ASSUME IInv, NEW h \in Handlers, NEW l \in Listeners
    PROVE  /\ ListenerInv(h, l)
           /\ published[h] \in 0 .. MaxMessages
           /\ forwarder[h][l] \in Forwarders /\ processor[h][l] \in Processors
           /\ next[h][l] \in 1 .. MaxMessages + 1
           /\ hand[h][l] \in Item \cup {Nothing}
           /\ queue[h][l] \in Seq(Item) /\ Len(queue[h][l]) <= MaxConcurrentFetches
           /\ fetching[h][l] \in Fetches /\ Len(fetching[h][l]) <= MaxConcurrentFetches
           /\ InFetch(h, l) \in Seq(Item)
           /\ account[h][l] \in 0 .. MaxMessages
           /\ EndOfFetching(h, l) \in 0 .. MaxMessages
           /\ EndOfQueue(h, l) \in 0 .. MaxMessages
<1>1. /\ ListenerInv(h, l)
      /\ published[h] \in 0 .. MaxMessages
      /\ forwarder[h][l] \in Forwarders /\ processor[h][l] \in Processors
      /\ next[h][l] \in 1 .. MaxMessages + 1
      /\ account[h][l] \in 0 .. MaxMessages
    BY DEF IInv, TypeOK, Forwarders, Processors
<1>2. /\ hand[h][l] \in Item \cup {Nothing}
      /\ queue[h][l] \in Seq(Item) /\ Len(queue[h][l]) <= MaxConcurrentFetches
      /\ fetching[h][l] \in Fetches /\ Len(fetching[h][l]) <= MaxConcurrentFetches
    BY DEF IInv, TypeOK, Fetches
<1>3. InFetch(h, l) \in Seq(Item)
    BY <1>2, ItemsType DEF InFetch
<1>4. EndOfFetching(h, l) \in 0 .. MaxMessages
    BY <1>1, <1>3, EndOfIsMessage DEF EndOfFetching
<1>5. EndOfQueue(h, l) \in 0 .. MaxMessages
    BY <1>2, <1>4, EndOfIsMessage DEF EndOfQueue
<1> QED
    BY <1>1, <1>2, <1>3, <1>4, <1>5

\* What the tables are.
LEMMA TableTypes ==
    ASSUME IInv
    PROVE  /\ forwarder \in [Handlers -> [Listeners -> Forwarders]]
           /\ next \in [Handlers -> [Listeners -> 1 .. MaxMessages + 1]]
           /\ hand \in [Handlers -> [Listeners -> Item \cup {Nothing}]]
           /\ queue \in [Handlers -> [Listeners -> Seq(Item)]]
           /\ fetching \in [Handlers -> [Listeners -> Fetches]]
           /\ processor \in [Handlers -> [Listeners -> Processors]]
           /\ account \in [Handlers -> [Listeners -> 0 .. MaxMessages]]
BY DEF IInv, TypeOK, Tables, Forwarders, Processors

\* A table that stays changes nobody's place.
LEMMA Unmoved ==
    ASSUME IInv, NEW h, NEW l
    PROVE  /\ OnlyAt(forwarder, forwarder, Forwarders, h, l)
           /\ OnlyAt(next, next, 1 .. MaxMessages + 1, h, l)
           /\ OnlyAt(hand, hand, Item \cup {Nothing}, h, l)
           /\ OnlyAt(queue, queue, Seq(Item), h, l)
           /\ OnlyAt(fetching, fetching, Fetches, h, l)
           /\ OnlyAt(processor, processor, Processors, h, l)
           /\ OnlyAt(account, account, 0 .. MaxMessages, h, l)
BY TableTypes, Stays

\* What an assignment to the place of one listener does to each table.
LEMMA PutForwarder ==
    ASSUME IInv, NEW h \in Handlers, NEW l \in Listeners, NEW v \in Forwarders,
           forwarder' = [forwarder EXCEPT ![h][l] = v]
    PROVE  OnlyAt(forwarder, forwarder', Forwarders, h, l) /\ forwarder'[h][l] = v
<1>1. forwarder \in [Handlers -> [Listeners -> Forwarders]]
    BY TableTypes
<1> QED
    BY <1>1 DEF OnlyAt

\* An assignment to what one listener receives next leaves all others alone.
LEMMA PutNext ==
    ASSUME IInv, NEW h \in Handlers, NEW l \in Listeners, NEW v \in 1 .. MaxMessages + 1,
           next' = [next EXCEPT ![h][l] = v]
    PROVE  OnlyAt(next, next', 1 .. MaxMessages + 1, h, l) /\ next'[h][l] = v
<1>1. next \in [Handlers -> [Listeners -> 1 .. MaxMessages + 1]]
    BY TableTypes
<1> QED
    BY <1>1 DEF OnlyAt

\* An assignment changes what one forwarder has in hand.
LEMMA PutHand ==
    ASSUME IInv, NEW h \in Handlers, NEW l \in Listeners, NEW v \in Item \cup {Nothing},
           hand' = [hand EXCEPT ![h][l] = v]
    PROVE  OnlyAt(hand, hand', Item \cup {Nothing}, h, l) /\ hand'[h][l] = v
<1>1. hand \in [Handlers -> [Listeners -> Item \cup {Nothing}]]
    BY TableTypes
<1> QED
    BY <1>1 DEF OnlyAt

\* An assignment changes one queue.
LEMMA PutQueue ==
    ASSUME IInv, NEW h \in Handlers, NEW l \in Listeners, NEW v \in Seq(Item),
           queue' = [queue EXCEPT ![h][l] = v]
    PROVE  OnlyAt(queue, queue', Seq(Item), h, l) /\ queue'[h][l] = v
<1>1. queue \in [Handlers -> [Listeners -> Seq(Item)]]
    BY TableTypes
<1> QED
    BY <1>1 DEF OnlyAt

\* An assignment changes the fetches in flight of one processor.
LEMMA PutFetching ==
    ASSUME IInv, NEW h \in Handlers, NEW l \in Listeners, NEW v \in Fetches,
           fetching' = [fetching EXCEPT ![h][l] = v]
    PROVE  OnlyAt(fetching, fetching', Fetches, h, l) /\ fetching'[h][l] = v
<1>1. fetching \in [Handlers -> [Listeners -> Fetches]]
    BY TableTypes
<1> QED
    BY <1>1 DEF OnlyAt

\* An assignment changes the state of one processor.
LEMMA PutProcessor ==
    ASSUME IInv, NEW h \in Handlers, NEW l \in Listeners, NEW v \in Processors,
           processor' = [processor EXCEPT ![h][l] = v]
    PROVE  OnlyAt(processor, processor', Processors, h, l) /\ processor'[h][l] = v
<1>1. processor \in [Handlers -> [Listeners -> Processors]]
    BY TableTypes
<1> QED
    BY <1>1 DEF OnlyAt

\* An assignment changes what one listener knows of.
LEMMA PutAccount ==
    ASSUME IInv, NEW h \in Handlers, NEW l \in Listeners, NEW v \in 0 .. MaxMessages,
           account' = [account EXCEPT ![h][l] = v]
    PROVE  OnlyAt(account, account', 0 .. MaxMessages, h, l) /\ account'[h][l] = v
<1>1. account \in [Handlers -> [Listeners -> 0 .. MaxMessages]]
    BY TableTypes
<1> QED
    BY <1>1 DEF OnlyAt

\* The chain of items ends where it did when nobody touches it.
LEMMA SameChain ==
    ASSUME NEW h, NEW l, queue'[h][l] = queue[h][l], fetching'[h][l] = fetching[h][l],
           account'[h][l] = account[h][l]
    PROVE  /\ InFetch(h, l)' = InFetch(h, l)
           /\ EndOfFetching(h, l)' = EndOfFetching(h, l)
           /\ EndOfQueue(h, l)' = EndOfQueue(h, l)
BY DEF InFetch, EndOfFetching, EndOfQueue

\* A listener whose places stay keeps its invariant.
LEMMA OthersKeep ==
    ASSUME NEW h, NEW l, ListenerInv(h, l),
           handler'[h] = handler[h], published'[h] = published[h],
           forwarder'[h][l] = forwarder[h][l], next'[h][l] = next[h][l],
           hand'[h][l] = hand[h][l], queue'[h][l] = queue[h][l],
           fetching'[h][l] = fetching[h][l], processor'[h][l] = processor[h][l],
           account'[h][l] = account[h][l], l \in present' => l \in present
    PROVE  ListenerInv(h, l)'
<1>1. Flow(h, l)'
    BY SameChain DEF ListenerInv, Flow
<1>2. Drained(h, l)'
    BY SameChain DEF ListenerInv, Drained
<1>3. Roles(h, l)'
    BY DEF ListenerInv, Roles
<1> QED
    BY <1>1, <1>2, <1>3 DEF ListenerInv

\* A step of the tasks of one listener leaves the others alone.
LEMMA TaskStep ==
    ASSUME IInv, NEW h \in Handlers, NEW l \in Listeners,
           UNCHANGED handleVars, present' = present,
           streamed' \subseteq Listeners, answered' \subseteq Listeners,
           OnlyAt(forwarder, forwarder', Forwarders, h, l),
           OnlyAt(next, next', 1 .. MaxMessages + 1, h, l),
           OnlyAt(hand, hand', Item \cup {Nothing}, h, l),
           OnlyAt(queue, queue', Seq(Item), h, l),
           OnlyAt(fetching, fetching', Fetches, h, l),
           OnlyAt(processor, processor', Processors, h, l),
           OnlyAt(account, account', 0 .. MaxMessages, h, l),
           Len(queue'[h][l]) <= MaxConcurrentFetches,
           Len(fetching'[h][l]) <= MaxConcurrentFetches,
           ListenerInv(h, l)'
    PROVE  IInv'
<1>1. \A k \in Handlers, m \in Listeners : (k # h \/ m # l) =>
        /\ forwarder'[k][m] = forwarder[k][m] /\ next'[k][m] = next[k][m]
        /\ hand'[k][m] = hand[k][m] /\ queue'[k][m] = queue[k][m]
        /\ fetching'[k][m] = fetching[k][m] /\ processor'[k][m] = processor[k][m]
        /\ account'[k][m] = account[k][m]
    BY DEF OnlyAt
<1>2. ASSUME NEW k \in Handlers, NEW m \in Listeners PROVE ListenerInv(k, m)'
  <2>1. CASE k = h /\ m = l
    BY <2>1
  <2>2. CASE k # h \/ m # l
    BY <1>1, <2>2, OthersKeep DEF IInv, handleVars
  <2> QED
    BY <2>1, <2>2
<1>3. Tables'
    BY DEF OnlyAt, Tables
<1>4. \A k \in Handlers, m \in Listeners :
        /\ hand'[k][m] \in Item \cup {Nothing}
        /\ queue'[k][m] \in Seq(Item) /\ Len(queue'[k][m]) <= MaxConcurrentFetches
        /\ fetching'[k][m] \in Fetches /\ Len(fetching'[k][m]) <= MaxConcurrentFetches
  <2> SUFFICES ASSUME NEW k \in Handlers, NEW m \in Listeners
               PROVE  /\ hand'[k][m] \in Item \cup {Nothing}
                      /\ queue'[k][m] \in Seq(Item) /\ fetching'[k][m] \in Fetches
                      /\ Len(queue'[k][m]) <= MaxConcurrentFetches
                      /\ Len(fetching'[k][m]) <= MaxConcurrentFetches
      OBVIOUS
  <2>1. /\ hand'[k][m] \in Item \cup {Nothing}
        /\ queue'[k][m] \in Seq(Item) /\ fetching'[k][m] \in Fetches
    BY <1>3 DEF Tables
  <2>2. CASE k = h /\ m = l
    BY <2>1, <2>2
  <2>3. CASE k # h \/ m # l
    BY <1>1, <2>1, <2>3, Places
  <2> QED
    BY <2>2, <2>3
<1>5. /\ handler' \in [Handlers -> {"unused", "waiting", "running", "joining", "over", "panicked"}]
      /\ published' \in [Handlers -> 0 .. MaxMessages]
      /\ present' \subseteq Listeners
    BY DEF handleVars, IInv, TypeOK
<1>6. /\ forwarder' \in [Handlers -> [Listeners -> Forwarders]]
      /\ processor' \in [Handlers -> [Listeners -> Processors]]
      /\ next' \in [Handlers -> [Listeners -> 1 .. MaxMessages + 1]]
      /\ account' \in [Handlers -> [Listeners -> 0 .. MaxMessages]]
    BY DEF OnlyAt
<1>7. TypeOK'
    BY <1>4, <1>5, <1>6 DEF TypeOK, Forwarders, Processors, Fetches
<1> QED
    BY <1>2, <1>3, <1>7 DEF IInv

-----------------------------------------------------------------------------
(* The forwarder of a listener. *)

\* The message the forwarder receives is the one after what it forwarded, and a
\* lag says from there to where it goes on (block_range_handler.rs:134-149).
LEMMA ReceiveInv ==
    ASSUME IInv, NEW h \in Handlers, NEW l \in Listeners,
           Receive(h, l) \/ ReceiveLagged(h, l)
    PROVE  IInv'
<1> DEFINE p == published[h]
           n == next[h][l]
           o == Oldest(h)
<1>0. UNCHANGED <<handleVars, consumerVars, queue, fetching, processor, account>>
    BY DEF Receive, ReceiveLagged
<1>1. /\ forwarder[h][l] = "receiving"
      /\ forwarder' = [forwarder EXCEPT ![h][l] = "sending"]
      /\ \E x \in Item, m \in 1 .. MaxMessages + 1 :
            /\ hand' = [hand EXCEPT ![h][l] = x] /\ next' = [next EXCEPT ![h][l] = m]
            /\ x.from = n /\ x.to + 1 = m /\ m <= p + 1
  <2>1. /\ p \in 0 .. MaxMessages /\ n \in 1 .. MaxMessages + 1 /\ o \in Int
        /\ o <= p
    BY Places, Numbers DEF Oldest
  <2>2. CASE Receive(h, l)
    <3>1. n \in 1 .. MaxMessages /\ n <= p
      BY <2>1, <2>2, Numbers DEF Receive, Oldest
    <3>2. Message(n) \in Item /\ Message(n).from = n /\ Message(n).to = n
      BY <3>1 DEF Message, Item
    <3>3. hand' = [hand EXCEPT ![h][l] = Message(n)] /\ next' = [next EXCEPT ![h][l] = n + 1]
      BY <2>2 DEF Receive
    <3>4. n + 1 \in 1 .. MaxMessages + 1 /\ n + 1 <= p + 1
      BY <2>1, <3>1, Numbers
    <3> QED
      BY <2>2, <3>2, <3>3, <3>4 DEF Receive
  <2>3. CASE ReceiveLagged(h, l)
    <3>1. n < o
      BY <2>3 DEF ReceiveLagged
    <3>2. n \in 1 .. MaxMessages /\ o - 1 \in 1 .. MaxMessages
      BY <2>1, <3>1, Numbers
    <3>3. /\ Lagged(n, o - 1) \in Item
          /\ Lagged(n, o - 1).from = n /\ Lagged(n, o - 1).to = o - 1
      BY <3>2 DEF Lagged, Item
    <3>4. hand' = [hand EXCEPT ![h][l] = Lagged(n, o - 1)] /\ next' = [next EXCEPT ![h][l] = o]
      BY <2>3 DEF ReceiveLagged
    <3>5. o \in 1 .. MaxMessages + 1 /\ o <= p + 1 /\ (o - 1) + 1 = o
      BY <2>1, <3>1, Numbers
    <3> QED
      BY <2>3, <3>3, <3>4, <3>5 DEF ReceiveLagged
  <2> QED
    BY <2>2, <2>3
<1>2. PICK x \in Item, m \in 1 .. MaxMessages + 1 :
        /\ hand' = [hand EXCEPT ![h][l] = x] /\ next' = [next EXCEPT ![h][l] = m]
        /\ x.from = n /\ x.to + 1 = m /\ m <= p + 1
    BY <1>1
<1>3. /\ OnlyAt(forwarder, forwarder', Forwarders, h, l) /\ forwarder'[h][l] = "sending"
      /\ OnlyAt(hand, hand', Item \cup {Nothing}, h, l) /\ hand'[h][l] = x
      /\ OnlyAt(next, next', 1 .. MaxMessages + 1, h, l) /\ next'[h][l] = m
  <2>1. OnlyAt(forwarder, forwarder', Forwarders, h, l) /\ forwarder'[h][l] = "sending"
    <3>1. "sending" \in Forwarders /\ forwarder' = [forwarder EXCEPT ![h][l] = "sending"]
      BY <1>1 DEF Forwarders
    <3> QED
      BY <3>1, PutForwarder
  <2>2. OnlyAt(hand, hand', Item \cup {Nothing}, h, l) /\ hand'[h][l] = x
    <3>1. x \in Item \cup {Nothing}
      OBVIOUS
    <3> QED
      BY <1>2, <3>1, PutHand
  <2>3. OnlyAt(next, next', 1 .. MaxMessages + 1, h, l) /\ next'[h][l] = m
    <3>1. next' = [next EXCEPT ![h][l] = m]
      BY <1>2
    <3> QED
      BY <3>1, PutNext
  <2> QED
    BY <2>1, <2>2, <2>3
<1>4. UNCHANGED <<handler, published, present, streamed, answered, queue, fetching, processor, account>>
    BY <1>0 DEF handleVars, consumerVars
<1>5. ListenerInv(h, l)'
  <2>1. Flow(h, l) /\ Roles(h, l) /\ n = EndOfQueue(h, l) + 1
    BY <1>1, Places DEF ListenerInv, Flow
  <2>2. Flow(h, l)'
    <3>1. /\ queue'[h][l] = queue[h][l] /\ fetching'[h][l] = fetching[h][l]
          /\ account'[h][l] = account[h][l] /\ published'[h] = published[h]
      BY <1>4
    <3>2. /\ InFetch(h, l)' = InFetch(h, l) /\ EndOfFetching(h, l)' = EndOfFetching(h, l)
          /\ EndOfQueue(h, l)' = EndOfQueue(h, l)
      BY <3>1, SameChain
    <3>3. Linked(InFetch(h, l), account[h][l])' /\ Linked(queue[h][l], EndOfFetching(h, l))'
      BY <2>1, <3>1, <3>2 DEF Flow
    <3>4. next'[h][l] <= published'[h] + 1
      BY <1>2, <1>3, <3>1
    <3>5. forwarder'[h][l] \notin {"none", "receiving"}
      BY <1>3
    <3>6. /\ hand'[h][l] \in Item
          /\ hand'[h][l].from = EndOfQueue(h, l)' + 1
          /\ hand'[h][l].to + 1 = next'[h][l]
      BY <1>2, <1>3, <2>1, <3>2
    <3> QED
      BY <3>3, <3>4, <3>5, <3>6 DEF Flow
  <2>3. Drained(h, l)'
    BY <1>3 DEF Drained
  <2>4. Roles(h, l)'
    BY <1>1, <1>3, <1>4, <2>1 DEF Roles
  <2> QED
    BY <2>2, <2>3, <2>4 DEF ListenerInv
<1>6. streamed' \subseteq Listeners /\ answered' \subseteq Listeners
    BY <1>4 DEF IInv, TypeOK
<1> QED
    BY <1>0, <1>3, <1>4, <1>5, <1>6, TaskStep, Unmoved, Places

\* It ends once the channel is closed and drained (block_range_handler.rs:141-144).
LEMMA ReceiveClosedInv ==
    ASSUME IInv, NEW h \in Handlers, NEW l \in Listeners, ReceiveClosed(h, l)
    PROVE  IInv'
<1>1. /\ forwarder[h][l] = "receiving" /\ handler[h] = "joining" /\ next[h][l] > published[h]
      /\ forwarder' = [forwarder EXCEPT ![h][l] = "done"]
      /\ UNCHANGED handleVars
      /\ UNCHANGED <<handler, published, present, streamed, answered, next, hand, queue, fetching,
                     processor, account>>
    BY DEF ReceiveClosed, handleVars, consumerVars
<1>2. OnlyAt(forwarder, forwarder', Forwarders, h, l) /\ forwarder'[h][l] = "done"
  <2>1. "done" \in Forwarders
    BY DEF Forwarders
  <2> QED
    BY <1>1, <2>1, PutForwarder
<1>3. ListenerInv(h, l)'
  <2>1. Flow(h, l) /\ Roles(h, l) /\ next[h][l] = EndOfQueue(h, l) + 1
    BY <1>1, Places DEF ListenerInv, Flow
  <2>2. Flow(h, l)'
    BY <1>1, <1>2, <2>1, SameChain DEF Flow
  <2>3. Drained(h, l)'
    <3>1. published[h] = EndOfQueue(h, l)
      BY <1>1, <2>1, Places DEF Flow
    <3> QED
      BY <1>1, <1>2, <3>1, SameChain DEF Drained
  <2>4. Roles(h, l)'
    BY <1>1, <1>2, <2>1 DEF Roles
  <2> QED
    BY <2>2, <2>3, <2>4 DEF ListenerInv
<1>4. streamed' \subseteq Listeners /\ answered' \subseteq Listeners
    BY <1>1 DEF IInv, TypeOK
<1> QED
    BY <1>1, <1>2, <1>3, <1>4, TaskStep, Unmoved, Places

\* What the forwarder has in hand goes to the end of the queue
\* (block_range_handler.rs:136-149).
LEMMA ForwardInv ==
    ASSUME IInv, NEW h \in Handlers, NEW l \in Listeners, Forward(h, l)
    PROVE  IInv'
<1> DEFINE q == queue[h][l]
           x == hand[h][l]
<1>1. /\ forwarder[h][l] = "sending" /\ Len(q) < MaxConcurrentFetches
      /\ UNCHANGED handleVars
      /\ UNCHANGED <<handler, published, present, streamed, answered, next, fetching, processor,
                     account>>
    BY DEF Forward, handleVars, consumerVars
<1>2. /\ x \in Item /\ x.from = EndOfQueue(h, l) + 1 /\ x.to + 1 = next[h][l]
      /\ Linked(q, EndOfFetching(h, l)) /\ Flow(h, l) /\ Roles(h, l)
      /\ q \in Seq(Item) /\ EndOfFetching(h, l) \in Nat
    BY <1>1, Places, Numbers DEF ListenerInv, Flow
<1>3. /\ Linked(Append(q, x), EndOfFetching(h, l))
      /\ EndOf(Append(q, x), EndOfFetching(h, l)) = x.to
      /\ Append(q, x) \in Seq(Item) /\ Len(Append(q, x)) <= MaxConcurrentFetches
  <2>1. Len(Append(q, x)) = Len(q) + 1 /\ Append(q, x) \in Seq(Item) /\ Len(q) \in Nat
    BY <1>2, AppendProperties, LenProperties
  <2> QED
    BY <1>1, <1>2, <2>1, Numbers, AppendLinks DEF EndOfQueue
<1>4. OnlyAt(forwarder, forwarder', Forwarders, h, l) /\ forwarder'[h][l] = "receiving"
  <2>1. /\ "receiving" \in Forwarders
        /\ forwarder' = [forwarder EXCEPT ![h][l] = "receiving"]
    BY DEF Forward, Forwarders
  <2> QED
    BY <2>1, PutForwarder
<1>5. OnlyAt(hand, hand', Item \cup {Nothing}, h, l)
  <2>1. Nothing \in Item \cup {Nothing} /\ hand' = [hand EXCEPT ![h][l] = Nothing]
    BY DEF Forward
  <2> QED
    BY <2>1, PutHand
<1>6. OnlyAt(queue, queue', Seq(Item), h, l) /\ queue'[h][l] = Append(q, x)
  <2> DEFINE e == Append(q, x)
  <2>1. queue' = [queue EXCEPT ![h][l] = e]
    BY DEF Forward
  <2>2. e \in Seq(Item)
    BY <1>3
  <2> HIDE DEF e
  <2>3. OnlyAt(queue, queue', Seq(Item), h, l) /\ queue'[h][l] = e
    BY <2>1, <2>2, PutQueue
  <2> QED
    BY <2>3 DEF e
<1>7. ListenerInv(h, l)'
  <2>1. /\ InFetch(h, l)' = InFetch(h, l) /\ EndOfFetching(h, l)' = EndOfFetching(h, l)
    BY <1>1 DEF InFetch, EndOfFetching
  <2>2. EndOfQueue(h, l)' = x.to
    BY <1>3, <1>6, <2>1 DEF EndOfQueue
  <2>3. Flow(h, l)'
    BY <1>1, <1>2, <1>3, <1>4, <1>6, <2>1, <2>2 DEF Flow
  <2>4. Drained(h, l)'
    BY <1>4 DEF Drained
  <2>5. Roles(h, l)'
    BY <1>1, <1>2, <1>4 DEF Roles
  <2> QED
    BY <2>3, <2>4, <2>5 DEF ListenerInv
<1>8. streamed' \subseteq Listeners /\ answered' \subseteq Listeners
    BY <1>1 DEF IInv, TypeOK
<1> QED
    BY <1>1, <1>3, <1>4, <1>5, <1>6, <1>7, <1>8, TaskStep, Unmoved, Places

\* The queue is closed: nobody waits for what is in hand, and a listener of the
\* StreamHandler whose consumer is there is not concerned
\* (block_range_handler.rs:136-149, 335-350).
LEMMA ForwardFindsClosedInv ==
    ASSUME IInv, NEW h \in Handlers, NEW l \in Listeners, ForwardFindsClosed(h, l)
    PROVE  IInv'
<1> DEFINE w == IF h = "latest" /\ ~hand[h][l].lag THEN "done" ELSE "panicked"
<1>1. /\ forwarder[h][l] = "sending" /\ processor[h][l] = "over"
      /\ UNCHANGED handleVars
      /\ UNCHANGED <<handler, published, present, streamed, answered, next, queue, fetching,
                     processor, account>>
    BY DEF ForwardFindsClosed, handleVars, consumerVars
<1>2. OnlyAt(forwarder, forwarder', Forwarders, h, l) /\ forwarder'[h][l] = w
  <2>1. w \in Forwarders /\ forwarder' = [forwarder EXCEPT ![h][l] = w]
    BY DEF ForwardFindsClosed, Forwarders
  <2> HIDE DEF w
  <2> QED
    BY <2>1, PutForwarder
<1>3. OnlyAt(hand, hand', Item \cup {Nothing}, h, l)
  <2>1. Nothing \in Item \cup {Nothing} /\ hand' = [hand EXCEPT ![h][l] = Nothing]
    BY DEF ForwardFindsClosed
  <2> QED
    BY <2>1, PutHand
<1>4. w \in {"done", "panicked"} /\ (h = "stream" => w = "panicked")
    OBVIOUS
<1> HIDE DEF w
<1>5. ListenerInv(h, l)'
  <2>1. Flow(h, l) /\ Roles(h, l)
    BY Places DEF ListenerInv
  <2>2. Flow(h, l)'
    BY <1>1, <1>2, <1>4, <2>1, SameChain DEF Flow
  <2>3. Drained(h, l)'
    BY <1>1 DEF Drained
  <2>4. Roles(h, l)'
    BY <1>1, <1>2, <1>4, <2>1 DEF Roles
  <2> QED
    BY <2>2, <2>3, <2>4 DEF ListenerInv
<1>6. streamed' \subseteq Listeners /\ answered' \subseteq Listeners
    BY <1>1 DEF IInv, TypeOK
<1> QED
    BY <1>1, <1>2, <1>3, <1>5, <1>6, TaskStep, Unmoved, Places

-----------------------------------------------------------------------------
(* The processor of a listener. *)

\* What a step of the processor has to keep: the chain of items, from another
\* beginning, say, but with the same end; and it ends only after the forwarder,
\* unless the consumer of the listener has left.
LEMMA ProcessorMoves ==
    ASSUME IInv, NEW h \in Handlers, NEW l \in Listeners,
           UNCHANGED <<handler, published, present, forwarder, next, hand>>,
           Linked(InFetch(h, l)', account'[h][l]),
           Linked(queue'[h][l], EndOfFetching(h, l)'),
           EndOfQueue(h, l)' = EndOfQueue(h, l),
           processor[h][l] \in {"processing", "sending"}, processor'[h][l] # "none",
           h = "stream" /\ l \in present /\ processor'[h][l] = "over" =>
                forwarder[h][l] \in {"done", "panicked", "aborted"}
    PROVE  ListenerInv(h, l)'
<1>1. Flow(h, l) /\ Drained(h, l) /\ Roles(h, l)
    BY Places DEF ListenerInv
<1>2. Flow(h, l)'
    BY <1>1 DEF Flow
<1>3. Drained(h, l)'
    BY <1>1 DEF Drained
<1>4. Roles(h, l)'
    BY <1>1 DEF Roles
<1> QED
    BY <1>2, <1>3, <1>4 DEF ListenerInv

\* `buffered` takes the oldest item of the queue
\* (block_range_handler.rs:100-116, 242-257).
LEMMA FetchInv ==
    ASSUME IInv, NEW h \in Handlers, NEW l \in Listeners, Fetch(h, l)
    PROVE  IInv'
<1> DEFINE q == queue[h][l]
           f == fetching[h][l]
           a == account[h][l]
           g == Append(f, [item |-> Head(q), done |-> FALSE])
           t == Tail(q)
<1>1. /\ processor[h][l] = "processing" /\ q # << >> /\ Len(f) < MaxConcurrentFetches
      /\ UNCHANGED handleVars
      /\ UNCHANGED <<handler, published, present, streamed, answered, forwarder, next, hand,
                     processor, account>>
    BY DEF Fetch, handleVars, consumerVars
<1>2. /\ q \in Seq(Item) /\ Len(q) <= MaxConcurrentFetches /\ f \in Fetches /\ a \in Nat
      /\ ItemsOf(f) \in Seq(Item) /\ EndOfFetching(h, l) \in Nat
      /\ Linked(ItemsOf(f), a) /\ Linked(q, EndOfFetching(h, l))
      /\ EndOfFetching(h, l) = EndOf(ItemsOf(f), a)
    BY Places, Numbers DEF ListenerInv, Flow, InFetch, EndOfFetching
<1>3. /\ Head(q) \in Item /\ Head(q).from = EndOfFetching(h, l) + 1
      /\ t \in Seq(Item) /\ Len(t) = Len(q) - 1
      /\ Linked(t, Head(q).to)
      /\ EndOf(t, Head(q).to) = EndOfQueue(h, l)
    BY <1>1, <1>2, TailLinks DEF EndOfQueue
<1>4. g \in Fetches /\ Len(g) = Len(f) + 1 /\ ItemsOf(g) = Append(ItemsOf(f), Head(q))
    BY <1>2, <1>3, ItemsAppend
<1>5. Len(g) <= MaxConcurrentFetches /\ Len(t) <= MaxConcurrentFetches
  <2>1. Len(f) \in Nat /\ Len(q) \in Nat
    BY <1>2, LenProperties DEF Fetches
  <2> QED
    BY <1>1, <1>2, <1>3, <1>4, <2>1, Numbers
<1>6. Linked(ItemsOf(g), a) /\ EndOf(ItemsOf(g), a) = Head(q).to
  <2>1. /\ ItemsOf(f) \in Seq(Item) /\ a \in Nat /\ Linked(ItemsOf(f), a)
        /\ Head(q) \in Item /\ Head(q).from = EndOf(ItemsOf(f), a) + 1
    BY <1>2, <1>3
  <2>2. /\ Linked(Append(ItemsOf(f), Head(q)), a)
        /\ EndOf(Append(ItemsOf(f), Head(q)), a) = Head(q).to
    BY <2>1, AppendLinks
  <2> QED
    BY <1>4, <2>2
<1>7. fetching' = [fetching EXCEPT ![h][l] = g] /\ queue' = [queue EXCEPT ![h][l] = t]
    BY DEF Fetch
<1> HIDE DEF g, t
<1>8. OnlyAt(fetching, fetching', Fetches, h, l) /\ fetching'[h][l] = g
    BY <1>4, <1>7, PutFetching
<1>9. OnlyAt(queue, queue', Seq(Item), h, l) /\ queue'[h][l] = t
    BY <1>3, <1>7, PutQueue
<1>10. ListenerInv(h, l)'
  <2>1. InFetch(h, l)' = ItemsOf(g) /\ account'[h][l] = a
    BY <1>1, <1>8 DEF InFetch
  <2>2. EndOfFetching(h, l)' = Head(q).to
    BY <1>6, <2>1 DEF EndOfFetching
  <2>3. EndOfQueue(h, l)' = EndOfQueue(h, l)
    BY <1>3, <1>9, <2>2 DEF EndOfQueue
  <2>4. Linked(InFetch(h, l)', account'[h][l]) /\ Linked(queue'[h][l], EndOfFetching(h, l)')
    BY <1>3, <1>6, <1>9, <2>1, <2>2
  <2>5. /\ processor[h][l] \in {"processing", "sending"} /\ processor'[h][l] # "none"
        /\ processor'[h][l] # "over"
    BY <1>1
  <2> QED
    BY <1>1, <2>3, <2>4, <2>5, ProcessorMoves
<1>11. streamed' \subseteq Listeners /\ answered' \subseteq Listeners
    BY <1>1 DEF IInv, TypeOK
<1> QED
    BY <1>1, <1>5, <1>8, <1>9, <1>10, <1>11, TaskStep, Unmoved, Places

\* A fetch that ends changes no item and no place
\* (block_range_handler.rs:100-116, 242-257).
LEMMA FetchedInv ==
    ASSUME IInv, NEW h \in Handlers, NEW l \in Listeners, Fetched(h, l)
    PROVE  IInv'
<1> DEFINE f == fetching[h][l]
<1>1. /\ processor[h][l] = "processing"
      /\ UNCHANGED handleVars
      /\ UNCHANGED <<handler, published, present, streamed, answered, forwarder, next, hand,
                     queue, processor, account>>
    BY DEF Fetched, handleVars, consumerVars
<1>2. PICK i \in DOMAIN f : fetching' = [fetching EXCEPT ![h][l][i].done = TRUE]
    BY DEF Fetched
<1> DEFINE r == [f[i] EXCEPT !.done = TRUE]
           g == [f EXCEPT ![i] = r]
<1>3. f \in Fetches /\ Len(f) <= MaxConcurrentFetches
    BY Places
<1>4. i \in 1 .. Len(f) /\ DOMAIN f = 1 .. Len(f) /\ Len(f) \in Nat
    BY <1>3, LenProperties DEF Fetches
<1>5. f[i] \in [item : Item, done : BOOLEAN]
    BY <1>3, <1>4, ElementOfSeq DEF Fetches
<1>6. r \in [item : Item, done : BOOLEAN] /\ r.item = f[i].item
    BY <1>5
<1> HIDE DEF r
<1>7. g \in Fetches /\ Len(g) = Len(f) /\ \A j \in 1 .. Len(f) : g[j].item = f[j].item
  <2>1. g \in Fetches /\ Len(g) = Len(f)
    BY <1>3, <1>4, <1>6, ExceptSeq DEF Fetches
  <2>2. \A j \in 1 .. Len(f) : g[j] = IF j = i THEN r ELSE f[j]
    BY <1>4
  <2> QED
    BY <1>6, <2>1, <2>2
<1>8. fetching' = [fetching EXCEPT ![h][l] = g]
    BY <1>2 DEF r
<1> HIDE DEF g
<1>9. OnlyAt(fetching, fetching', Fetches, h, l) /\ fetching'[h][l] = g
    BY <1>7, <1>8, PutFetching
<1>10. ListenerInv(h, l)'
  <2>1. ItemsOf(g) = ItemsOf(f)
    BY <1>3, <1>7, ItemsSame
  <2>2. InFetch(h, l)' = InFetch(h, l)
    BY <1>9, <2>1 DEF InFetch
  <2>3. EndOfFetching(h, l)' = EndOfFetching(h, l)
    BY <1>1, <2>2 DEF EndOfFetching
  <2>4. EndOfQueue(h, l)' = EndOfQueue(h, l)
    BY <1>1, <2>3 DEF EndOfQueue
  <2>5. Linked(InFetch(h, l), account[h][l]) /\ Linked(queue[h][l], EndOfFetching(h, l))
    BY Places DEF ListenerInv, Flow
  <2>6. Linked(InFetch(h, l)', account'[h][l]) /\ Linked(queue'[h][l], EndOfFetching(h, l)')
    BY <1>1, <2>2, <2>3, <2>5
  <2>7. /\ processor[h][l] \in {"processing", "sending"} /\ processor'[h][l] # "none"
        /\ processor'[h][l] # "over"
    BY <1>1
  <2> QED
    BY <1>1, <2>4, <2>6, <2>7, ProcessorMoves
<1>11. streamed' \subseteq Listeners /\ answered' \subseteq Listeners
    BY <1>1 DEF IInv, TypeOK
<1>12. Len(queue'[h][l]) <= MaxConcurrentFetches /\ Len(fetching'[h][l]) <= MaxConcurrentFetches
    BY <1>1, <1>3, <1>7, <1>9, Places
<1> QED
    BY <1>1, <1>9, <1>10, <1>11, <1>12, TaskStep, Unmoved

\* The result that leaves `buffered` is of the item right after what the listener
\* knows of, and the others go on where it ends (block_range_handler.rs:100-129).
LEMMA Accounted ==
    ASSUME IInv, NEW h \in Handlers, NEW l \in Listeners,
           NEW i \in Ready(h, l), Account(h, l, i)
    PROVE  /\ i = 1 /\ i \in DOMAIN fetching[h][l] /\ processor[h][l] = "processing"
           /\ fetching[h][l][i].item.from = account[h][l] + 1
           /\ account'[h][l] = fetching[h][l][i].item.to
           /\ OnlyAt(fetching, fetching', Fetches, h, l)
           /\ Len(fetching'[h][l]) <= MaxConcurrentFetches
           /\ OnlyAt(account, account', 0 .. MaxMessages, h, l)
           /\ Linked(InFetch(h, l)', account'[h][l])
           /\ EndOfFetching(h, l)' = EndOfFetching(h, l)
<1> DEFINE f == fetching[h][l]
           a == account[h][l]
           g == RemoveAt(f, 1)
           b == f[1].item.to
<1>1. i = 1 /\ i \in DOMAIN f /\ processor[h][l] = "processing"
    BY DEF Ready
<1>2. /\ f \in Fetches /\ Len(f) <= MaxConcurrentFetches /\ a \in Nat
      /\ ItemsOf(f) \in Seq(Item)
      /\ Linked(ItemsOf(f), a)
      /\ EndOfFetching(h, l) = EndOf(ItemsOf(f), a)
    BY Places, Numbers DEF ListenerInv, Flow, InFetch, EndOfFetching
<1>3. f # << >> /\ Len(f) \in Nat
    BY <1>1, <1>2, LenProperties, EmptySeq DEF Fetches
<1>4. /\ g \in Fetches /\ Len(g) = Len(f) - 1 /\ ItemsOf(g) = Tail(ItemsOf(f))
      /\ f[1].item = Head(ItemsOf(f))
    BY <1>2, <1>3, ItemsTail
<1>5. ItemsOf(f) # << >>
    BY <1>2, <1>3, ItemsType
<1>6. /\ f[1].item \in Item /\ f[1].item.from = a + 1
      /\ Linked(ItemsOf(g), b) /\ EndOf(ItemsOf(g), b) = EndOfFetching(h, l)
  <2>1. ItemsOf(f) \in Seq(Item) /\ a \in Nat /\ Linked(ItemsOf(f), a) /\ ItemsOf(f) # << >>
    BY <1>2, <1>5
  <2>2. /\ Head(ItemsOf(f)) \in Item /\ Head(ItemsOf(f)).from = a + 1
        /\ Linked(Tail(ItemsOf(f)), Head(ItemsOf(f)).to)
        /\ EndOf(Tail(ItemsOf(f)), Head(ItemsOf(f)).to) = EndOf(ItemsOf(f), a)
    BY <2>1, TailLinks
  <2> QED
    BY <1>2, <1>4, <2>2
<1>7. fetching' = [fetching EXCEPT ![h][l] = g] /\ account' = [account EXCEPT ![h][l] = b]
    BY <1>1 DEF Account
<1>8. b \in 0 .. MaxMessages
    BY <1>6 DEF Item
<1> HIDE DEF g
<1>9. OnlyAt(fetching, fetching', Fetches, h, l) /\ fetching'[h][l] = g
    BY <1>4, <1>7, PutFetching
<1>10. OnlyAt(account, account', 0 .. MaxMessages, h, l) /\ account'[h][l] = b
  <2>1. account' = [account EXCEPT ![h][l] = b]
    BY <1>7
  <2> HIDE DEF b
  <2> QED
    BY <1>8, <2>1, PutAccount
<1>11. Linked(InFetch(h, l)', account'[h][l]) /\ EndOfFetching(h, l)' = EndOfFetching(h, l)
  <2>1. InFetch(h, l)' = ItemsOf(g)
    BY <1>9 DEF InFetch
  <2>2. Linked(InFetch(h, l)', account'[h][l])
    BY <1>6, <1>10, <2>1
  <2>3. EndOfFetching(h, l)' = EndOf(ItemsOf(g), b)
    BY <1>10, <2>1 DEF EndOfFetching
  <2> QED
    BY <1>6, <2>2, <2>3
<1>12. Len(fetching'[h][l]) <= MaxConcurrentFetches
    BY <1>2, <1>3, <1>4, <1>9, Numbers
<1> QED
    BY <1>1, <1>6, <1>9, <1>10, <1>11, <1>12

\* A result is handed on, or needs no handing on, or completes the collection
\* (block_range_handler.rs:119-129, 265-315).
LEMMA AccountInv ==
    ASSUME IInv, NEW h \in Handlers, NEW l \in Listeners,
           Absorb(h, l) \/ Deliver(h, l) \/ (h = "latest" /\ Complete(l))
    PROVE  IInv'
<1>1. PICK i \in Ready(h, l) : Account(h, l, i)
    BY DEF Absorb, Deliver, Complete
<1>2. /\ UNCHANGED handleVars
      /\ UNCHANGED <<handler, published, present, answered, forwarder, next, hand, queue>>
      /\ streamed' \in {streamed, streamed \cup {l}}
    BY DEF Absorb, Deliver, Complete, handleVars, consumerVars
<1>3. \/ processor' = processor
      \/ processor' = [processor EXCEPT ![h][l] = "sending"]
    BY DEF Absorb, Deliver, Complete
<1>4. processor[h][l] = "processing"
    BY <1>1, Accounted
<1>5. /\ OnlyAt(processor, processor', Processors, h, l)
      /\ processor'[h][l] \in {"processing", "sending"}
  <2>1. CASE processor' = processor
    BY <1>4, <2>1, Unmoved
  <2>2. CASE processor' = [processor EXCEPT ![h][l] = "sending"]
    <3>1. "sending" \in Processors
      BY DEF Processors
    <3>2. OnlyAt(processor, processor', Processors, h, l) /\ processor'[h][l] = "sending"
      BY <2>2, <3>1, PutProcessor
    <3> QED
      BY <3>2
  <2> QED
    BY <1>3, <2>1, <2>2
<1>6. /\ OnlyAt(fetching, fetching', Fetches, h, l)
      /\ Len(fetching'[h][l]) <= MaxConcurrentFetches
      /\ OnlyAt(account, account', 0 .. MaxMessages, h, l)
      /\ Linked(InFetch(h, l)', account'[h][l])
      /\ EndOfFetching(h, l)' = EndOfFetching(h, l)
    BY <1>1, Accounted
<1>7. ListenerInv(h, l)'
  <2>1. EndOfQueue(h, l)' = EndOfQueue(h, l)
    BY <1>2, <1>6 DEF EndOfQueue
  <2>2. Linked(queue[h][l], EndOfFetching(h, l))
    BY Places DEF ListenerInv, Flow
  <2>3. Linked(queue'[h][l], EndOfFetching(h, l)')
    BY <1>2, <1>6, <2>2
  <2>4. /\ processor[h][l] \in {"processing", "sending"} /\ processor'[h][l] # "none"
        /\ processor'[h][l] # "over"
    BY <1>4, <1>5
  <2> QED
    BY <1>2, <1>6, <2>1, <2>3, <2>4, ProcessorMoves
<1>8. streamed' \subseteq Listeners /\ answered' \subseteq Listeners
    BY <1>2 DEF IInv, TypeOK
<1>9. Len(queue'[h][l]) <= MaxConcurrentFetches
    BY <1>2, Places
<1> QED
    BY <1>2, <1>5, <1>6, <1>7, <1>8, <1>9, TaskStep, Unmoved

\* The processor ends: its listener has left, or everything is processed, or the
\* collection is sent (block_range_handler.rs:119-130, 318-331).
LEMMA ProcessorEndsInv ==
    ASSUME IInv, NEW h \in Handlers, NEW l \in Listeners,
           \/ DeliverFindsClosed(h, l)
           \/ StreamEnds(h, l)
           \/ h = "latest" /\ SendCollected(l)
    PROVE  IInv'
<1>1. /\ UNCHANGED handleVars
      /\ UNCHANGED <<handler, published, present, streamed, forwarder, next, hand, queue,
                     fetching, account>>
      /\ answered' \in {answered, answered \cup ({l} \cap present)}
    BY DEF DeliverFindsClosed, StreamEnds, SendCollected, handleVars, consumerVars
<1>2. /\ processor[h][l] \in {"processing", "sending"}
      /\ \E w \in {"sending", "over"} : processor' = [processor EXCEPT ![h][l] = w]
      /\ h = "stream" /\ l \in present => forwarder[h][l] \in {"done", "panicked", "aborted"}
  <2>1. CASE DeliverFindsClosed(h, l)
    BY <2>1 DEF DeliverFindsClosed, Ready
  <2>2. CASE StreamEnds(h, l)
    BY <2>2 DEF StreamEnds, QueueClosed
  <2>3. CASE h = "latest" /\ SendCollected(l)
    BY <2>3 DEF SendCollected
  <2> QED
    BY <2>1, <2>2, <2>3
<1>3. PICK w \in {"sending", "over"} : processor' = [processor EXCEPT ![h][l] = w]
    BY <1>2
<1>4. OnlyAt(processor, processor', Processors, h, l) /\ processor'[h][l] = w
  <2>1. w \in Processors
    BY DEF Processors
  <2> QED
    BY <1>3, <2>1, PutProcessor
<1>5. ListenerInv(h, l)'
  <2>1. /\ InFetch(h, l)' = InFetch(h, l) /\ EndOfFetching(h, l)' = EndOfFetching(h, l)
        /\ EndOfQueue(h, l)' = EndOfQueue(h, l)
    BY <1>1, SameChain
  <2>2. Linked(InFetch(h, l), account[h][l]) /\ Linked(queue[h][l], EndOfFetching(h, l))
    BY Places DEF ListenerInv, Flow
  <2>3. Linked(InFetch(h, l)', account'[h][l]) /\ Linked(queue'[h][l], EndOfFetching(h, l)')
    BY <1>1, <2>1, <2>2
  <2>4. processor'[h][l] # "none"
    BY <1>4
  <2> QED
    BY <1>1, <1>2, <2>1, <2>3, <2>4, ProcessorMoves
<1>6. streamed' \subseteq Listeners /\ answered' \subseteq Listeners
    BY <1>1 DEF IInv, TypeOK
<1>7. Len(queue'[h][l]) <= MaxConcurrentFetches /\ Len(fetching'[h][l]) <= MaxConcurrentFetches
    BY <1>1, Places
<1> QED
    BY <1>1, <1>4, <1>5, <1>6, <1>7, TaskStep, Unmoved

-----------------------------------------------------------------------------
(* handle(), and the consumers. *)

\* A step that moves no item between the places.
LEMMA HandleStep ==
    ASSUME IInv,
           UNCHANGED <<streamed, answered, next, hand, queue, fetching, account>>,
           present' \subseteq present,
           handler' \in [Handlers -> HandlerStates],
           published' \in [Handlers -> 0 .. MaxMessages],
           forwarder' \in [Handlers -> [Listeners -> Forwarders]],
           processor' \in [Handlers -> [Listeners -> Processors]],
           \A h \in Handlers, l \in Listeners : ListenerInv(h, l)'
    PROVE  IInv'
<1>1. Tables'
    BY DEF IInv, Tables
<1>2. TypeOK'
    BY DEF IInv, TypeOK, HandlerStates, Forwarders, Processors
<1> QED
    BY <1>1, <1>2 DEF IInv

\* What handle() is.
LEMMA HandleTypes ==
    ASSUME IInv
    PROVE  /\ handler \in [Handlers -> HandlerStates]
           /\ published \in [Handlers -> 0 .. MaxMessages]
BY DEF IInv, TypeOK, HandlerStates

\* A message more in the broadcast channel: a forwarder that is done is one of a
\* handler that broadcasts no more (block_range_handler.rs:386-391).
LEMMA BroadcastInv ==
    ASSUME IInv, NEW h \in Handlers, Broadcast(h)
    PROVE  IInv'
<1>1. /\ handler[h] = "running" /\ published[h] < MaxMessages
      /\ published' = [published EXCEPT ![h] = @ + 1]
      /\ UNCHANGED <<handler, present, streamed, answered, forwarder, next, hand, queue,
                     fetching, processor, account>>
    BY DEF Broadcast, consumerVars, taskVars
<1>2. published' \in [Handlers -> 0 .. MaxMessages]
    BY <1>1, HandleTypes, Numbers
<1>3. ASSUME NEW k \in Handlers, NEW l \in Listeners PROVE ListenerInv(k, l)'
  <2>1. published[k] <= published'[k] /\ (handler[k] # "running" => published'[k] = published[k])
    BY <1>1, HandleTypes, Numbers
  <2>2. Flow(k, l) /\ Drained(k, l) /\ Roles(k, l)
    BY Places DEF ListenerInv
  <2>3. /\ InFetch(k, l)' = InFetch(k, l) /\ EndOfFetching(k, l)' = EndOfFetching(k, l)
        /\ EndOfQueue(k, l)' = EndOfQueue(k, l)
    BY <1>1, SameChain
  <2>4. Flow(k, l)'
    <3>1. next[k][l] <= published'[k] + 1
      <4>1. /\ published[k] \in Int /\ next[k][l] \in Int /\ published'[k] \in Int
            /\ next[k][l] <= published[k] + 1
        BY <1>2, <2>2, Places DEF Flow
      <4> QED
        BY <2>1, <4>1
    <3> QED
      BY <1>1, <2>2, <2>3, <3>1 DEF Flow
  <2>5. Drained(k, l)'
    <3>1. CASE handler[k] = "running"
      BY <1>1, <2>2, <3>1 DEF Drained
    <3>2. CASE handler[k] # "running"
      BY <1>1, <2>1, <2>2, <2>3, <3>2 DEF Drained
    <3> QED
      BY <3>1, <3>2
  <2>6. Roles(k, l)'
    BY <1>1, <2>2 DEF Roles
  <2> QED
    BY <2>4, <2>5, <2>6 DEF ListenerInv
<1> QED
    BY <1>1, <1>2, <1>3, HandleStep, HandleTypes, TableTypes

\* handle() goes on: the block stream ends, every forwarder is done, or the
\* StreamHandler is not needed after all (block_range_handler.rs:386-401,
\* modes/sync/from_latest.rs).
LEMMA HandleInv ==
    ASSUME IInv,
           \/ \E h \in Handlers : BroadcastEnds(h) \/ JoinAll(h)
           \/ StartStreamingFails
    PROVE  IInv'
<1>1. UNCHANGED <<published, present, streamed, answered, forwarder, next, hand, queue,
                  fetching, processor, account>>
    BY DEF BroadcastEnds, JoinAll, StartStreamingFails, consumerVars, taskVars
<1>2. PICK h \in Handlers, w \in {"joining", "over", "unused"} :
        /\ handler' = [handler EXCEPT ![h] = w]
        /\ w = "joining" => handler[h] = "running"
        /\ w = "over" => /\ handler[h] = "joining"
                         /\ \A l \in Listeners : forwarder[h][l] \in {"none", "done"}
        /\ w = "unused" => handler[h] = "waiting"
  <2>1. ASSUME NEW h \in Handlers, BroadcastEnds(h)
        PROVE  handler[h] = "running" /\ handler' = [handler EXCEPT ![h] = "joining"]
    BY <2>1 DEF BroadcastEnds
  <2>2. ASSUME NEW h \in Handlers, JoinAll(h)
        PROVE  /\ handler[h] = "joining" /\ handler' = [handler EXCEPT ![h] = "over"]
               /\ \A l \in Listeners : forwarder[h][l] \in {"none", "done"}
    BY <2>2 DEF JoinAll
  <2>3. ASSUME StartStreamingFails
        PROVE  /\ "stream" \in Handlers
               /\ handler["stream"] = "waiting"
               /\ handler' = [handler EXCEPT !["stream"] = "unused"]
    BY <2>3 DEF StartStreamingFails, Handlers
  <2> QED
    BY <2>1, <2>2, <2>3
<1>3. handler' \in [Handlers -> HandlerStates]
    BY <1>2, HandleTypes DEF HandlerStates
<1>4. ASSUME NEW k \in Handlers, NEW l \in Listeners PROVE ListenerInv(k, l)'
  <2>1. Flow(k, l) /\ Drained(k, l) /\ Roles(k, l)
    BY Places DEF ListenerInv
  <2>2. /\ InFetch(k, l)' = InFetch(k, l) /\ EndOfFetching(k, l)' = EndOfFetching(k, l)
        /\ EndOfQueue(k, l)' = EndOfQueue(k, l)
    BY <1>1, SameChain
  <2>3. handler'[k] = IF k = h THEN w ELSE handler[k]
    BY <1>2, HandleTypes
  <2>4. Flow(k, l)'
    BY <1>1, <2>1, <2>2 DEF Flow
  <2>5. Drained(k, l)'
    <3>1. forwarder[k][l] = "done" /\ processor[k][l] # "over" =>
            handler'[k] \in {"joining", "over", "panicked"}
      BY <1>2, <2>1, <2>3 DEF Drained
    <3> QED
      BY <1>1, <2>1, <2>2, <3>1 DEF Drained
  <2>6. Roles(k, l)'
    BY <1>1, <1>2, <2>1, <2>3 DEF Roles
  <2> QED
    BY <2>4, <2>5, <2>6 DEF ListenerInv
<1> QED
    BY <1>1, <1>3, <1>4, HandleStep, HandleTypes, TableTypes

\* The other forwarders are dropped when one has panicked
\* (block_range_handler.rs:398-401).
LEMMA JoinPanicsInv ==
    ASSUME IInv, NEW h \in Handlers, JoinPanics(h)
    PROVE  IInv'
<1> DEFINE row == [l \in Listeners |-> IF Receives(h, l) THEN "aborted" ELSE forwarder[h][l]]
<1>1. /\ handler[h] = "joining" /\ handler' = [handler EXCEPT ![h] = "panicked"]
      /\ forwarder' = [forwarder EXCEPT ![h] = row]
      /\ UNCHANGED <<published, present, streamed, answered, next, hand, queue, fetching,
                     processor, account>>
    BY DEF JoinPanics, consumerVars
<1>2. handler' \in [Handlers -> HandlerStates]
    BY <1>1, HandleTypes DEF HandlerStates
<1>3. forwarder' \in [Handlers -> [Listeners -> Forwarders]]
  <2>1. row \in [Listeners -> Forwarders]
    BY TableTypes DEF Forwarders
  <2> HIDE DEF row
  <2> QED
    BY <1>1, <2>1, TableTypes
<1>4. ASSUME NEW k \in Handlers, NEW l \in Listeners PROVE ListenerInv(k, l)'
  <2>1. Flow(k, l) /\ Drained(k, l) /\ Roles(k, l)
    BY Places DEF ListenerInv
  <2>2. /\ InFetch(k, l)' = InFetch(k, l) /\ EndOfFetching(k, l)' = EndOfFetching(k, l)
        /\ EndOfQueue(k, l)' = EndOfQueue(k, l)
    BY <1>1, SameChain
  <2>3. handler'[k] = IF k = h THEN "panicked" ELSE handler[k]
    BY <1>1, HandleTypes
  <2>4. /\ forwarder'[k][l] # forwarder[k][l] =>
                k = h /\ forwarder[k][l] \in {"receiving", "sending"} /\ forwarder'[k][l] = "aborted"
    <3>1. CASE k = h
      BY <1>1, <3>1, TableTypes DEF Receives
    <3>2. CASE k # h
      BY <1>1, <3>2, TableTypes
    <3> QED
      BY <3>1, <3>2
  <2>5. Flow(k, l)'
    BY <1>1, <2>1, <2>2, <2>4 DEF Flow
  <2>6. Drained(k, l)'
    BY <1>1, <2>1, <2>2, <2>3, <2>4 DEF Drained
  <2>7. Roles(k, l)'
    BY <1>1, <2>1, <2>3, <2>4 DEF Roles
  <2> QED
    BY <2>5, <2>6, <2>7 DEF ListenerInv
<1> QED
    BY <1>1, <1>2, <1>3, <1>4, HandleStep, HandleTypes, TableTypes

\* The tasks of the StreamHandler begin once the LatestEventsHandler is through,
\* where they are expected to (modes/sync/from_latest.rs).
LEMMA StartStreamingInv ==
    ASSUME IInv, StartStreaming
    PROVE  IInv'
<1> DEFINE L == {l \in Listeners : processor["latest"][l] # "none"}
           fs == Spawned(L, "receiving")
           ps == Spawned(L, "processing")
<1>1. /\ handler["stream"] = "waiting" /\ handler' = [handler EXCEPT !["stream"] = "running"]
      /\ forwarder' = [forwarder EXCEPT !["stream"] = fs]
      /\ processor' = [processor EXCEPT !["stream"] = ps]
      /\ UNCHANGED <<published, present, streamed, answered, next, hand, queue, fetching, account>>
    BY DEF StartStreaming, consumerVars
<1>2. fs \in [Listeners -> Forwarders] /\ ps \in [Listeners -> Processors]
      /\ \A l \in Listeners :
            \/ fs[l] = "none" /\ ps[l] = "none"
            \/ fs[l] = "receiving" /\ ps[l] = "processing"
    BY DEF Spawned, Forwarders, Processors
<1> HIDE DEF L, fs, ps
<1>3. /\ handler' \in [Handlers -> HandlerStates]
      /\ forwarder' \in [Handlers -> [Listeners -> Forwarders]]
      /\ processor' \in [Handlers -> [Listeners -> Processors]]
  <2>1. handler' \in [Handlers -> HandlerStates]
    BY <1>1, HandleTypes DEF HandlerStates
  <2>2. forwarder' \in [Handlers -> [Listeners -> Forwarders]]
    BY <1>1, <1>2, TableTypes
  <2>3. processor' \in [Handlers -> [Listeners -> Processors]]
    BY <1>1, <1>2, TableTypes
  <2> QED
    BY <2>1, <2>2, <2>3
<1>4. ASSUME NEW k \in Handlers, NEW l \in Listeners PROVE ListenerInv(k, l)'
  <2>1. Flow(k, l) /\ Drained(k, l) /\ Roles(k, l)
    BY Places DEF ListenerInv
  <2>2. /\ InFetch(k, l)' = InFetch(k, l) /\ EndOfFetching(k, l)' = EndOfFetching(k, l)
        /\ EndOfQueue(k, l)' = EndOfQueue(k, l)
    BY <1>1, SameChain
  <2>3. CASE k = "stream"
    <3>1. /\ handler[k] = "waiting" /\ handler'[k] = "running"
          /\ forwarder'[k][l] = fs[l] /\ processor'[k][l] = ps[l]
      BY <1>1, <2>3, HandleTypes, TableTypes
    <3>2. forwarder[k][l] = "none"
      BY <2>1, <3>1 DEF Roles
    <3>3. Flow(k, l)'
      BY <1>1, <1>2, <2>1, <2>2, <3>1, <3>2 DEF Flow
    <3>4. Drained(k, l)'
      BY <1>2, <3>1 DEF Drained
    <3>5. Roles(k, l)'
      BY <1>2, <3>1 DEF Roles
    <3> QED
      BY <3>3, <3>4, <3>5 DEF ListenerInv
  <2>4. CASE k # "stream"
    <3>1. /\ handler'[k] = handler[k] /\ forwarder'[k] = forwarder[k]
          /\ processor'[k] = processor[k]
      BY <1>1, <2>4, HandleTypes, TableTypes
    <3> QED
      BY <1>1, <2>1, <3>1, OthersKeep DEF ListenerInv
  <2> QED
    BY <2>3, <2>4
<1> QED
    BY <1>1, <1>3, <1>4, HandleStep, HandleTypes

\* A consumer leaves.
LEMMA ReceiverDroppedInv ==
    ASSUME IInv, NEW l \in Listeners, ReceiverDropped(l)
    PROVE  IInv'
<1>1. /\ present' \subseteq present
      /\ UNCHANGED <<handler, published, streamed, answered, forwarder, next, hand, queue,
                     fetching, processor, account>>
    BY DEF ReceiverDropped, handleVars, taskVars
<1>2. ASSUME NEW k \in Handlers, NEW m \in Listeners PROVE ListenerInv(k, m)'
  <2>1. ListenerInv(k, m)
    BY Places
  <2> QED
    BY <1>1, <2>1, OthersKeep
<1> QED
    BY <1>1, <1>2, HandleStep, HandleTypes, TableTypes

-----------------------------------------------------------------------------
(* The theorems. *)

\* Before handle() is called nothing is on its way, and every chain is empty.
LEMMA InitInv == Init => IInv
<1> SUFFICES ASSUME Init PROVE IInv
    OBVIOUS
<1> DEFINE starting(h) == IF handler[h] = "running" THEN present ELSE {}
<1>1. /\ present \subseteq Listeners /\ streamed = {} /\ answered = {}
      /\ published = [h \in Handlers |-> 0]
      /\ next = [h \in Handlers |-> [l \in Listeners |-> 1]]
      /\ hand = [h \in Handlers |-> [l \in Listeners |-> Nothing]]
      /\ queue = [h \in Handlers |-> [l \in Listeners |-> << >>]]
      /\ fetching = [h \in Handlers |-> [l \in Listeners |-> << >>]]
      /\ account = [h \in Handlers |-> [l \in Listeners |-> 0]]
    BY DEF Init
<1>2. /\ forwarder = [h \in Handlers |-> Spawned(starting(h), "receiving")]
      /\ processor = [h \in Handlers |-> Spawned(starting(h), "processing")]
    BY DEF Init
<1>3. /\ handler \in [Handlers -> HandlerStates]
      /\ \A h \in Handlers : handler[h] \in {"unused", "waiting", "running"}
    BY DEF Init, Handlers, HandlerStates
<1>4. /\ forwarder \in [Handlers -> [Listeners -> Forwarders]]
      /\ processor \in [Handlers -> [Listeners -> Processors]]
      /\ \A h \in Handlers, l \in Listeners :
            \/ forwarder[h][l] = "none" /\ processor[h][l] = "none"
            \/ /\ forwarder[h][l] = "receiving" /\ processor[h][l] = "processing"
               /\ handler[h] = "running"
    BY <1>2 DEF Spawned, Forwarders, Processors
<1>5. << >> \in Seq(Item) /\ << >> \in Fetches /\ Len(<< >>) = 0
    BY EmptySeq DEF Fetches
<1>6. Tables
    BY <1>1, <1>5 DEF Tables
<1>7. TypeOK
  <2>1. /\ published \in [Handlers -> 0 .. MaxMessages]
        /\ next \in [Handlers -> [Listeners -> 1 .. MaxMessages + 1]]
        /\ account \in [Handlers -> [Listeners -> 0 .. MaxMessages]]
    BY <1>1, Numbers
  <2>2. \A h \in Handlers, l \in Listeners :
            /\ hand[h][l] = Nothing
            /\ queue[h][l] = << >> /\ fetching[h][l] = << >>
    BY <1>1
  <2>3. Len(<< >>) <= MaxConcurrentFetches
    BY <1>5, Numbers
  <2> QED
    BY <1>1, <1>3, <1>4, <1>5, <2>1, <2>2, <2>3
       DEF TypeOK, Forwarders, Processors, HandlerStates, Fetches
<1>8. ASSUME NEW h \in Handlers, NEW l \in Listeners PROVE ListenerInv(h, l)
  <2>1. /\ next[h][l] = 1 /\ published[h] = 0 /\ account[h][l] = 0
        /\ queue[h][l] = << >> /\ fetching[h][l] = << >>
    BY <1>1
  <2>2. InFetch(h, l) = << >> /\ Len(InFetch(h, l)) = 0
    BY <1>5, <2>1, ItemsType DEF InFetch
  <2>3. EndOfFetching(h, l) = 0 /\ EndOfQueue(h, l) = 0
    BY <2>1, <2>2 DEF EndOfFetching, EndOfQueue, EndOf
  <2>4. Linked(InFetch(h, l), 0) /\ Linked(<< >>, 0)
    BY <1>5, <2>2 DEF Linked
  <2>5. Flow(h, l)
    BY <1>4, <2>1, <2>3, <2>4 DEF Flow
  <2>6. Drained(h, l) /\ Roles(h, l)
    BY <1>3, <1>4 DEF Drained, Roles
  <2> QED
    BY <2>5, <2>6 DEF ListenerInv
<1> QED
    BY <1>6, <1>7, <1>8 DEF IInv

\* Every step of a forwarder, a processor, a consumer or handle() keeps the chains.
LEMMA NextInv == IInv /\ [Next]_vars => IInv'
<1> SUFFICES ASSUME IInv, [Next]_vars PROVE IInv'
    OBVIOUS
<1>1. ASSUME NEW h \in Handlers, NEW l \in Listeners, Forwarding(h, l) PROVE IInv'
    BY <1>1, ReceiveInv, ReceiveClosedInv, ForwardInv, ForwardFindsClosedInv DEF Forwarding
<1>2. ASSUME NEW h \in Handlers, NEW l \in Listeners, Processing(h, l) PROVE IInv'
    BY <1>2, FetchInv, FetchedInv, AccountInv, ProcessorEndsInv DEF Processing
<1>3. ASSUME NEW l \in Listeners, Complete(l) \/ SendCollected(l) PROVE IInv'
    BY <1>3, AccountInv, ProcessorEndsInv DEF Handlers
<1>4. ASSUME NEW h \in Handlers, JoinAll(h) \/ JoinPanics(h) PROVE IInv'
    BY <1>4, HandleInv, JoinPanicsInv
<1>5. ASSUME StartStreaming \/ StartStreamingFails PROVE IInv'
    BY <1>5, HandleInv, StartStreamingInv
<1>6. ASSUME Environment PROVE IInv'
    BY <1>6, BroadcastInv, HandleInv, ReceiverDroppedInv DEF Environment
<1>7. ASSUME UNCHANGED vars PROVE IInv'
  <2>1. UNCHANGED <<handler, published, present, streamed, answered, forwarder, next, hand, queue,
                    fetching, processor, account>>
    BY <1>7 DEF vars, handleVars, consumerVars, taskVars
  <2>2. ASSUME NEW k \in Handlers, NEW m \in Listeners PROVE ListenerInv(k, m)'
    <3>1. ListenerInv(k, m)
      BY Places
    <3> QED
      BY <2>1, <3>1, OthersKeep
  <2> QED
    BY <2>1, <2>2, HandleStep, HandleTypes, TableTypes
<1> QED
    BY <1>1, <1>2, <1>3, <1>4, <1>5, <1>6, <1>7 DEF Next, Tasks

\* In every state the items of every listener form one chain from what it knows
\* of to what its forwarder receives next.
THEOREM HandlersInvariant == Spec => []IInv
<1> QED
    BY InitInv, NextInv, PTL DEF Spec

\* The variables keep their types; in particular no queue exceeds its capacity
\* and no listener has more fetches in flight than max_concurrent_fetches
\* (mpsc::channel(max_concurrent_fetches) and buffered(max_concurrent_fetches)).
THEOREM HandlerTypes == Spec => []TypeOK
<1>1. IInv => TypeOK
    BY DEF IInv
<1> QED
    BY <1>1, HandlersInvariant, PTL

\* When handle() returns, the last item on its way to a listener that still
\* processes is the last message of the block stream: no forwarder was left
\* behind, and none left a message in the channel
\* (block_range_handler.rs:134-149, 396-401).
THEOREM HandlersHandEverythingOn == Spec => []HandsEverythingOn
<1>1. IInv => HandsEverythingOn
  <2> SUFFICES ASSUME IInv, NEW h \in Handlers, NEW l \in Listeners,
                      handler[h] = "over", processor[h][l] = "processing"
               PROVE  published[h] = IF Pending(h, l) = << >> THEN account[h][l]
                                                              ELSE Last(Pending(h, l)).to
      BY DEF HandsEverythingOn
  <2>1. Drained(h, l) /\ Roles(h, l)
      BY Places DEF ListenerInv
  <2>2. published[h] = EndOfQueue(h, l)
    <3>1. forwarder[h][l] = "done"
      BY <2>1 DEF Roles
    <3> QED
      BY <2>1, <3>1 DEF Drained
  <2>3. Pending(h, l) = InFetch(h, l) \o queue[h][l]
      BY DEF Pending, InFetch, ItemsOf
  <2>4. EndOf(Pending(h, l), account[h][l]) = EndOfQueue(h, l)
      BY <2>3, Places, EndOfConcat DEF EndOfQueue, EndOfFetching
  <2> QED
      BY <2>2, <2>4 DEF EndOf, Last
<1> QED
    BY <1>1, HandlersInvariant, PTL

\* The forwarder of a listener of the StreamHandler does not panic while the
\* consumer is there: only a closed listener ends its processor early, never
\* what the block stream or the provider reports
\* (block_range_handler.rs:113-129, 136-149).
THEOREM HandlersServeLoyalListeners == Spec => []LoyalListenersAreServed
<1>1. IInv => LoyalListenersAreServed
  <2> SUFFICES ASSUME IInv, NEW l \in present PROVE forwarder["stream"][l] # "panicked"
      BY DEF LoyalListenersAreServed
  <2>1. l \in Listeners /\ "stream" \in Handlers
      BY DEF IInv, TypeOK, Handlers
  <2>2. Roles("stream", l)
      BY <2>1, Places DEF ListenerInv
  <2> QED
      BY <2>1, <2>2 DEF Roles
<1> QED
    BY <1>1, HandlersInvariant, PTL

\* In every step that tells a listener something, that is about the message
\* right after the last one it knows of, be it lost or not: concurrent fetches
\* change no order, nothing is skipped in silence, nothing is told twice
\* (block_range_handler.rs:100-149, 242-350).
THEOREM HandlersLoseNothingSilently == Spec => NothingLostSilently
<1> DEFINE Told ==
        \A h \in Handlers, l \in Listeners : account'[h][l] # account[h][l] =>
            \E i \in DOMAIN fetching[h][l] :
                /\ fetching[h][l][i].item.to = account'[h][l]
                /\ fetching[h][l][i].item.from = account[h][l] + 1
<1>1. IInv /\ Next => Told
  <2> SUFFICES ASSUME IInv, Next, NEW h \in Handlers, NEW l \in Listeners,
                      account'[h][l] # account[h][l]
               PROVE  \E i \in DOMAIN fetching[h][l] :
                        /\ fetching[h][l][i].item.to = account'[h][l]
                        /\ fetching[h][l][i].item.from = account[h][l] + 1
      OBVIOUS
  <2>1. \/ account' = account
        \/ \E k \in Handlers, m \in Listeners : \E i \in Ready(k, m) : Account(k, m, i)
    <3>1. ASSUME Environment PROVE account' = account
      BY <3>1 DEF Environment, Broadcast, BroadcastEnds, ReceiverDropped, taskVars
    <3>2. ASSUME NEW k \in Handlers, NEW m \in Listeners, Forwarding(k, m)
          PROVE  account' = account
      BY <3>2 DEF Forwarding, Receive, ReceiveLagged, ReceiveClosed, Forward, ForwardFindsClosed
    <3>3. ASSUME NEW k \in Handlers, NEW m \in Listeners, Processing(k, m)
          PROVE  account' = account \/ \E i \in Ready(k, m) : Account(k, m, i)
      BY <3>3 DEF Processing, Fetch, Fetched, Absorb, Deliver, DeliverFindsClosed, StreamEnds
    <3>4. ASSUME NEW m \in Listeners, Complete(m) \/ SendCollected(m)
          PROVE  account' = account \/ \E i \in Ready("latest", m) : Account("latest", m, i)
      BY <3>4 DEF Complete, SendCollected
    <3>5. ASSUME NEW k \in Handlers, JoinAll(k) \/ JoinPanics(k) PROVE account' = account
      BY <3>5 DEF JoinAll, JoinPanics, taskVars
    <3>6. ASSUME StartStreaming \/ StartStreamingFails PROVE account' = account
      BY <3>6 DEF StartStreaming, StartStreamingFails, taskVars
    <3>7. "latest" \in Handlers
      BY DEF Handlers
    <3> QED
      BY <3>1, <3>2, <3>3, <3>4, <3>5, <3>6, <3>7 DEF Next, Tasks
  <2>2. PICK k \in Handlers, m \in Listeners : \E i \in Ready(k, m) : Account(k, m, i)
      BY <2>1
  <2>3. PICK i \in Ready(k, m) : Account(k, m, i)
      BY <2>2
  <2>4. /\ i \in DOMAIN fetching[k][m]
        /\ fetching[k][m][i].item.from = account[k][m] + 1
        /\ account'[k][m] = fetching[k][m][i].item.to
        /\ OnlyAt(account, account', 0 .. MaxMessages, k, m)
      BY <2>3, Accounted
  <2>5. k = h /\ m = l
      BY <2>4 DEF OnlyAt
  <2> QED
      BY <2>4, <2>5
<1>2. IInv /\ [Next]_vars => [Told]_vars
    BY <1>1
<1> QED
    BY <1>2, HandlersInvariant, PTL DEF Spec, NothingLostSilently
=============================================================================
