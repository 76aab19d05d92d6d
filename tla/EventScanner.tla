---------------------------- MODULE EventScanner ----------------------------
(***************************************************************************)
(* The way of an event scanner from its builder to its streams, in each of *)
(* the five modes (event_scanner/builder.rs, scanner.rs and modes/; the    *)
(* entries of block_range_scanner/scanner.rs).  The other modules begin    *)
(* where this one ends.                                                    *)
(*                                                                         *)
(*   building -> latest -> from -> to -> connected      historic, latest   *)
(*   building -> from -> connected                      from_block         *)
(*   building -> connected                              live, from_latest  *)
(*   connected -> start -> started                      but from_latest    *)
(*   connected -> tip -> rewind -> handover -> started  from_latest        *)
(*                                                                         *)
(* "failed" is an error returned by connect or start, or, at the handover, *)
(* sent to the listeners.                                                  *)
(***************************************************************************)
EXTENDS Chain, EventFilter

CONSTANT MaxListeners   \* bounds the subscriptions

ASSUME ListenersAssumption == MaxListeners \in Nat

Modes == {"historic", "latest", "live", "from_block", "from_latest"}

VARIABLES
    mode,       \* the type parameter of the builder and the scanner
    config,     \* its parameters
    filter,     \* the EventFilter the client builds for its next subscription
    phase,      \* where the scanner stands
    error,      \* why it failed
    latest,     \* latest_block of connect or start
    accepted,   \* reorgs so far when connect read latest_block
    listeners,  \* how many there are
    first,      \* block number the block stream starts from
    last        \* ... and ends with, when it ends

scannerVars == <<mode, config, filter, phase, error, latest, accepted, listeners, first, last>>
vars == <<chainVars, scannerVars>>

None == -1

\* A BlockId: a number, a tag, or the hash of block b.
NumberId(n) == [kind |-> "number", number |-> n, hash |-> None]
TagId(tag) == [kind |-> tag, number |-> None, hash |-> None]
HashId(b) == [kind |-> "hash", number |-> b.number, hash |-> b.hash]

Tags == {"earliest", "latest", "finalized", "pending"}

\* The ids a client may pass: blocks it has seen, and one number beyond.
Ids == {NumberId(n) : n \in 0 .. MaxHeight + 1} \cup {TagId(tag) : tag \in Tags}
        \cup {HashId(BlockAt(n)) : n \in 0 .. Height}

AnyId == [kind : {"number", "hash"} \cup Tags,
          number : None .. MaxHeight + 1, hash : None .. MaxReorgs]

\* A parameter is zero or it is not.
Parameter == {0, 1}

Config == [count : Parameter, max_concurrent_fetches : Parameter,
           max_block_range : Parameter, buffer_capacity : Parameter,
           from_block : AnyId, to_block : AnyId]

\* The ids of each mode before from_block and to_block are called.
DefaultFrom(m) == IF m = "latest" THEN TagId("latest") ELSE TagId("earliest")
DefaultTo(m) == IF m = "latest" THEN TagId("earliest") ELSE TagId("latest")

\* EventScannerBuilder::historic, latest, live and sync.
Init ==
    /\ ChainInit
    /\ mode \in Modes
    /\ config = [count |-> 1, max_concurrent_fetches |-> 1, max_block_range |-> 1,
                 buffer_capacity |-> 1,
                 from_block |-> DefaultFrom(mode), to_block |-> DefaultTo(mode)]
    /\ filter = NewFilter
    /\ phase = "building" /\ error = "none"
    /\ latest = None /\ accepted = 0 /\ listeners = 0
    /\ first = None /\ last = None

-----------------------------------------------------------------------------
(* The node.  What happens before connect is another initial state. *)

Waiting == phase \notin {"building", "started", "failed"}

NodeMines == Waiting /\ Mine /\ UNCHANGED scannerVars

NodeReorgs(fork, tip) == Waiting /\ Reorg(fork, tip) /\ UNCHANGED scannerVars

NodeFinalizes(n) == Waiting /\ Finalize(n) /\ UNCHANGED scannerVars

\* get_block(id): the numbers it may answer with.  None may come when the node
\* has no such block, and a hash of an abandoned branch may be known or not.
BlockNumbers(id) ==
    {n \in None .. MaxHeight + 1 :
        \/ id.kind = "number" /\ n = IF id.number <= Height THEN id.number ELSE None
        \/ id.kind = "earliest" /\ n = 0
        \/ id.kind = "latest" /\ n = Height
        \/ id.kind = "finalized" /\ n \in {finalized, None}
        \/ id.kind = "pending" /\ n \in {Height + 1, None}
        \/ id.kind = "hash" /\ n = id.number
        \/ id.kind = "hash" /\ n = None
            /\ ~Canonical([number |-> id.number, hash |-> id.hash])}

\* get_block_number_by_id(id): a number stands for itself.
NumbersById(id) == IF id.kind = "number" THEN {id.number} ELSE BlockNumbers(id)

-----------------------------------------------------------------------------
(* The builder. *)

\* The setters of all modes and of the block range scanner; the last call wins.
Set(field, value) ==
    /\ phase = "building"
    /\ config' = [config EXCEPT ![field] = value]
    /\ UNCHANGED <<chainVars, mode, filter, phase, error, latest, accepted, listeners,
                   first, last>>

\* latest(count) and sync().from_latest(count).
Counting == mode \in {"latest", "from_latest"} /\ \E n \in Parameter : Set("count", n)

\* The setter of the event scanner itself.
Fetching == \E n \in Parameter : Set("max_concurrent_fetches", n)

\* The setters that every mode passes on to the block range scanner's builder.
Batching == \E n \in Parameter : Set("max_block_range", n) \/ Set("buffer_capacity", n)

\* The range.
Bounding ==
    \E id \in Ids :
        \/ mode \in {"historic", "latest", "from_block"} /\ Set("from_block", id)
        \/ mode \in {"historic", "latest"} /\ Set("to_block", id)

Configure == Counting \/ Fetching \/ Batching \/ Bounding

-----------------------------------------------------------------------------
(* connect *)

\* The scanner goes on to p, or fails with e.
GoOn(p) == phase' = p /\ UNCHANGED error
FailWith(e) == phase' = "failed" /\ error' = e

\* What connect looks at, in this order, and what it returns for a zero.  The
\* count is the builder's own in historic, live and from_block, and not zero.
Parameters == <<"count", "max_concurrent_fetches", "max_block_range", "buffer_capacity">>
Errors == <<"InvalidEventCount", "InvalidMaxConcurrentFetches", "InvalidMaxBlockRange",
            "InvalidBufferCapacity">>

\* Mistake: the capacity of the channels is not checked.
InvalidButCapacity == {i \in 1 .. 3 : config[Parameters[i]] = 0}

Invalid == {i \in 1 .. 4 : config[Parameters[i]] = 0}

\* The first error is returned before the provider is touched.
ConnectRejects ==
    /\ phase = "building"
    /\ \E i \in Invalid : (\A j \in Invalid : i <= j) /\ FailWith(Errors[i])
    /\ UNCHANGED <<chainVars, mode, config, filter, latest, accepted, listeners, first, last>>

Connect ==
    /\ phase = "building"
    /\ Invalid = {}
    /\ GoOn(IF mode \in {"historic", "latest"} THEN "latest"
            ELSE IF mode = "from_block" /\ config.from_block.kind = "hash" THEN "from"
            ELSE "connected")
    /\ accepted' = reorgs
    /\ UNCHANGED <<chainVars, mode, config, filter, latest, listeners, first, last>>

\* An RPC call of connect or start fails, or the connection does.
RpcFails ==
    /\ phase \in {"building", "latest", "from", "to", "start", "tip", "rewind", "handover"}
    /\ phase = "building" => Invalid = {}
    /\ phase = "from" => config.from_block.kind = "hash"
    /\ phase = "to" => config.to_block.kind = "hash"
    /\ FailWith("RpcError")
    /\ UNCHANGED <<chainVars, mode, config, filter, latest, accepted, listeners, first, last>>

\* historic, latest: get_block_number.
ReadLatest ==
    /\ phase = "latest"
    /\ latest' = Height
    /\ accepted' = reorgs
    /\ GoOn("from")
    /\ UNCHANGED <<chainVars, mode, config, filter, listeners, first, last>>

\* Mistake: a block above the latest one is let through.
ValidateKnown(id, p) ==
    \/ id.kind # "hash" /\ GoOn(p)
    \/ id.kind = "hash" /\ \E n \in BlockNumbers(id) :
            IF n = None THEN FailWith("BlockNotFound") ELSE GoOn(p)

\* Tags count as block 0, but for pending, which is above the latest block.
Validate(id, p) ==
    \/ id.kind = "pending" /\ FailWith("BlockExceedsLatest")
    \/ id.kind \in {"earliest", "latest", "finalized"} /\ GoOn(p)
    \/ id.kind = "number"
        /\ IF id.number > latest THEN FailWith("BlockExceedsLatest") ELSE GoOn(p)
    \/ id.kind = "hash" /\ \E n \in BlockNumbers(id) :
            IF n = None THEN FailWith("BlockNotFound")
            ELSE IF n > latest THEN FailWith("BlockExceedsLatest") ELSE GoOn(p)

\* historic, latest: the ids are validated one after the other.
ValidateIds ==
    /\ mode \in {"historic", "latest"}
    /\ \/ phase = "from" /\ Validate(config.from_block, "to")
       \/ phase = "to" /\ Validate(config.to_block, "connected")
    /\ UNCHANGED <<chainVars, mode, config, filter, latest, accepted, listeners, first, last>>

\* from_block: only a hash is looked up, whatever its number.
ValidateHash ==
    /\ mode = "from_block" /\ phase = "from"
    /\ \E n \in BlockNumbers(config.from_block) :
        IF n = None THEN FailWith("BlockNotFound") ELSE GoOn("connected")
    /\ UNCHANGED <<chainVars, mode, config, filter, latest, accepted, listeners, first, last>>

-----------------------------------------------------------------------------
(* Subscriptions *)

\* The client makes a filter.
RefineFilter ==
    /\ phase = "connected"
    /\ filter' \in Refined(filter)
    /\ UNCHANGED <<chainVars, mode, config, phase, error, latest, accepted, listeners,
                   first, last>>

\* subscribe: a listener with the filter and a channel of its own.
Subscribe ==
    /\ phase = "connected"
    /\ listeners < MaxListeners
    /\ listeners' = listeners + 1
    /\ filter' = NewFilter
    /\ UNCHANGED <<chainVars, mode, config, phase, error, latest, accepted, first, last>>

-----------------------------------------------------------------------------
(* start *)

Start ==
    /\ phase = "connected"
    /\ GoOn(IF mode = "from_latest" THEN "tip" ELSE "start")
    /\ UNCHANGED <<chainVars, mode, config, filter, latest, accepted, listeners, first, last>>

\* stream_historical and stream_rewind fetch both blocks at once; the first
\* error counts.
Fetched(n) == IF n = None THEN FailWith("BlockNotFound") ELSE UNCHANGED <<phase, error>>

FetchStart ==
    /\ phase = "start" /\ mode \in {"historic", "latest"}
    /\ first = None
    /\ \E n \in BlockNumbers(config.from_block) : Fetched(n) /\ first' = n
    /\ UNCHANGED <<chainVars, mode, config, filter, latest, accepted, listeners, last>>

FetchEnd ==
    /\ phase = "start" /\ mode \in {"historic", "latest"}
    /\ last = None
    /\ \E n \in BlockNumbers(config.to_block) : Fetched(n) /\ last' = n
    /\ UNCHANGED <<chainVars, mode, config, filter, latest, accepted, listeners, first>>

\* They are put in order: upwards for a historical stream, downwards for a rewind.
StreamFetched ==
    /\ phase = "start"
    /\ first # None /\ last # None
    /\ GoOn("started")
    /\ IF first = last \/ (mode = "historic") = (first < last)
       THEN UNCHANGED <<first, last>>
       ELSE first' = last /\ last' = first
    /\ UNCHANGED <<chainVars, mode, config, filter, latest, accepted, listeners>>

\* stream_live, for 0 confirmations: after the latest block.
StartLive ==
    /\ phase = "start" /\ mode = "live"
    /\ first' = Height + 1
    /\ GoOn("started")
    /\ UNCHANGED <<chainVars, mode, config, filter, latest, accepted, listeners, last>>

\* stream_from: the streams of Sync, from block n on.
StreamFrom(n) == GoOn("started") /\ first' = n

\* from_block: the number of the block.
StartFrom ==
    /\ phase = "start" /\ mode = "from_block"
    /\ \E n \in NumbersById(config.from_block) :
        IF n = None THEN FailWith("BlockNotFound") /\ UNCHANGED first ELSE StreamFrom(n)
    /\ UNCHANGED <<chainVars, mode, config, filter, latest, accepted, listeners, last>>

\* Mistake: the boundary is the next block.
ReadTipNext ==
    /\ phase = "tip"
    /\ latest' = Height + 1
    /\ GoOn("rewind")
    /\ UNCHANGED <<chainVars, mode, config, filter, accepted, listeners, first, last>>

\* from_latest: the boundary of the two phases.
ReadTip ==
    /\ phase = "tip"
    /\ latest' = Height
    /\ GoOn("rewind")
    /\ UNCHANGED <<chainVars, mode, config, filter, accepted, listeners, first, last>>

\* Mistake: the rewind takes the latest block as it is by then.
StartRewindFromLatest ==
    /\ phase = "rewind"
    /\ last' = Height
    /\ GoOn("handover")
    /\ UNCHANGED <<chainVars, mode, config, filter, latest, accepted, listeners, first>>

\* stream_rewind from the boundary down to the earliest block; start returns.
StartRewind ==
    /\ phase = "rewind"
    /\ IF latest <= Height THEN GoOn("handover") ELSE FailWith("BlockNotFound")
    /\ last' = latest
    /\ UNCHANGED <<chainVars, mode, config, filter, latest, accepted, listeners, first>>

\* Once the logs are collected: stream_from the block after the boundary.
HandOver ==
    /\ phase = "handover"
    /\ StreamFrom(latest + 1)
    /\ UNCHANGED <<chainVars, mode, config, filter, latest, accepted, listeners, last>>

Next ==
    \/ NodeMines
    \/ \E fork, tip \in 0 .. MaxHeight : NodeReorgs(fork, tip)
    \/ \E n \in 1 .. MaxHeight : NodeFinalizes(n)
    \/ Configure
    \/ Connect
    \/ ConnectRejects
    \/ RpcFails
    \/ ReadLatest
    \/ ValidateIds
    \/ ValidateHash
    \/ RefineFilter
    \/ Subscribe
    \/ Start
    \/ FetchStart
    \/ FetchEnd
    \/ StreamFetched
    \/ StartLive
    \/ StartFrom
    \/ ReadTip
    \/ StartRewind
    \/ HandOver

Spec == Init /\ [][Next]_vars

-----------------------------------------------------------------------------

AllErrors == {"none", "RpcError", "BlockNotFound", "BlockExceedsLatest"}
                \cup {Errors[i] : i \in 1 .. 4}

\* Every variable has its type.
TypeOK ==
    /\ ChainTypeOK
    /\ mode \in Modes
    /\ config \in Config
    /\ filter \in Filter
    /\ phase \in {"building", "latest", "from", "to", "connected", "start", "tip",
                  "rewind", "handover", "started", "failed"}
    /\ error \in AllErrors
    /\ latest \in None .. MaxHeight /\ accepted \in 0 .. MaxReorgs
    /\ listeners \in 0 .. MaxListeners
    /\ first \in None .. MaxHeight + 1 /\ last \in None .. MaxHeight + 1

\* No scanner that connects, in any mode, makes a channel without capacity
\* (which panics), fetches nothing at once (which never ends), cuts a range into
\* batches of no blocks, or collects no logs (builder.rs, modes/*, connect).
NothingIsZero ==
    phase \in {"connected", "started"} =>
        \A i \in 1 .. 4 : config[Parameters[i]] > 0

\* What connect accepted, start finds: a range given by numbers is only missed
\* when the chain was reorganised since connect read the latest block
\* (modes/historic.rs:90-132, modes/latest.rs:101-143).
AcceptedIdsResolve ==
    /\ error = "BlockNotFound" /\ mode \in {"historic", "latest"}
    /\ config.from_block.kind \in {"number", "earliest", "latest"}
    /\ config.to_block.kind \in {"number", "earliest", "latest"}
    => reorgs > accepted

\* The two phases of from_latest meet: the second begins right after the block
\* the first rewinds from, however the chain moves between the two
\* (modes/sync/from_latest.rs:104-151).
PhasesMeet ==
    mode = "from_latest" /\ phase = "started" => first = last + 1

\* Calls of the filter builder add up: the first one that restricts addresses or
\* events takes logs away, every later one can only let more of them through
\* (filter.rs:87-169).
LaterCallsWiden ==
    [][/\ filter.contract_addresses # {} \/ filter'.contract_addresses = {}
       /\ AllEvents(filter) # {} \/ AllEvents(filter') = {}
       /\ listeners' = listeners
       => Selected(filter) \subseteq Selected(filter')]_vars
=============================================================================
