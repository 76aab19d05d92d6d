------------------------ MODULE EventScanner_proofs ------------------------
(***************************************************************************)
(* The way of an event scanner to its streams, for every chain, every      *)
(* block id, every set of addresses and events and any number of           *)
(* listeners.                                                              *)
(*                                                                         *)
(* What connect validated once is used by start much later, after any      *)
(* number of blocks and reorgs.  The inductive invariant carries the facts *)
(* across: no parameter is zero once connect went on (ParametersHold), the *)
(* ids stay at or below the latest block that connect read (IdsHold),      *)
(* which the chain still has unless it was reorganised (LatestHolds), and  *)
(* the boundary of the sync phases does not move (BoundaryHolds).          *)
(***************************************************************************)
EXTENDS EventScanner, BlockLemmas

\* A number that the client gives is a block number.
WellFormed(id) == id \in AnyId /\ (id.kind \in {"number", "hash"} => id.number \in 0 .. MaxHeight + 1)

\* Which modes get to which phase.
PhasesHold ==
    /\ mode \in Modes
    /\ phase \in {"building", "latest", "from", "to", "connected", "start", "tip",
                  "rewind", "handover", "started", "failed"}
    /\ phase \in {"latest", "to"} => mode \in {"historic", "latest"}
    /\ phase = "from" => mode \in {"historic", "latest", "from_block"}
    /\ phase = "start" => mode # "from_latest"
    /\ phase \in {"tip", "rewind", "handover"} => mode = "from_latest"

ParametersHold == phase \notin {"building", "failed"} => Invalid = {}

ConfigHolds ==
    /\ config \in Config
    /\ WellFormed(config.from_block) /\ WellFormed(config.to_block)

\* The phases between connect's look at the latest block and the streams.
Relying == mode \in {"historic", "latest"} /\ phase \in {"from", "to", "connected", "start"}

IdsHold ==
    Relying =>
        /\ phase # "from" /\ config.from_block.kind = "number"
                => config.from_block.number <= latest
        /\ phase \notin {"from", "to"} /\ config.to_block.kind = "number"
                => config.to_block.number <= latest

LatestHolds ==
    Relying => reorgs >= accepted /\ (reorgs = accepted => latest <= Height)

ErrorsHold ==
    /\ phase # "failed" => error = "none"
    /\ AcceptedIdsResolve

BoundaryHolds ==
    mode = "from_latest" =>
        /\ phase = "handover" => last = latest
        /\ phase = "started" => first = last + 1

NumbersHold ==
    /\ latest \in None .. MaxHeight /\ accepted \in 0 .. MaxReorgs
    /\ listeners \in 0 .. MaxListeners
    /\ first \in None .. MaxHeight + 1 /\ last \in None .. MaxHeight + 1

\* The inductive invariant.
IInv ==
    /\ ChainTypeOK
    /\ PhasesHold
    /\ ParametersHold
    /\ ConfigHolds
    /\ IdsHold
    /\ LatestHolds
    /\ ErrorsHold
    /\ BoundaryHolds
    /\ NumbersHold

-----------------------------------------------------------------------------

\* The sizes the facts below are about.
LEMMA Sizes ==
    ASSUME ChainTypeOK
    PROVE  /\ MaxHeight \in Nat /\ MaxReorgs \in Nat /\ MaxListeners \in Nat
           /\ Height \in Nat /\ Height <= MaxHeight /\ finalized \in 0 .. Height
           /\ reorgs \in 0 .. MaxReorgs
BY ChainAssumption, ListenersAssumption, LenProperties DEF ChainTypeOK, Height

\* A number, if the node answers: historical ids of blocks the node has are
\* found (get_block).
LEMMA BlockNumbersTypes ==
    ASSUME ChainTypeOK, NEW id, WellFormed(id), NEW n \in BlockNumbers(id)
    PROVE  /\ n \in None .. MaxHeight + 1
           /\ id.kind \in {"earliest", "latest"} => n # None
           /\ id.kind = "number" /\ id.number <= Height => n # None
<1>1. id.kind \in {"number", "hash", "earliest", "latest", "finalized", "pending"}
    BY DEF WellFormed, AnyId, Tags
<1>2. CASE id.kind = "number"
    BY <1>2, Sizes DEF BlockNumbers, WellFormed, None
<1>3. CASE id.kind = "hash"
    BY <1>3, Sizes DEF BlockNumbers, WellFormed, None
<1>4. CASE id.kind \in {"earliest", "latest", "finalized", "pending"}
    BY <1>4, Sizes DEF BlockNumbers, None
<1> QED
    BY <1>1, <1>2, <1>3, <1>4

\* The ids a client may pass are well formed.
LEMMA IdsWellFormed ==
    ASSUME ChainTypeOK, NEW id \in Ids
    PROVE  WellFormed(id)
<1>1. CASE \E n \in 0 .. MaxHeight + 1 : id = NumberId(n)
    BY <1>1, Sizes DEF NumberId, WellFormed, AnyId, None
<1>2. CASE \E tag \in Tags : id = TagId(tag)
    BY <1>2, Sizes DEF TagId, WellFormed, AnyId, Tags, None
<1>3. CASE \E n \in 0 .. Height : id = HashId(BlockAt(n))
  <2>1. PICK n \in 0 .. Height : id = HashId(BlockAt(n))
    BY <1>3
  <2>2. BlockAt(n) \in Block
    BY BlockAtType
  <2> QED
    BY <2>1, <2>2, Sizes DEF HashId, Block, WellFormed, AnyId, None
<1> QED
    BY <1>1, <1>2, <1>3 DEF Ids

\* The node moves only while the scanner waits; without a reorg it keeps its
\* blocks.
LEMMA NodeInv ==
    ASSUME IInv,
           NodeMines \/ (\E fork, tip \in 0 .. MaxHeight : NodeReorgs(fork, tip))
           \/ (\E n \in 1 .. MaxHeight : NodeFinalizes(n))
    PROVE  IInv'
<1>1. UNCHANGED scannerVars /\ Waiting
    BY DEF NodeMines, NodeReorgs, NodeFinalizes
<1>2. ChainTypeOK'
    BY MineTypes, ReorgTypes, FinalizeTypes
    DEF IInv, NodeMines, NodeReorgs, NodeFinalizes
<1>3. (reorgs' = reorgs /\ Height' >= Height) \/ reorgs' = reorgs + 1
  <2>1. CASE NodeMines
    <3>1. chain \in Seq(0 .. MaxReorgs) /\ chain' = Append(chain, reorgs) /\ reorgs' = reorgs
      BY <2>1 DEF NodeMines, Mine, IInv, ChainTypeOK
    <3>2. Len(Append(chain, reorgs)) = Len(chain) + 1 /\ Len(chain) \in Nat
      BY <3>1, AppendProperties, LenProperties DEF IInv, ChainTypeOK
    <3> QED
      BY <3>1, <3>2 DEF Height
  <2>2. CASE \E fork, tip \in 0 .. MaxHeight : NodeReorgs(fork, tip)
    BY <2>2 DEF NodeReorgs, Reorg
  <2>3. CASE \E n \in 1 .. MaxHeight : NodeFinalizes(n)
    BY <2>3, Sizes DEF NodeFinalizes, Finalize, Height, IInv
  <2> QED
    BY <2>1, <2>2, <2>3
<1>4. LatestHolds'
  <2>1. LatestHolds
    BY DEF IInv
  <2>2. Relying' = Relying /\ accepted' = accepted /\ latest' = latest
    BY <1>1 DEF Relying, scannerVars
  <2>3. /\ reorgs \in Int /\ reorgs' \in Int /\ accepted \in Int /\ latest \in Int
        /\ Height \in Int
    BY <1>3, Sizes DEF IInv, NumbersHold, None
  <2>4. Height' \in Int
    BY <1>2, LenProperties DEF ChainTypeOK, Height
  <2> QED
    BY <1>3, <2>1, <2>2, <2>3, <2>4 DEF LatestHolds
<1>5. ErrorsHold'
    BY <1>1 DEF IInv, ErrorsHold, AcceptedIdsResolve, Waiting, scannerVars
<1>6. PhasesHold' /\ ParametersHold' /\ ConfigHolds' /\ IdsHold' /\ BoundaryHolds' /\ NumbersHold'
    BY <1>1
    DEF IInv, PhasesHold, ParametersHold, Invalid, ConfigHolds, WellFormed, IdsHold, Relying,
        BoundaryHolds, NumbersHold, scannerVars
<1> QED
    BY <1>2, <1>4, <1>5, <1>6 DEF IInv

-----------------------------------------------------------------------------

\* The setters of the builders (builder.rs, modes/).
LEMMA ConfigureInv == ASSUME IInv, Configure PROVE IInv'
<1>1. PICK field, value :
        /\ Set(field, value)
        /\ \/ field \in {"count", "max_concurrent_fetches", "max_block_range",
                         "buffer_capacity"} /\ value \in Parameter
           \/ field \in {"from_block", "to_block"} /\ value \in Ids
    BY DEF Configure, Counting, Fetching, Batching, Bounding
<1>2. /\ phase = "building" /\ phase' = "building" /\ error' = error
      /\ config' = [config EXCEPT ![field] = value]
      /\ UNCHANGED <<chainVars, mode, latest, accepted, listeners, first, last>>
    BY <1>1 DEF Set
<1>3. value \in Ids => WellFormed(value) /\ value \in AnyId
    BY IdsWellFormed DEF IInv, WellFormed
<1>4. ConfigHolds'
    BY <1>1, <1>2, <1>3 DEF IInv, ConfigHolds, Config, WellFormed
<1>5. error = "none"
    BY <1>2 DEF IInv, ErrorsHold
<1>6. ErrorsHold'
    BY <1>2, <1>5 DEF ErrorsHold, AcceptedIdsResolve
<1> QED
    BY <1>2, <1>4, <1>6
    DEF IInv, chainVars, ChainTypeOK, Height, PhasesHold, ParametersHold, IdsHold, LatestHolds,
        Relying, BoundaryHolds, NumbersHold

\* connect, as far as it does not look at a block.
LEMMA ConnectInv ==
    ASSUME IInv, Connect \/ ConnectRejects \/ RpcFails \/ ReadLatest
    PROVE  IInv'
<1>1. UNCHANGED <<chainVars, mode, config, listeners, first, last>>
    BY DEF Connect, ConnectRejects, RpcFails, ReadLatest
<1>2. ChainTypeOK' /\ ConfigHolds'
    BY <1>1 DEF IInv, chainVars, ChainTypeOK, Height, ConfigHolds, WellFormed
<1>3. NumbersHold'
    BY <1>1, Sizes DEF IInv, NumbersHold, Connect, ConnectRejects, RpcFails, ReadLatest, None
<1>4. CASE ConnectRejects \/ RpcFails
  <2>1. phase' = "failed" /\ error' # "BlockNotFound"
    <3>1. CASE ConnectRejects
      <4>1. PICK i \in 1 .. 4 : phase' = "failed" /\ error' = Errors[i]
        BY <3>1 DEF ConnectRejects, Invalid, FailWith
      <4>2. i = 1 \/ i = 2 \/ i = 3 \/ i = 4
        OBVIOUS
      <4> QED
        BY <4>1, <4>2 DEF Errors
    <3>2. CASE RpcFails
      BY <3>2 DEF RpcFails, FailWith
    <3> QED
      BY <1>4, <3>1, <3>2
  <2>2. ErrorsHold'
    BY <2>1 DEF ErrorsHold, AcceptedIdsResolve
  <2> QED
    BY <1>1, <1>2, <1>3, <2>1, <2>2
    DEF IInv, PhasesHold, ParametersHold, IdsHold, LatestHolds, Relying, BoundaryHolds
<1>5. CASE Connect
  <2>1. /\ phase' \in {"latest", "from", "connected"} /\ error' = error
        /\ phase' = "latest" <=> mode \in {"historic", "latest"}
        /\ phase' = "from" => mode = "from_block"
    BY <1>5 DEF Connect, GoOn
  <2>2. error = "none"
    BY <1>5 DEF Connect, IInv, ErrorsHold
  <2>3. ErrorsHold'
    BY <2>1, <2>2 DEF ErrorsHold, AcceptedIdsResolve
  <2>4. ParametersHold'
    BY <1>1, <1>5 DEF Connect, ParametersHold, Invalid
  <2> QED
    BY <1>1, <1>2, <1>3, <2>1, <2>3, <2>4
    DEF IInv, PhasesHold, IdsHold, LatestHolds, Relying, BoundaryHolds
<1>6. CASE ReadLatest
  <2>1. /\ phase = "latest" /\ phase' = "from" /\ error' = error
        /\ latest' = Height /\ accepted' = reorgs
    BY <1>6 DEF ReadLatest, GoOn
  <2>2. error = "none"
    BY <2>1 DEF IInv, ErrorsHold
  <2>3. ErrorsHold'
    BY <2>1, <2>2 DEF ErrorsHold, AcceptedIdsResolve
  <2>4. ParametersHold'
    BY <1>1, <2>1 DEF IInv, ParametersHold, Invalid
  <2>5. LatestHolds'
    BY <1>1, <2>1, Sizes DEF IInv, LatestHolds, chainVars, Height
  <2> QED
    BY <1>1, <1>2, <1>3, <2>1, <2>3, <2>4, <2>5
    DEF IInv, PhasesHold, IdsHold, Relying, BoundaryHolds
<1> QED
    BY <1>4, <1>5, <1>6

\* What validate_block_id lets through is at or below the latest block
\* (modes/historic.rs:90-132, modes/latest.rs:101-143).
LEMMA ValidateLets ==
    ASSUME NEW id, NEW p, Validate(id, p), error = "none", p # "failed"
    PROVE  \/ /\ phase' = p /\ error' = "none"
              /\ id.kind = "number" => ~(id.number > latest)
           \/ /\ phase' = "failed"
              /\ error' = "BlockNotFound" => id.kind = "hash"
BY DEF Validate, GoOn, FailWith

\* What a validation that succeeded says of the id.
LEMMA ValidateInv ==
    ASSUME IInv, ValidateIds \/ ValidateHash
    PROVE  IInv'
<1>1. /\ UNCHANGED <<chainVars, mode, config, latest, accepted, listeners, first, last>>
      /\ phase \in {"from", "to"}
    BY DEF ValidateIds, ValidateHash
<1>2. error = "none"
    BY <1>1 DEF IInv, ErrorsHold
<1>3. ChainTypeOK' /\ ConfigHolds' /\ NumbersHold' /\ Invalid = {}
    BY <1>1
    DEF IInv, chainVars, ChainTypeOK, Height, ConfigHolds, WellFormed, NumbersHold,
        ParametersHold
<1>4. LatestHolds
    BY DEF IInv
<1>5. CASE ValidateIds /\ phase = "from"
  <2>1. mode \in {"historic", "latest"} /\ Validate(config.from_block, "to")
    BY <1>5 DEF ValidateIds
  <2>2. \/ /\ phase' = "to" /\ error' = "none"
           /\ config.from_block.kind = "number" => ~(config.from_block.number > latest)
        \/ /\ phase' = "failed"
           /\ error' = "BlockNotFound" => config.from_block.kind = "hash"
    BY <1>2, <2>1, ValidateLets
  <2>3. ErrorsHold' /\ IdsHold' /\ LatestHolds'
    BY <1>1, <1>3, <1>4, <1>5, <2>1, <2>2
    DEF ErrorsHold, AcceptedIdsResolve, IdsHold, LatestHolds, Relying, chainVars, Height,
        ConfigHolds, WellFormed, NumbersHold, None
  <2> QED
    BY <1>1, <1>3, <2>1, <2>2, <2>3
    DEF IInv, PhasesHold, ParametersHold, Invalid, BoundaryHolds
<1>6. CASE ValidateIds /\ phase = "to"
  <2>1. mode \in {"historic", "latest"} /\ Validate(config.to_block, "connected")
    BY <1>6 DEF ValidateIds
  <2>2. \/ /\ phase' = "connected" /\ error' = "none"
           /\ config.to_block.kind = "number" => ~(config.to_block.number > latest)
        \/ /\ phase' = "failed"
           /\ error' = "BlockNotFound" => config.to_block.kind = "hash"
    BY <1>2, <2>1, ValidateLets
  <2>3. ErrorsHold' /\ IdsHold' /\ LatestHolds'
    BY <1>1, <1>3, <1>4, <1>6, <2>1, <2>2
    DEF IInv, ErrorsHold, AcceptedIdsResolve, IdsHold, LatestHolds, Relying, chainVars, Height,
        ConfigHolds, WellFormed, NumbersHold, None
  <2> QED
    BY <1>1, <1>3, <2>1, <2>2, <2>3
    DEF IInv, PhasesHold, ParametersHold, Invalid, BoundaryHolds
<1>7. CASE ValidateHash
  <2>1. mode = "from_block" /\ mode' = "from_block"
        /\ (phase' = "failed" \/ (phase' = "connected" /\ error' = "none"))
    BY <1>1, <1>2, <1>7 DEF ValidateHash, GoOn, FailWith
  <2>2. ErrorsHold'
    BY <2>1 DEF ErrorsHold, AcceptedIdsResolve
  <2> QED
    BY <1>1, <1>3, <2>1, <2>2
    DEF IInv, PhasesHold, ParametersHold, Invalid, IdsHold, LatestHolds, Relying, BoundaryHolds
<1> QED
    BY <1>1, <1>5, <1>6, <1>7 DEF ValidateIds

-----------------------------------------------------------------------------

\* Subscriptions.
LEMMA SubscribeInv ==
    ASSUME IInv, RefineFilter \/ Subscribe
    PROVE  IInv'
<1>1. UNCHANGED <<chainVars, mode, config, phase, error, latest, accepted, first, last>>
    BY DEF RefineFilter, Subscribe
<1>2. listeners' \in 0 .. MaxListeners
    BY Sizes DEF IInv, NumbersHold, RefineFilter, Subscribe
<1> QED
    BY <1>1, <1>2
    DEF IInv, chainVars, ChainTypeOK, Height, PhasesHold, ParametersHold, Invalid, ConfigHolds,
        WellFormed, IdsHold, LatestHolds, Relying, ErrorsHold, AcceptedIdsResolve,
        BoundaryHolds, NumbersHold

\* start of the modes with a range: the ids that connect let through are there.
LEMMA FetchInv ==
    ASSUME IInv, FetchStart \/ FetchEnd
    PROVE  IInv'
<1>1. /\ UNCHANGED <<chainVars, mode, config, latest, accepted, listeners>>
      /\ phase = "start" /\ mode \in {"historic", "latest"}
    BY DEF FetchStart, FetchEnd
<1>2. error = "none" /\ Relying /\ Invalid = {}
    BY <1>1 DEF IInv, ErrorsHold, Relying, ParametersHold
<1>3. ChainTypeOK' /\ ConfigHolds'
    BY <1>1 DEF IInv, chainVars, ChainTypeOK, Height, ConfigHolds, WellFormed
<1>4. PICK id \in {config.from_block, config.to_block} :
        \E n \in BlockNumbers(id) :
            /\ Fetched(n)
            /\ \/ first' = n /\ last' = last
               \/ last' = n /\ first' = first
    BY DEF FetchStart, FetchEnd
<1>5. PICK n \in BlockNumbers(id) :
        /\ Fetched(n)
        /\ \/ first' = n /\ last' = last
           \/ last' = n /\ first' = first
    BY <1>4
<1>6. WellFormed(id)
    BY DEF IInv, ConfigHolds
<1>7. NumbersHold'
    BY <1>1, <1>5, <1>6, BlockNumbersTypes DEF IInv, NumbersHold
<1>8. n = None /\ id.kind \in {"number", "earliest", "latest"} => reorgs > accepted
  <2> SUFFICES ASSUME n = None, id.kind \in {"number", "earliest", "latest"}
               PROVE  reorgs > accepted
      OBVIOUS
  <2>1. id.kind = "number" /\ ~(id.number <= Height)
    BY <1>6, BlockNumbersTypes DEF IInv
  <2>2. id.number <= latest
    BY <1>1, <1>2, <2>1 DEF IInv, IdsHold
  <2>3. id.number \in Nat
    BY <1>6, <2>1, Sizes DEF WellFormed, IInv
  <2>4. latest \in Int /\ accepted \in Nat /\ Height \in Nat /\ reorgs \in Nat
    BY Sizes DEF IInv, NumbersHold, None
  <2>5. reorgs >= accepted /\ (reorgs = accepted => latest <= Height)
    BY <1>2 DEF IInv, LatestHolds
  <2> QED
    BY <2>1, <2>2, <2>3, <2>4, <2>5
<1>9. CASE n = None
  <2>1. phase' = "failed"
    BY <1>5, <1>9 DEF Fetched, FailWith
  <2>2. AcceptedIdsResolve'
    BY <1>1, <1>8, <1>9 DEF AcceptedIdsResolve, chainVars
  <2> QED
    BY <1>1, <1>3, <1>7, <2>1, <2>2
    DEF IInv, PhasesHold, ParametersHold, IdsHold, LatestHolds, Relying, ErrorsHold,
        BoundaryHolds
<1>10. CASE n # None
  <2>1. phase' = phase /\ error' = error
    BY <1>5, <1>10 DEF Fetched
  <2> QED
    BY <1>1, <1>2, <1>3, <1>7, <2>1
    DEF IInv, PhasesHold, ParametersHold, Invalid, IdsHold, LatestHolds, Relying, ErrorsHold,
        AcceptedIdsResolve, BoundaryHolds, chainVars, Height
<1> QED
    BY <1>9, <1>10

\* start, up to the streams.
LEMMA StartInv ==
    ASSUME IInv, Start \/ StreamFetched \/ StartLive \/ StartFrom
    PROVE  IInv'
<1>1. /\ UNCHANGED <<chainVars, mode, config, latest, accepted, listeners>>
      /\ phase \in {"connected", "start"}
    BY DEF Start, StreamFetched, StartLive, StartFrom
<1>2. error = "none" /\ Invalid = {}
    BY <1>1 DEF IInv, ErrorsHold, ParametersHold
<1>3. ChainTypeOK' /\ ConfigHolds'
    BY <1>1 DEF IInv, chainVars, ChainTypeOK, Height, ConfigHolds, WellFormed
<1>4. CASE Start
  <2>1. /\ phase' = IF mode = "from_latest" THEN "tip" ELSE "start"
        /\ error' = error /\ first' = first /\ last' = last /\ phase = "connected"
    BY <1>4 DEF Start, GoOn
  <2> QED
    BY <1>1, <1>2, <1>3, <2>1
    DEF IInv, PhasesHold, ParametersHold, Invalid, IdsHold, LatestHolds, Relying, ErrorsHold,
        AcceptedIdsResolve, BoundaryHolds, NumbersHold, chainVars, Height
<1>5. CASE StreamFetched \/ StartLive \/ StartFrom
  <2>1. mode # "from_latest" /\ phase = "start"
    BY <1>5 DEF IInv, PhasesHold, StreamFetched, StartLive, StartFrom
  <2>2. first' \in None .. MaxHeight + 1 /\ last' \in None .. MaxHeight + 1
    <3>1. CASE StreamFetched
      BY <3>1 DEF StreamFetched, IInv, NumbersHold
    <3>2. CASE StartLive
      BY <3>2, Sizes DEF StartLive, IInv, NumbersHold, None
    <3>3. CASE StartFrom
      <4>1. PICK n \in NumbersById(config.from_block) :
              /\ n = None => first' = first
              /\ n # None => first' = n
        BY <3>3 DEF StartFrom, StreamFrom
      <4>2. WellFormed(config.from_block)
        BY DEF IInv, ConfigHolds
      <4>3. n \in None .. MaxHeight + 1
        BY <4>1, <4>2, BlockNumbersTypes, Sizes DEF NumbersById, IInv, WellFormed, None
      <4> QED
        BY <3>3, <4>1, <4>3 DEF StartFrom, IInv, NumbersHold
    <3> QED
      BY <1>5, <3>1, <3>2, <3>3
  <2>3. \/ phase' = "started" /\ error' = "none"
        \/ phase' = "failed" /\ mode = "from_block"
    BY <1>2, <1>5 DEF StreamFetched, StartLive, StartFrom, StreamFrom, GoOn, FailWith
  <2>4. ErrorsHold'
    BY <1>1, <2>3 DEF ErrorsHold, AcceptedIdsResolve
  <2> QED
    BY <1>1, <1>2, <1>3, <2>1, <2>2, <2>3, <2>4
    DEF IInv, PhasesHold, ParametersHold, Invalid, IdsHold, LatestHolds, Relying,
        BoundaryHolds, NumbersHold
<1> QED
    BY <1>4, <1>5

\* The two phases of from_latest (modes/sync/from_latest.rs:104-151).
LEMMA FromLatestInv ==
    ASSUME IInv, ReadTip \/ StartRewind \/ HandOver
    PROVE  IInv'
<1>1. /\ UNCHANGED <<chainVars, mode, config, accepted, listeners>>
      /\ phase \in {"tip", "rewind", "handover"} /\ mode = "from_latest"
    BY DEF ReadTip, StartRewind, HandOver, IInv, PhasesHold
<1>2. error = "none" /\ Invalid = {}
    BY <1>1 DEF IInv, ErrorsHold, ParametersHold
<1>3. ChainTypeOK' /\ ConfigHolds'
    BY <1>1 DEF IInv, chainVars, ChainTypeOK, Height, ConfigHolds, WellFormed
<1>4. AcceptedIdsResolve'
    BY <1>1 DEF AcceptedIdsResolve
<1>5. /\ phase' \in {"rewind", "handover", "started", "failed"}
      /\ phase' # "failed" => error' = "none"
    BY <1>2 DEF ReadTip, StartRewind, HandOver, StreamFrom, GoOn, FailWith
<1>6. NumbersHold'
    BY <1>1, Sizes DEF ReadTip, StartRewind, HandOver, StreamFrom, IInv, NumbersHold, None
<1>7. BoundaryHolds'
  <2>1. CASE ReadTip
    BY <2>1 DEF ReadTip, GoOn, BoundaryHolds
  <2>2. CASE StartRewind
    BY <2>2 DEF StartRewind, GoOn, FailWith, BoundaryHolds
  <2>3. CASE HandOver
    BY <1>1, <2>3 DEF HandOver, StreamFrom, GoOn, IInv, BoundaryHolds
  <2> QED
    BY <2>1, <2>2, <2>3
<1> QED
    BY <1>1, <1>2, <1>3, <1>4, <1>5, <1>6, <1>7
    DEF IInv, PhasesHold, ParametersHold, Invalid, IdsHold, LatestHolds, Relying, ErrorsHold

-----------------------------------------------------------------------------

\* IInv is an invariant of the scanner.
THEOREM ScannerInvariant == Spec => []IInv
<1>1. Init => IInv
  <2> SUFFICES ASSUME Init PROVE IInv
      OBVIOUS
  <2>1. ChainTypeOK
    BY ChainInitTypes DEF Init
  <2>2. ConfigHolds
    <3>1. /\ config = [count |-> 1, max_concurrent_fetches |-> 1, max_block_range |-> 1,
                       buffer_capacity |-> 1,
                       from_block |-> DefaultFrom(mode), to_block |-> DefaultTo(mode)]
      BY DEF Init
    <3>2. WellFormed(DefaultFrom(mode)) /\ WellFormed(DefaultTo(mode))
      <4>1. \A tag \in Tags : TagId(tag) \in Ids
        BY DEF Ids
      <4> QED
        BY <2>1, <4>1, IdsWellFormed DEF DefaultFrom, DefaultTo, Tags
    <3>3. DefaultFrom(mode) \in AnyId /\ DefaultTo(mode) \in AnyId
      BY <3>2 DEF WellFormed
    <3> QED
      BY <3>1, <3>2, <3>3 DEF ConfigHolds, Config, Parameter
  <2>3. NumbersHold
    BY <2>1, Sizes DEF Init, NumbersHold, None
  <2> QED
    BY <2>1, <2>2, <2>3
    DEF Init, IInv, PhasesHold, ParametersHold, IdsHold, LatestHolds, Relying, ErrorsHold,
        AcceptedIdsResolve, BoundaryHolds
<1>2. IInv /\ [Next]_vars => IInv'
  <2> SUFFICES ASSUME IInv, [Next]_vars PROVE IInv'
      OBVIOUS
  <2>1. CASE Next
    BY <2>1, NodeInv, ConfigureInv, ConnectInv, ValidateInv, SubscribeInv, FetchInv, StartInv,
       FromLatestInv
    DEF Next
  <2>2. CASE UNCHANGED vars
    BY <2>2
    DEF vars, scannerVars, IInv, chainVars, ChainTypeOK, Height, PhasesHold, ParametersHold,
        Invalid, ConfigHolds, WellFormed, IdsHold, LatestHolds, Relying, ErrorsHold,
        AcceptedIdsResolve, BoundaryHolds, NumbersHold
  <2> QED
    BY <2>1, <2>2
<1> QED
    BY <1>1, <1>2, PTL DEF Spec

\* No scanner that connects makes a channel without capacity, fetches nothing
\* at once, cuts a range into batches of no blocks or collects no logs, in
\* whatever order its parameters were set (builder.rs, modes/*, connect).
THEOREM ScannerNothingIsZero == Spec => []NothingIsZero
<1>1. IInv => NothingIsZero
  <2> SUFFICES ASSUME IInv, phase \in {"connected", "started"}, NEW i \in 1 .. 4
               PROVE  config[Parameters[i]] > 0
      BY DEF NothingIsZero
  <2>1. config[Parameters[i]] # 0
    BY DEF IInv, ParametersHold, Invalid
  <2>2. i = 1 \/ i = 2 \/ i = 3 \/ i = 4
    OBVIOUS
  <2>3. config[Parameters[i]] \in {0, 1}
    BY <2>2 DEF IInv, ConfigHolds, Config, Parameter, Parameters
  <2> QED
    BY <2>1, <2>3
<1> QED
    BY <1>1, ScannerInvariant, PTL

\* A range given by numbers that connect accepted is there when start looks for
\* it, on every chain that was not reorganised in between
\* (modes/historic.rs:90-132, modes/latest.rs:101-143).
THEOREM ScannerAcceptedIdsResolve == Spec => []AcceptedIdsResolve
<1>1. IInv => AcceptedIdsResolve
    BY DEF IInv, ErrorsHold
<1> QED
    BY <1>1, ScannerInvariant, PTL

\* The live phase of from_latest begins right after the block that the rewind
\* phase began with, however far the chain moved in between
\* (modes/sync/from_latest.rs:104-151).
THEOREM ScannerPhasesMeet == Spec => []PhasesMeet
<1>1. IInv => PhasesMeet
    BY DEF IInv, BoundaryHolds, PhasesMeet
<1> QED
    BY <1>1, ScannerInvariant, PTL

-----------------------------------------------------------------------------

\* A call of the filter builder returns a filter, and adds to it (filter.rs).
LEMMA RefinedGrows ==
    ASSUME filter \in Filter, NEW f \in Refined(filter)
    PROVE  /\ f \in Filter
           /\ filter.contract_addresses \subseteq f.contract_addresses
           /\ AllEvents(filter) \subseteq AllEvents(f)
<1>1. /\ filter = [contract_addresses |-> filter.contract_addresses,
                   events |-> filter.events, event_signatures |-> filter.event_signatures]
      /\ filter.contract_addresses \subseteq Addresses
      /\ filter.events \subseteq Names \cup {EmptyName}
      /\ filter.event_signatures \subseteq Hashes
    BY DEF Filter
<1>2. CASE \E addresses \in SUBSET Addresses : f = WithAddresses(filter, addresses)
    BY <1>1, <1>2 DEF WithAddresses, Filter, AllEvents
<1>3. CASE \E name \in Names \cup {EmptyName} : f = WithEvent(filter, name)
    BY <1>1, <1>3 DEF WithEvent, Filter, AllEvents
<1>4. CASE \E names \in SUBSET (Names \cup {EmptyName}) : f = WithEvents(filter, names)
    BY <1>1, <1>4 DEF WithEvents, Filter, AllEvents
<1>5. CASE \E topic \in SUBSET Hashes : f = WithSignatures(filter, topic)
    BY <1>1, <1>5 DEF WithSignatures, Filter, AllEvents
<1> QED
    BY <1>2, <1>3, <1>4, <1>5 DEF Refined

\* A filter that restricts nothing new selects no fewer logs.
LEMMA GrowingWidens ==
    ASSUME NEW f, NEW g,
           f.contract_addresses \subseteq g.contract_addresses,
           AllEvents(f) \subseteq AllEvents(g),
           f.contract_addresses # {} \/ g.contract_addresses = {},
           AllEvents(f) # {} \/ AllEvents(g) = {}
    PROVE  Selected(f) \subseteq Selected(g)
BY DEF Selected

\* The filter is touched by the client's calls alone.
LEMMA FilterSteps ==
    ASSUME [Next]_vars
    PROVE  \/ filter' = filter
           \/ filter' \in Refined(filter)
           \/ filter' = NewFilter /\ listeners' = listeners + 1
BY DEF Next, vars, scannerVars, NodeMines, NodeReorgs, NodeFinalizes, Configure, Counting,
       Fetching, Batching, Bounding, Set, Connect, ConnectRejects, RpcFails, ReadLatest,
       ValidateIds, ValidateHash, RefineFilter, Subscribe, Start, FetchStart, FetchEnd,
       StreamFetched, StartLive, StartFrom, ReadTip, StartRewind, HandOver

\* The filter is always one.
FilterHolds == filter \in Filter

\* No call of the filter builder leaves the filters.
LEMMA FilterInvariant == Spec => []FilterHolds
<1>1. NewFilter \in Filter
    BY DEF NewFilter, Filter
<1>2. Init => FilterHolds
    BY <1>1 DEF Init, FilterHolds
<1>3. FilterHolds /\ [Next]_vars => FilterHolds'
    BY <1>1, FilterSteps, RefinedGrows DEF FilterHolds
<1> QED
    BY <1>2, <1>3, PTL DEF Spec

\* Later calls of the filter builder never take logs away that an earlier call
\* had let through, unless they are the first to restrict the addresses or the
\* events (filter.rs:87-169).
THEOREM ScannerLaterCallsWiden == Spec => LaterCallsWiden
<1> DEFINE Widens ==
        /\ filter.contract_addresses # {} \/ filter'.contract_addresses = {}
        /\ AllEvents(filter) # {} \/ AllEvents(filter') = {}
        /\ listeners' = listeners
        => Selected(filter) \subseteq Selected(filter')
<1>1. IInv /\ FilterHolds /\ [Next]_vars => [Widens]_vars
  <2> SUFFICES ASSUME IInv, FilterHolds, [Next]_vars,
                      filter.contract_addresses # {} \/ filter'.contract_addresses = {},
                      AllEvents(filter) # {} \/ AllEvents(filter)' = {},
                      listeners' = listeners
               PROVE  Selected(filter) \subseteq Selected(filter')
      OBVIOUS
  <2>1. CASE filter' = filter
    BY <2>1
  <2>2. CASE filter' \in Refined(filter)
    <3>1. /\ filter.contract_addresses \subseteq filter'.contract_addresses
          /\ AllEvents(filter) \subseteq AllEvents(filter')
      BY <2>2, RefinedGrows DEF FilterHolds
    <3> QED
      BY <3>1, GrowingWidens
  <2>3. listeners \in Nat
    BY Sizes DEF IInv, NumbersHold
  <2> QED
    BY <2>1, <2>2, <2>3, FilterSteps
<1> QED
    BY <1>1, ScannerInvariant, FilterInvariant, PTL DEF Spec, LaterCallsWiden

\* connect and start fail with one of their errors.
ErrorHolds == error \in AllErrors

\* No step of a scanner brings an error that connect and start do not return.
LEMMA ErrorSteps ==
    ASSUME [Next]_vars
    PROVE  error' = error \/ error' \in AllErrors
<1>1. CASE ConnectRejects
  <2>1. PICK i \in 1 .. 4 : error' = Errors[i]
    BY <1>1 DEF ConnectRejects, Invalid, FailWith
  <2> QED
    BY <2>1 DEF AllErrors
<1>2. CASE ValidateIds
    BY <1>2 DEF ValidateIds, Validate, GoOn, FailWith, AllErrors
<1>3. CASE Next /\ ~ConnectRejects /\ ~ValidateIds
    BY <1>3
    DEF Next, scannerVars, NodeMines, NodeReorgs, NodeFinalizes, Configure, Counting, Fetching,
        Batching, Bounding, Set, Connect, RpcFails, ReadLatest, ValidateHash, RefineFilter,
        Subscribe, Start, Fetched, FetchStart, FetchEnd, StreamFetched, StartLive, StartFrom,
        StreamFrom, ReadTip, StartRewind, HandOver, GoOn, FailWith, AllErrors
<1> QED
    BY <1>1, <1>2, <1>3 DEF vars, scannerVars

\* The error of a scanner is one of those that connect and start return.
LEMMA ErrorInvariant == Spec => []ErrorHolds
<1>1. Init => ErrorHolds
    BY DEF Init, ErrorHolds, AllErrors
<1>2. ErrorHolds /\ [Next]_vars => ErrorHolds'
    BY ErrorSteps DEF ErrorHolds, AllErrors, Errors
<1> QED
    BY <1>1, <1>2, PTL DEF Spec

\* Every variable always has its type.
THEOREM ScannerTypes == Spec => []TypeOK
<1>1. IInv /\ FilterHolds /\ ErrorHolds => TypeOK
    BY DEF FilterHolds, ErrorHolds, IInv, PhasesHold, ConfigHolds, NumbersHold, TypeOK
<1> QED
    BY <1>1, ScannerInvariant, FilterInvariant, ErrorInvariant, PTL
=============================================================================
