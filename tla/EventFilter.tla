---------------------------- MODULE EventFilter ----------------------------
(***************************************************************************)
(* EventFilter (event_scanner/filter.rs): the builder of a subscription's  *)
(* filter, and the RPC filter it becomes.  Vectors are sets here, as their *)
(* order selects nothing.                                                  *)
(***************************************************************************)
CONSTANTS
    Addresses,  \* of contracts
    Names,      \* of events, as signatures a human reads
    EmptyName   \* the empty string, no event's signature

ASSUME FilterAssumption == EmptyName \notin Names

\* keccak256, which takes no two names to one hash.
Keccak256(name) == [hash |-> name]

Hashes == {Keccak256(name) : name \in Names \cup {EmptyName}}

Filter == [contract_addresses : SUBSET Addresses,
           events : SUBSET (Names \cup {EmptyName}),
           event_signatures : SUBSET Hashes]

\* EventFilter::new.
NewFilter == [contract_addresses |-> {}, events |-> {}, event_signatures |-> {}]

\* contract_address and contract_addresses.
WithAddresses(filter, addresses) == [filter EXCEPT !.contract_addresses = @ \cup addresses]

\* event: an empty name is ignored.
WithEvent(filter, name) ==
    [filter EXCEPT !.events = IF name = EmptyName THEN @ ELSE @ \cup {name}]

\* events: an empty name is kept.
WithEvents(filter, names) == [filter EXCEPT !.events = @ \cup names]

\* Mistake: the topics replace those of earlier calls.
WithSignaturesOnly(filter, topic) == [filter EXCEPT !.event_signatures = topic]

\* event_signature and event_signatures.
WithSignatures(filter, topic) == [filter EXCEPT !.event_signatures = @ \cup topic]

\* all_events.
AllEvents(filter) == filter.event_signatures \cup {Keccak256(name) : name \in filter.events}

\* The node's answer for the filter made by Filter::from: a dimension that is
\* empty is not part of it.  An event's name has a hash as its first topic.
Log == [address : Addresses, event : Names]

Selected(filter) ==
    {log \in Log :
        /\ AllEvents(filter) # {} => Keccak256(log.event) \in AllEvents(filter)
        /\ filter.contract_addresses # {} => log.address \in filter.contract_addresses}

\* One call of the builder.
Refined(filter) ==
    {WithAddresses(filter, addresses) : addresses \in SUBSET Addresses}
        \cup {WithEvent(filter, name) : name \in Names \cup {EmptyName}}
        \cup {WithEvents(filter, names) : names \in SUBSET (Names \cup {EmptyName})}
        \cup {WithSignatures(filter, topic) : topic \in SUBSET Hashes}
=============================================================================
