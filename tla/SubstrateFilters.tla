-------------------------- MODULE SubstrateFilters --------------------------
(* What a block looks like to the handlers and which of its parts a filter   *)
(* lets through (node/src/utils/substrate.ts).  A block is a record          *)
(*   [specVersion, extrinsics, events]                                       *)
(* with its extrinsics and events in sequences; an event carries the index   *)
(* of the extrinsic it was applied in, or 0 when it belongs to none.         *)
EXTENDS Integers, Sequences

CONSTANT Undefined  \* an optional field that is not there

NoFilter(filter) == filter = Undefined

CheckSpecRange(range, specVersion) ==
    /\ range[1] = Undefined \/ specVersion >= range[1]
    /\ range[2] = Undefined \/ specVersion <= range[2]

SpecVersionFits(filter, block) ==
    \/ filter.specVersion = Undefined
    \/ block.specVersion = Undefined
    \/ CheckSpecRange(filter.specVersion, block.specVersion)

\* An optional name of a filter: absent lets every name through.
Fits(wanted, name) == wanted = Undefined \/ name = wanted

\* wrapExtrinsics: the events of an extrinsic, and its success, are found by the
\* phase of the block's events.
ExtrinsicEvents(block, x) ==
    {e \in DOMAIN block.events : block.events[e].extrinsic = x}

ExtrinsicSuccess(block, x) ==
    \E e \in ExtrinsicEvents(block, x) : block.events[e].method = "ExtrinsicSuccess"

FilterBlock(block, filter) == NoFilter(filter) \/ SpecVersionFits(filter, block)

MatchesCall(block, x, filter) ==
    /\ SpecVersionFits(filter, block)
    /\ Fits(filter.module, block.extrinsics[x].section)
    /\ Fits(filter.method, block.extrinsics[x].method)
    /\ Fits(filter.success, ExtrinsicSuccess(block, x))

MatchesEvent(block, e, filter) ==
    /\ SpecVersionFits(filter, block)
    /\ Fits(filter.module, block.events[e].section)
    /\ Fits(filter.method, block.events[e].method)

\* A list of filters is a set here: an input passes when one of them matches, and
\* an empty list lets everything through.
FilterExtrinsics(block, filters) ==
    {x \in DOMAIN block.extrinsics :
        filters = {} \/ \E filter \in filters : MatchesCall(block, x, filter)}

FilterEvents(block, filters) ==
    {e \in DOMAIN block.events :
        filters = {} \/ \E filter \in filters : MatchesEvent(block, e, filter)}
=============================================================================
