--------------------------- MODULE AlgorandProvider ---------------------------
(* The provider that answers the requests of the Polkadot API from an Algorand *)
(* node.  Algorand has no request by hash: the block that comes with its hash  *)
(* is kept in hashToBlock until it is asked for, or until it is no longer the  *)
(* head.  Polls of the head, fetches of blocks, and requests for a hash alone  *)
(* (FetchService.fetchMeta) interleave at every request to the Algorand node.  *)
(* A hash is the height of its block.  A request to the node may fail; the     *)
(* Polkadot API between the provider and its callers is not modelled but for   *)
(* the header it may ask for before a block.  One poll of the best head is under *)
(* way at a time.                                                              *)
EXTENDS Integers, FiniteSets

CONSTANTS
    None,
    MaxRound,   \* the chain grows to this round
    MaxHeadPolls    \* of the head, each a number

ASSUME ProviderAssumption == MaxRound \in Nat \ {0} /\ MaxHeadPolls \in Nat /\ None \notin Nat

VARIABLES
    round,          \* the last round of the chain
    hashToBlock,    \* the blocks in the cache
    lastHash,
    lastRoundHash,  \* the poll whose promise it is, 0 for null: the last to begin
    headPolls,          \* [step, hash] of each poll begun
    fetches,        \* the step of the fetch of each height
    best,           \* the poll of the best head: the poll it awaits, its step
    heads           \* every hash lastHash has been

provider == <<hashToBlock, lastHash, lastRoundHash, heads>>
providerVars == <<round, provider, headPolls, fetches, best>>

Rounds == 1 .. MaxRound
Begun == 1 .. lastRoundHash

ProviderInit ==
    /\ round = 1
    /\ hashToBlock = {0}    \* the API asked for the genesis hash
    /\ lastHash = None /\ heads = {}
    /\ lastRoundHash = 0
    /\ headPolls = [p \in {} |-> 0]
    /\ fetches = [h \in Rounds |-> "none"]
    /\ best = [poll |-> 0, step |-> "none"]

NewRound ==
    /\ round < MaxRound
    /\ round' = round + 1
    /\ UNCHANGED <<provider, headPolls, fetches, best>>

\* The block of a hash, and what of the cache is left: the block of the head stays.
\* Variants with a bug: every block stays, or every block goes.
BugLeftByGetBlock(hash) == hashToBlock
BugTakenByGetBlock(hash) == hashToBlock \ {hash}

LeftByGetBlock(hash) == IF hash = lastHash THEN hashToBlock ELSE hashToBlock \ {hash}

Served(hash) == IF hash \in hashToBlock THEN "found" ELSE "missed"

----------------------------------------------------------------------------
(* Polls of the finalized head                                              *)

\* chain_getFinalizedHead asks for the status ...
GetFinalizedHead ==
    /\ lastRoundHash < MaxHeadPolls
    /\ lastRoundHash' = lastRoundHash + 1
    /\ headPolls' = [p \in Begun \cup {lastRoundHash'} |->
                    IF p \in Begun THEN headPolls[p] ELSE [step |-> "status", hash |-> None]]
    /\ UNCHANGED <<round, hashToBlock, lastHash, heads, fetches, best>>

LastRound == round

\* ... then for the block of the last round ...
StatusAnswered(p) ==
    /\ headPolls[p].step = "status"
    /\ headPolls' = [headPolls EXCEPT ![p] = [step |-> "block", hash |-> LastRound]]
    /\ UNCHANGED <<round, provider, fetches, best>>

\* Variant with a bug: the cache is emptied with each head.
BugKeptByNewHead(hash) == {hash}

\* The old head goes after the new one has come.
KeptByNewHead(hash) == (hashToBlock \cup {hash}) \ {lastHash}

\* ... which is cached, and takes the place of the last head.
HeadAnswered(p) ==
    /\ headPolls[p].step = "block"
    /\ hashToBlock' = KeptByNewHead(headPolls[p].hash)
    /\ lastHash' = headPolls[p].hash
    /\ heads' = heads \cup {headPolls[p].hash}
    /\ headPolls' = [headPolls EXCEPT ![p].step = "answered"]
    /\ UNCHANGED <<round, lastRoundHash, fetches, best>>

\* A rejected promise: the poll is logged as failed.
PollFails(p) ==
    /\ headPolls[p].step \in {"status", "block"}
    /\ headPolls' = [headPolls EXCEPT ![p] = [step |-> "failed", hash |-> None]]
    /\ UNCHANGED <<round, provider, fetches, best>>

\* FetchService.getFinalizedBlockHead then asks for the block of the head.
GetHeadBlock(p) ==
    /\ headPolls[p].step = "answered"
    /\ headPolls' = [headPolls EXCEPT ![p].step = Served(headPolls[p].hash)]
    /\ hashToBlock' = LeftByGetBlock(headPolls[p].hash)
    /\ UNCHANGED <<round, lastHash, lastRoundHash, heads, fetches, best>>

----------------------------------------------------------------------------
(* Fetches of blocks by height                                              *)

GetBlockHash(h) ==
    /\ fetches[h] = "none" /\ h <= round
    /\ fetches' = [fetches EXCEPT ![h] = "hash"]
    /\ UNCHANGED <<round, provider, headPolls, best>>

HashAnswered(h) ==
    /\ fetches[h] = "hash"
    /\ hashToBlock' = hashToBlock \cup {h}
    /\ fetches' = [fetches EXCEPT ![h] = "header"]
    /\ UNCHANGED <<round, lastHash, lastRoundHash, heads, headPolls, best>>

\* The error is caught and the hash null, which is no hash of a block.
HashFails(h) ==
    /\ fetches[h] = "hash"
    /\ fetches' = [fetches EXCEPT ![h] = "null"]
    /\ UNCHANGED <<round, provider, headPolls, best>>

GetHeader(h) ==
    /\ fetches[h] = "header"
    /\ fetches' = [fetches EXCEPT ![h] = IF Served(h) = "found" THEN "block" ELSE "missed"]
    /\ UNCHANGED <<round, provider, headPolls, best>>

\* The API knows the runtime of the hash, and asks for no header.
SkipHeader(h) ==
    /\ fetches[h] = "header"
    /\ fetches' = [fetches EXCEPT ![h] = "block"]
    /\ UNCHANGED <<round, provider, headPolls, best>>

GetBlock(h) ==
    /\ fetches[h] = "block"
    /\ fetches' = [fetches EXCEPT ![h] = Served(h)]
    /\ hashToBlock' = LeftByGetBlock(h)
    /\ UNCHANGED <<round, lastHash, lastRoundHash, heads, headPolls, best>>

\* Nobody asks for the block of a hash that was only to bring the runtime version.
HashAlone(h) ==
    /\ fetches[h] = "header"
    /\ fetches' = [fetches EXCEPT ![h] = "hash alone"]
    /\ UNCHANGED <<round, provider, headPolls, best>>

----------------------------------------------------------------------------
(* FetchService.getBestBlockHead: a header without a hash is that of the poll *)
(* of the finalized head that began last, whose end it awaits.               *)

GetBestHead ==
    /\ best.step \in {"none", "found", "missed"}
    /\ lastRoundHash # 0
    /\ best' = [poll |-> lastRoundHash, step |-> "awaited"]
    /\ UNCHANGED <<round, provider, headPolls, fetches>>

BestHeadAnswered ==
    /\ best.step = "awaited"
    /\ headPolls[best.poll].step \in {"answered", "found", "missed"}
    /\ best' = [best EXCEPT !.step = Served(headPolls[best.poll].hash)]
    /\ UNCHANGED <<round, provider, headPolls, fetches>>

BestHeadFails ==
    /\ best.step = "awaited"
    /\ headPolls[best.poll].step = "failed"
    /\ best' = [poll |-> 0, step |-> "none"]
    /\ UNCHANGED <<round, provider, headPolls, fetches>>

Poll(p) == StatusAnswered(p) \/ HeadAnswered(p) \/ PollFails(p) \/ GetHeadBlock(p)

Fetch(h) ==
    \/ GetBlockHash(h) \/ HashAnswered(h) \/ HashFails(h)
    \/ GetHeader(h) \/ SkipHeader(h) \/ GetBlock(h) \/ HashAlone(h)

ProviderNext ==
    \/ NewRound \/ GetFinalizedHead
    \/ GetBestHead \/ BestHeadAnswered \/ BestHeadFails
    \/ \E p \in Begun : Poll(p)
    \/ \E h \in Rounds : Fetch(h)

ProviderSpec == ProviderInit /\ [][ProviderNext]_providerVars

----------------------------------------------------------------------------
(* Properties                                                               *)

Answered(p) == headPolls[p].step \in {"answered", "found", "missed"}

PollSteps == {"status", "block", "answered", "found", "missed", "failed"}

Steps == {"none", "hash", "null", "header", "block", "found", "missed", "hash alone"}

ProviderTypeOK ==
    /\ round \in Rounds
    /\ hashToBlock \subseteq 0 .. round
    /\ lastHash \in heads \cup {None} /\ heads \subseteq 1 .. round
    /\ lastRoundHash \in 0 .. MaxHeadPolls
    /\ headPolls \in [Begun -> [step : PollSteps, hash : 1 .. round \cup {None}]]
    /\ \A p \in Begun : Answered(p) => headPolls[p].hash \in heads
    /\ fetches \in [Rounds -> Steps]
    /\ best \in [poll : 0 .. lastRoundHash, step : {"none", "awaited", "found", "missed"}]
    /\ best.poll = 0 <=> best.step = "none"

\* A block whose hash was answered is there when it is asked for, whatever the polls do
\* in between, unless it was itself a head.
MissedOnlyHeads ==
    \A h \in Rounds : fetches[h] = "missed" => h \in heads

\* No block stays in memory but the head, the genesis block, and the ones whose hash
\* was answered to somebody who has not asked for them.
NothingKeptForEver ==
    \A h \in hashToBlock \ {0, lastHash} : fetches[h] \in {"header", "block", "hash alone"}

\* No two polls brought the same round.
HeadsDiffer ==
    \A p, q \in Begun : p # q /\ Answered(p) /\ Answered(q) => headPolls[p].hash # headPolls[q].hash

\* "delete the reference to the old last has block" (214), "delete the block from the
\* cache if it is not the lastRoundHash" (327): the head is in the cache.
HeadKept == lastHash # None => lastHash \in hashToBlock

\* While no two polls bring the same round the head can be asked for at any time, also
\* by a fetch at the same time and after polls that overtook each other; the header of the
\* best head is missed only when another head came between.
HeadKeptBetweenRounds ==
    HeadsDiffer =>
        /\ HeadKept
        /\ best.step = "missed" => headPolls[best.poll].hash # lastHash
=============================================================================
