# A verification project for the SAN bridge

SAN is a canonical token on Solana. The bridge locks it in an escrow account
owned by a Solana program (`programs/oft`) and mints a representation on an EVM
chain (`contracts/SanOFT.sol`); LayerZero's Endpoints carry the messages. This
directory holds TLA+ models of that system, translated from its source, the TLC
configurations that check them on small instances, and TLAPS proofs of the
properties that matter most.

    tlc  -config adapter_money.cfg MCSolanaOFT      # one run
    tlapm SolanaOFT_proofs.tla                      # one module of proofs

## 1. Inventory of the system

| Part | State it keeps | Operations | Talks to |
|---|---|---|---|
| Solana OFT program, `programs/oft/src` | `OFTStore` (type, `tvl_ld`, admin, fee, pause, roles), one `PeerConfig` per remote chain with two optional rate limiters, the escrow token account | `init_oft`, `set_oft_config`, `set_peer_config`, `set_pause`, `withdraw_fee`, `send`, `lz_receive`; quotes read only | Token-2022 (transfer, burn, mint), Endpoint (CPI `send`, `clear`, `set_delegate`) |
| EVM contract, `contracts/SanOFT.sol` | owner, pause, peer, `totalSupply`, two token buckets | `pause`, `unpause`, `set*RateLimit`, `setPeer`, `transferOwnership`, `send` (`_debit`), `lzReceive` (`_credit`) | EndpointV2 |
| LayerZero Endpoint and verifiers (external) | per pathway: nonces, verified payloads | send, verify, execute; `skip`, `clear`, `nilify`, `burn` by the delegate (`tasks/solana/endpoint`) | both OApps |
| Endpoint mock, `programs/endpoint-mock` | registry, packet counter, authorised messages | register, authorise, send, clear | the program, in runtime tests |
| Rate limit policy, `scripts/productionRateLimitPolicy.ts`, `tasks/solana/set*RateLimit.ts` | none; four profiles | compare four limits with a profile; the tasks validate their arguments and, in this revision, send nothing | both chains |
| In-flight scanner, `scripts/scanProductionInFlight.ts`, `inFlightInventory.ts` | none; a manifest, written once | read a finalized range of each chain from two providers, ask LayerZero Scan for every packet sent, join by GUID, total; parse a manifest | both chains, LayerZero's API; its manifest is an input of the checker |
| Production checker, `scripts/checkProductionMainnet.ts`, `productionMainnetPolicy.ts` | none; approved manifest and state, two observations | observe both chains twice, compare with the activation phase and with each other | both chains |
| LayerZero configuration, `scripts/layerZeroConfigPolicy.ts`, `checkLayerZeroConfig.ts`, `tasks/common/wire.ts` | on chain: what each application set and LayerZero's defaults | compare both ends with the pinned policy, from snapshots or call by call | both chains |
| Deployment and authority tasks, `tasks/solana/{index,createOFT,createOFTAdapter,setAuthority,setUpdateAuthority,updateMetadata,multisig}.ts`, `productionToolingPolicy.ts` | mints, stores and their authorities; the file `OFT.json` | create a token and its store, move mint, freeze and update authority, plan the handoff | Solana |
| Transfer tasks, `tasks/common/sendOFT.ts`, `tasks/*/send*.ts`, `retryMessage.ts` | none | quote, send with a minimum, retry a receive | both OApps, the Endpoint |

What makes it hard:

* **Concurrency.** Every transaction is atomic, so the interleavings are of
  transactions: sends and receives of both directions, administrators of two
  chains who cannot act together, the verifiers, the executor, people retrying.
* **Failure.** A receive that fails (pause, wrong peer, empty limiter) is rolled
  back, the Endpoint's clearing included, and stays retryable. A packet may be
  stranded: sent to a peer that does not exist, or withdrawn by the delegate.
* **Ordering.** Packets of a pathway execute in any order once all before them
  are verified. A limiter is settled lazily, whenever somebody touches it.
* **Arithmetic.** Token-2022 withholds a rounded-up, capped fee; the program
  inverts it; two roundings of dust follow. The EVM bucket carries the remainder
  of a division from call to call.
* **Two sets of books.** The liability `tvl_ld` on one chain and `totalSupply` on
  the other are never compared by any code on chain.
* **Reading what moves.** The scripts compare the books off chain, from reads of
  two chains at different moments, from providers that lag or lie, after an
  operator approved a manifest of yet another moment.
* **Tasks that stop halfway.** Creating an OFT is up to four transactions and a
  file; a confirmation may be lost although its transaction landed, and the
  operator runs the task again.

What makes each part correct:

* Solana program: the escrow covers the liability; the liability is whole shared
  units; a limiter bounds net traffic in every window; custody leaves the escrow
  only with the liability, or above it.
* EVM contract: the buckets meter exactly; only time refills them.
* Bridge: liability = supply + undelivered; no packet executes twice; both
  pauses together stop everything; what can be delivered eventually is.
* Scanner: an accepted manifest is what was in flight between its two ends.
* Checker: a pass says something about the chains, not only about the reads.
* LayerZero configuration: an accepted configuration is in force and stays so,
  and both ends of a pathway agree.
* Rate limit policy: what the source admits, the destination can execute.
* Tasks: nothing reaches mainnet; whatever is abandoned, somebody can still mint
  what was paid for, unless the operator names an escrow of something else; a
  message carries the minimum asked for.

`PROJECT.json` lists every part under `components` and the places where this
code can go wrong in ways that tests hardly reach under `hazards`.

## 2. Modules

    Arith ── Word64 ──┬─ TransferFee ─┐
                      └─ RateLimiter ─┴─ SolanaOFT ──┐
    Arith ── TokenBucket ── SanOFT ──────────────────┼─ Bridge ── refines BridgeLedger
                                       Endpoint ─────┘
    SolanaOFT, EndpointMock ── AdapterRuntime
    Pathway ─┬─ InFlightInventory ── InFlightScan
             ├─ ProductionCheck
             └─ LayerZeroConfig
    RateLimitPolicy     OperatorTasks

    Arith_proofs ─┬─ SolanaOFT_proofs ─┬─ AdapterRuntime_proofs
                  ├─ SanOFT_proofs ────┴─ Bridge_proofs
                  ├─ ProductionCheck_proofs
                  └─ Readers_proofs (InFlightScan and LayerZeroConfig)
    OperatorTasks_proofs

`Sums`, the sum of a function over a finite set, serves `Bridge`, `AdapterRuntime`,
`InFlightInventory`, `InFlightScan` and `ProductionCheck`.
The modules from `Pathway` on model scripts and tasks. They do not extend
`Bridge`: each carries the two chains at the abstraction its script reads them,
events for the scanner, balances for the checker, configuration values for the
LayerZero policy.

| Module | Models | State → code |
|---|---|---|
| `Sums` | totals of amounts | – |
| `Arith`, `Word64` | `ceil_div`, minimum, u64 saturation, `Option` | – |
| `TransferFee` | `compute_fee_and_adjust_amount` and all it calls | pure; a token fee is `[bps, max]` |
| `RateLimiter` | `RateLimiter` of `peer_config.rs`, `update_rate_limiter` | pure; `idle` is `current_time - last_refill_time` |
| `SolanaOFT` | the program | `store` = `OFTStore`; `peer` = `PeerConfig`; `escrow` = balance of `token_escrow`; `wallet` = all other tokens; `delegate` = `OAppRegistry.delegate`; `outDebt`, `inDebt` are history |
| `TokenBucket` | `TokenBucket` and the private functions of `SanOFT.sol` | pure; `idle` is `block.timestamp - lastUpdated` |
| `SanOFT` | the contract | same names; `evmPaused`, `evmPeer`; `outUsed`, `inUsed` are history |
| `Endpoint` | pathways, nonces, verification, the delegate's tasks | `channel[path][nonce]` = amount and status |
| `Bridge` | the three together | all of the above and `outstanding`, history |
| `EndpointMock` | the mock Endpoint program of the runtime tests | `oapp_registry`, `packet_counter`, `authorized_message` = its three kinds of account, absent until created |
| `AdapterRuntime` | the program over the mock, as the runtime tests drive it | both, and `bridged`, history |
| `BridgeLedger` | the abstract specification | claims: opened once, settled at most once |
| `Pathway` | the two chains, as scripts name them | – |
| `InFlightInventory` | `inFlightInventory.ts`: messages, totals, everything the parser demands | pure; a manifest is a record of ranges, providers, a set of messages and a summary |
| `InFlightScan` | `scanProductionInFlight.ts` over two moving chains | `height`, `txs` = finalized transactions; `request` = arguments and, outside them, which host lies; `read[role][chain]` = events a provider answered; `manifest`; `outcome` |
| `ProductionCheck` | `checkProductionMainnet.ts`, `productionMainnetPolicy.ts`, `solanaCommonContext.ts` | `chain` = both chains now, `before` = one transaction earlier, for a lagging provider; `approved` = manifest and state approved; `slot`, `pinned`, `seen` = the collection under way and the observations; `sentAt`, `gotAt`, `openedAt` are history |
| `LayerZeroConfig` | `layerZeroConfigPolicy.ts`, `checkLayerZeroConfig.ts`, the configuration part of the production check | `app` = what each application set; `default` = LayerZero's; `seen` = values read so far; `steady` is history |
| `RateLimitPolicy` | `productionRateLimitPolicy.ts` and the arguments of the limit tasks | pure; its theorems are in `OperatorTasks_proofs` |
| `OperatorTasks` | the tasks of the last three rows of the inventory | `mints`, `stores` = accounts; `drawn` = escrows whose key some run generated; `record` = `OFT.json`; `task.steps` = transactions and writes still to make; `balance`, `sent`, `fee`, `paused` for transfers; `handed` = roles handed over; `touched` = networks written to |
| `MC*` | small instances for TLC | – |
| `*_proofs` | TLAPS proofs | – |

One action is one instruction or transaction. A failing `require!`, account
constraint, checked operation, CPI or revert undoes the whole transaction, so it
is an action that is not enabled; the workspace builds with `overflow-checks`, so
an overflow is a failure too, and the places where the code saturates saturate
in the model. `InitOFT` gives the store its fields, and `Init` gives them values
no instruction can read.

Abstractions, each where its module says so:

* Time enters only through differences, so each limiter keeps the seconds since
  its last refill, capped where every bucket is full. The clock does not step
  back.
* All holders share one `wallet`: which of them owns a token decides nothing but
  whether a transfer has the funds. Fees withheld by the mint stay outside the
  escrow and are counted there.
* Enforced options are opaque; the type-3 check is that they come from the set of
  accepted ones. Quotes change nothing; their amounts are `Adjusted`.
* SAN has six decimals on both chains, so the contract's dust removal is the
  identity; the program's `ld2sd_rate` is kept as a parameter.
* The Endpoint is external. A nonce the delegate skips before it is sent is taken
  to be skipped just after, which changes no balance.
* In the modules of scripts, hashes, addresses, identities and the canonical order
  of a manifest are data: a value either is the approved one or is not, a set has no
  order, a checksum binds the contents. What the scripts compare for equality is
  one flag per kind of value.
* Logs are read from finalized blocks only, so no history is rewritten.
* Only the two OApps send to the two OApps. A message from any other sender is
  in `SolanaOFT` and `SanOFT`, where the peer check refuses it.

Operators whose comment starts with *Mutated form* are not part of any
specification: each is the operator after it with one plausible mistake, and the
`mutants` of `PROJECT.json` name the run and the property that reject it.

## 3. Runs

| Run | Question | Bounds |
|---|---|---|
| `adapter_money` | Does the escrow always cover a whole-unit liability, and how may custody leave it? | 9 tokens, 2 local units per shared unit, 4 basis points in a whole, 4 token fees (none, capped at 1, steep, 100 % capped), program fees 0, 1 and the refused 4, 2 keys, 2 peers, both store types |
| `adapter_limits` | Do the Solana limiters meter net traffic? | capacities 2 and 4, rates 1 and 3, every shape of parameters, idle up to 4 s, words of 0..4 so that saturation happens |
| `adapter_runtime` | Do the mock's messages and the program's liability agree? | 2 guids of one nonce each, wired or lacking the executor, 2 peers, limiters of capacity 2, packet counter to 3 |
| `evm_contract` | Do the contract's buckets lose or gain anything? | 3 accepted settings, one refilling less than a token a second and one with a remainder, 3 refused ones; 2 owners, supply to 4, idle to 6 s |
| `bridge_safety` | Do the two books agree with what is on the way? | 3 packets per pathway, right, unset and stray peers, a token fee, dust |
| `bridge_live` | Does the bridge implement the ledger of claims, and is everything deliverable delivered? | 2 packets per pathway, limiters of capacity 2 on both chains |
| `scan_evidence` | Is an accepted manifest what was in flight, and what may make the parser refuse one? | 4 packets, two from Solana of amounts 1 and 2, two back of 4 and 0; heights to 3 and 2; one failed transaction; statuses delivered, confirming and failed; ranges starting at 1 or 2 and of any end, or a lying host on one chain |
| `zero_packets` | Does the parser refuse sound evidence only for what the evidence model lists? (violated) | as `scan_evidence` |
| `production_check` | What does a pass mean of a bridge that moves? | 2 packets of amount 1, one each way; 3 and 4 transactions; ranges starting at 1 or 3; one kind of configuration value and one distraction may change; providers lag by one transaction |
| `gap_activity` | Does a pass exclude activity between the manifest and the observations? (violated) | as `production_check` |
| `layerzero_config` | Is an accepted configuration in force, and does it stay so? | one deviating value of any field on one chain, one change of a default, one write of an owner; confirmations 32 and 30 |
| `operator_tasks` | What is left when tasks are abandoned and repeated, with any escrow and mint named: where transactions landed, who can mint and freeze, what a send carries? | 2 OFTs, an escrow of neither, a mint that existed; 3 tasks, one change of fee or pause, and no handoff beside it (`Apart`); rate 2, 4 tokens held, amounts and a minimum in halves of a local unit; the wallet as additional minter |

Why these bounds are enough to be of use. A whole of 4 basis points reaches every
branch of the fee arithmetic and every residue of its divisions; 10 000 of them
only repeat these (and the proofs are for every value). Dust exists because
`ld2sd_rate` is 2. The word is small so that saturation and the overflow guards
are reached. Three packets on a pathway let one be blocked, one be executed out of
order and one be withdrawn. A bucket that fills within the idle bound cannot tell
a longer wait (`IdleAssumption`, `BucketIdleAssumption`, evaluated by TLC).

The packets of `scan_evidence` that credit something have amounts whose sums are all
different, so that no wrong set of packets has a right total; the fourth credits
nothing, which neither chain's send refuses. One packet each way in `production_check`
is what it takes for two errors to cancel; its packets all move something, because a
manifest that holds one of nothing is refused by the parser and cannot be approved.
Both chains' heights are bounded, which is why these two systems, like the bounded
number of tasks of `operator_tasks`, may stop (`CHECK_DEADLOCK FALSE`). Two OFTs are
what it takes for an escrow to be of another mint, and a third task repeats or undoes
what two have left. A lying host hides or invents one event and does so in every
answer, in both roles if the operator names it twice; the assumption is that at most
one host of a chain lies. Distractions of the checker (a donation to the escrow, a
changed configuration value) happen only while a check is under way
(`OneDistraction`).

What the runs show:

* `SolanaTypeOK`, `EscrowCoversTVL`, `TVLWholeUnits`, `AdjustmentSound`: the fee a
  mint withholds, when rounded up, capped or changed between two transactions,
  never leaves the escrow short, and `withdraw_fee`, which ignores the pause, never
  takes what is owed.
* `CustodyLeavesWithLiability`: as a property of steps, and no liability moves in a
  paused store.
* `OutboundMetered`, `InboundMetered`: the level of a limiter is its capacity less
  the largest net outflow, less refill due, of any window ending now. `outDebt` is
  that quantity, computed from the traffic alone; a limiter that forgot to settle,
  settled twice or lost a refill would differ from it. It starts again at 0 when a
  capacity is set, because `set_capacity` fills the bucket.
* `LiabilityIsOpen`: over the mock Endpoint, the liability is all that was bridged less
  the messages that were consumed, each once and for its authorised amount. `clear`
  runs first in `lz_receive`; a receive that then fails (pause, peer, limiter, funds)
  must leave the message unconsumed, and does because the transaction is undone.
* `MessagesAreFinal`: the delegate signs any number of authorisations, but none
  revives or rewrites a message.
* `OutboundExact`, `InboundExact`, `BucketsWellFormed`, `OnlyTimeRefills`: the same
  for the contract, to the fraction of a token, and a raised capacity is no burst.
* `Conservation`, `OutstandingIsUndelivered`, `EscrowBacksSupply`: the liability is
  the supply plus what was sent and not executed, and the latter is exactly the
  packets on the pathways whose status is not delivered, stranded and withdrawn
  ones included. No packet executes twice or for another amount.
* `EmergencyStop`: with both chains paused nothing is debited or credited anywhere,
  while verification and the delegate's tasks go on.
* `ImplementsLedger`: a refinement, with claims mapped to packets; checked without dust
  and fees, which `bridge_safety` has, and proved with them.
* `EveryPacketExecuted`: see below.
* `ManifestIsTrueCut`: an accepted manifest lists as outstanding exactly the packets
  that left within one range and did not arrive within the other, though the ranges
  were read at different moments, one host of a chain hid or invented an event, and
  the API said anything. `ManifestBalances`: although the two ends are no single
  moment, the total is what separates the two chains' books at those ends, because a
  receive without its send is refused. It asks that the ranges start before the first
  packet, which the scanner cannot know; what the checker's accounting makes of a late
  start is `QuietPassIsExact`.
* `RejectedForCause`: when the builder made a manifest that the parser refuses, one
  host was named twice, a range is empty, or a packet that credits nothing was sent in
  the range. No lie, no late read and no answer of the API makes the two disagree.
* `EvidenceParses` **fails**: the third of these causes is not the operator's.
  Neither `send.rs` nor the OFT's `_debit` refuses an amount of zero
  (`docs/PARTIAL_CONFIGURATION_SECURITY.md:62` says so itself), the builder lists such
  a packet like any other, and `inFlightInventory.ts:310` demands a positive amount.
  The evidence model's list of what the scanner rejects
  (`docs/IN_FLIGHT_EVIDENCE_MODEL.md:29-31`) has no such case. The packet stays in the
  history, so each later scan from the deployment on is refused as well.
* `QuietPassIsExact`: if nothing was bridged since the manifest's ends, and no packet
  it lists had arrived before its ranges began, a pass means that the manifest lists
  exactly what is in flight. The second condition is needed, as the proof found out:
  with two packets of one amount from Solana, of which one is sent before a late start
  and stays in flight, and the other is sent after it but delivered on Robinhood at a
  height before the range of that chain, the manifest lists the wrong one of the two
  and every total agrees. Ranges that start with the deployment, which
  `docs/IN_FLIGHT_EVIDENCE_MODEL.md` asks the approvers to see to, meet it.
  `PausedPassIsExact`: before
  activation, whatever was bridged since, the manifest's total is what is in flight,
  for as long as nobody unpauses. `OneChangeIsNoticed`: two equal observations are no
  snapshot, but a single transaction between them is always seen.
* `GapActivityRejected` **fails**: `docs/IN_FLIGHT_EVIDENCE_MODEL.md:57-60` says that
  exact accounting and the pause reject economically meaningful activity between the
  manifest's ends and the observation. In the counterexample a packet of the manifest
  is delivered and a packet of the same amount is sent back while both applications
  are unpaused, and both are paused again: the sum the checker compares is unchanged,
  the totals of each direction are wrong, and the check passes.
* `AcceptedStaysInForce`: what the check accepts is the policy by the application's
  own settings, not because a default happens to agree, also when the check reads
  call by call and LayerZero or an owner writes between two calls.
  `AcceptedPathwaysVerify`: once both chains are accepted, a source waits for at least
  the confirmations its destination asks for, so no packet is paid for that can never
  be verified.
* `MainnetUntouched`: no step of any task lands on mainnet, those of the Endpoint
  (skip, clear, nilify, burn) and the retry of a receive included. It assumes that the RPC
  URL configured for an endpoint id is of that network: the gate looks at the id.
* `RecordedStoreMints`, `MintingNotStranded`: properties of steps. `setauthority` takes
  its escrow and its mint as independent arguments and looks at neither, and an adapter
  is created for any mint the operator names, so in the model the escrow may be one
  whose store was never made, one of another mint, or one no task has drawn (`Stray`).
  `OFT.json` is never written with a store that cannot mint its token, and a token that
  the deployer or a store of it may mint when it is created stays so, wherever
  creations and changes stop; the one step that may undo either is the transaction of a
  setauthority for another escrow: for the file, of the mint recorded and another
  escrow than the store recorded; for the right to mint, for an escrow without a store
  of the mint. That such a call is not refused is how the task works, although it tells
  its operator (`tasks/solana/setAuthority.ts:131`) that only the OFTStore will be able
  to mint.
* `MinterFreezes`: whoever abandons a creation or a change of authority, a deployer
  that may mint a created token may freeze it: the mint authority moves first. The
  reverse does not hold: with the mint authority gone and the freeze authority left
  behind, `setauthority` cannot be repeated, since it starts with the mint authority,
  unless the wallet is a minter.
* `MinimumKept`: parsing cuts digits, the quote ages, the fee changes; what is sent
  still carries the minimum up to the digits a local unit does not have.
* `HandoffCanFinish`: wherever the handoff stops, the next role's appointer has not
  been given away.

`Bridge`'s and `AdapterRuntime`'s runs leave out states with a pauser or unpauser
(`NoPausers`, a constraint): who may pause is in `adapter_money`. Their token supply is small, so
`SendFromEvm` also meets an empty supply and an empty bucket.

### Fairness

`FairSpec` assumes weak fairness of four things: the clock; the verifiers, for each
packet on a live pathway; and the execution of each packet on either chain. The last is
LayerZero's executor, or anyone: execution is permissionless and is retried after
a failure. Nothing is assumed of administrators, senders, owners or the delegate:
`EveryPacketExecuted` says what follows if from some time on the bridge stays
operational (initialised, unpaused, right peers). Weak fairness is enough because no
sender can keep a bucket empty for ever there: the pathways of the instance carry
finitely many packets. With an endless stream of competing receives the limiters
promise no packet its turn, and neither does this project. Amounts stay within
every capacity: a packet for more than its destination's capacity waits until an
owner raises it.

The scripts and tasks are run by an operator, who may stop at any step: their
modules assume no fairness and state safety only.

## 4. Proofs

TLAPS checks these for every value of the constants, from the assumptions of the
modules, all of which TLC evaluates: `WordAssumption`, `RatesAssumption`,
`IdleAssumption`, `NoneAssumption`, `SolanaAssumption`, `BucketAssumption`,
`BucketIdleAssumption`, `EvmAssumption`, `BooksAssumption`, `ProgramAssumption`,
`ContractAssumption`, `AbsentAssumption`, `ConfirmationsAssumption`,
`AmountsAssumption`, `NamesAssumption`, `CheckAssumption`, `ScanAssumption`. They say
that parameters lie in their ranges, that an idle bound fills every bucket, that what
stands for nothing is no value, and that packets are finitely many where their amounts
are summed (a GUID is 32 bytes). `ScanAssumption` allows amounts of zero;
`CheckAssumption` does not, for the reason given in section 3. `NamesAssumption` keeps
the names of the model's accounts apart. `Bridge` and
`AdapterRuntime` restate those of the modules they instantiate.

* `Arith_proofs`: division with remainder, that `CeilDiv` is the least upper quotient,
  and sums over finite sets: what adding or removing an element does to one, that equal
  functions have equal sums, that a sum over disjoint sets is the sum of theirs.
* `SolanaOFT_proofs`: the arithmetic of a send (`PreFee` is the least amount whose
  remainder after the fee covers what is wanted, `PostOfPre` and `PreLeast`, through
  rounding and cap; `AdjustSound` combines it with the two roundings of dust), what each
  operation does to the refilled level of a limiter, the inductive invariant
  `SolanaInv`, one lemma per action, and the theorems `TypesAlwaysHold`,
  `EscrowAlwaysCovers`, `LiabilityAlwaysWhole`, `AdjustmentAlwaysHolds`,
  `LimitersAlwaysMeter`, `InboundAlwaysMeters` and `CustodyAlwaysAccounted`.
* `SanOFT_proofs`: `PreviewExact` (a lazy refill adds exactly what is due, carry and
  remainder included, up to the brim), what each bucket operation does to the level,
  the inductive invariant `EvmInv`, and the theorems `EvmTypesAlwaysHold`,
  `BucketsAlwaysWellFormed`, `OutboundAlwaysExact`, `InboundAlwaysExact` and
  `TimeAloneRefills`.
* `Bridge_proofs`: the inductive invariants `BridgeInv` and `ClaimsInv`, and the theorems
  `AlwaysConserved`, `OutstandingAlwaysUndelivered`, `EscrowAlwaysBacks`,
  `BothPausesStop`, `BridgeImplementsLedger`, `BridgeRunsProgram`, `BridgeRunsContract`
  and `LimitersMeterTheBridge`.
* `AdapterRuntime_proofs`: `RuntimeRunsProgram`, `MessagesAlwaysFinal` and, from the
  inductive invariant `MoneyInv`, `LiabilityAlwaysOpen`.
* `Readers_proofs`: of the configuration check, the inductive invariant `CheckInv` and
  the theorems `AcceptedAlwaysInForce` and `AcceptedAlwaysVerify`; of the scanner, the
  inductive invariant `ScanInv` and the theorems `ManifestAlwaysTrueCut`,
  `ManifestAlwaysBalances` and `RejectedAlwaysForCause`.
* `OperatorTasks_proofs`: the inductive invariant `TasksInv` and the theorems
  `MainnetAlwaysUntouched`, `RecordedStoreAlwaysMints`, `MintingNeverStranded`,
  `MinterAlwaysFreezes`, `MinimumAlwaysKept` and `HandoffCanAlwaysFinish`; and of approved rate limits,
  `AdmittedPacketsFit` (what the source's limiter admits fits the destination's, so no
  packet waits for ever under an approved plan), `RefillsAgree` (a day refills a Solana
  limiter by its capacity but for less than a local unit a second, and never more) and
  `ApprovedTaskRefillsInADay`.
* `ProductionCheck_proofs`: the inductive invariant `ProductionInv` and the theorems
  `QuietPassAlwaysExact`, `PausedPassAlwaysExact` and `OneChangeAlwaysNoticed`.

`SolanaInv` adds to the properties only that nothing is owed before `init_oft`.
The rest is inductive as it stands, for reasons worth knowing. Coverage needs
`AdjustSound`: what a send adds to the liability is at most what arrives. Whole
units need that every received message is a multiple of the rate. `AdjustmentSound`
needs the types only. The metering of each limiter is inductive because `outDebt`
is bounded by the capacity, so that the saturating refill and the truncated
subtraction of the history meet at the same place.

`EvmInv` adds to the properties that each bucket's setting fills it within
`MaxBucketIdle` seconds, so that an idle time that stops there loses nothing. That
reconfiguring agrees with the history (`UsedAfterConfigure`) needs that the whole
tokens available are the quotient of the level by the duration
(`AvailableIsQuotient`), which is where a well-formed remainder is used.

`BridgeInv` adds to `Conservation` the types of the books it speaks of and that nothing
is owed before `init_oft`. A step that moves money moves two of liability, supply
and outstanding by the same amount in shared units, which needs that what the program
sends has no dust. The refinement maps claims to the packets of the two pathways and
goes step by step: a send opens a claim, an execution settles it, every other step
stutters. `ClaimsInv` adds that the open claims on each chain are finitely many, of
natural amounts, and that `outstanding` is their sum: a send adds a claim that was in
neither sum, an execution takes one out of one sum, and what verifies, skips, clears,
nilifies or burns settles none. The two components run
unchanged within the bridge: `BridgeRunsProgram` and `BridgeRunsContract` show every
step of it to be a step of the component or a stutter, so that the component's own
theorems hold there. `EscrowAlwaysBacks` is one of these, `EscrowAlwaysCovers`, with
`Conservation` and `OutstandingIsUndelivered`; `LimitersMeterTheBridge` is four of them.

`MoneyInv` says that the contents of the messages consumed sum up to what the liability
lacks of what was bridged. `clear` adds one message that was not consumed before, and in
the same transaction the liability falls by it; every other step leaves both alone,
because no instruction rewrites a message (`Final`, the step of `MessagesAreFinal`).

`CheckInv` of `Readers_proofs` says that what was read of a chain not written to
since is still what its application set, and that a check that passed found every value
set explicitly and right. Defaults may have changed since: a value set explicitly is in
force whatever they are, which is the whole argument.

`ScanInv` is about the chains, the reads and what was accepted. A chain's events are
dated no later than its head, and a packet is sent and received at most once
(`ChainsInv`). What an honest host answered is the truth of the range asked for, which
ended below the head when it was read; blocks to come lie above it, so the truth of
a final range never changes (`ReadsInv`, `TruthKept`). Of two hosts one is honest, so
agreement makes both answers true; and what the builder makes of the truth lists as not
delivered what was sent and not received within the ranges, whatever the API says
(`AcceptedInv`). The parser adds only that the hosts are two, the ranges not empty and
the amounts positive (`TruthParses`); a packet of nothing in the evidence was sent in
the range (`SeenIsSent`), which is `RejectedForCause`. `ManifestBalances` compares sums:
ranges that begin before the first packet miss no send, and `NoOrphan` refuses a
receive whose send lies beyond the cut, so what a chain owes is what the other paid and
what is on the way.

`TasksInv` lists what each task may still have to do, as the remainders of its steps,
and ties each remainder to the accounts: before its store exists the store is absent, as
is that of every escrow not drawn; once a creation is to save only, the store may mint;
an authority to come has the escrow named among its members, and the freeze authority is
moved only when the mint authority is the same. `RecordedStoreMints` and
`MintingNotStranded`, which are about steps, follow action by action from this
(`AuthoritiesKept`): no step but a `MoveAuthority` of the mint takes anybody's right to
mint away but to give it to a store of the mint. `MinterFreezes` is part of the
invariant, `MinimumKept` from what parsing and the program's check of the minimum
leave of it, and `HandoffCanFinish` from that the roles handed over are always a
beginning of the plan.

`ProductionInv` has two halves. `BridgeInv` there is about the chains: the history of
each chain's liability or supply is the sum of the packets that left and arrived by a
height, so that the state a provider shows, now or one transaction ago, is one the chain
had (`Past`). `CheckInv` is about the check: everything pinned, snapshotted or observed
is such a past state, observations of one chain are in order, and the manifest lists what
its ranges show, which later transactions do not change, as they lie above its ends. The
theorems then compare sums: a pass equates the manifest's total with the difference of
two past states, and quiet, or a pause, carries it to the present.

Only model-checked: liveness under fairness, which is out of the prover's reach. Every
invariant and action property of a run that passes is a theorem.

## 5. Not modelled

Read-only instructions and views; messaging prices, the options of a message, the
signatures of DVNs; compose messages; ERC-20 transfers between holders; several
remote chains at once (each has a `PeerConfig` of its own, and one shared liability);
native gas. Of the scripts and tasks: what only prints (`debug.ts`, `getRateLimits.ts`,
`inspectSanMint.ts`, `config.get.ts`), the format of keys and files, the canonical
order and hashing of a manifest, the estimate of compute prices, and the stateless
comparisons of environment values with constants (`testnetPolicy.ts`,
`checkSolanaProgramId.ts`). The Aptos tasks are
template code for a chain this bridge does not use, and `OFTTestPeer.sol` is a second
EVM peer for tests: neither is part of the bridge.

## 6. Plan

Everything planned has been written: the program, the contract, the Endpoint, the
bridge and its refinement; the mock and the runtime; the scanner, the checker, the
LayerZero policy, the rate limit policy and the tasks; the proofs above. What would
add most next: giving `ProductionCheck` a comparison per direction to see whether it
would restore `GapActivityRejected`.
