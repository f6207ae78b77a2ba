------------------------ MODULE OperatorTasks_proofs ------------------------
(***************************************************************************)
(* The operator's tasks for every number of OFTs, of tasks and of changes, *)
(* any minters and any amounts: wherever a task is abandoned, nothing has  *)
(* landed on mainnet, the recorded store mints and no right to mint is     *)
(* lost but to a setauthority for another escrow, every minimum was kept   *)
(* and the handoff can go on.  What an approved plan of rate limits means  *)
(* does not depend on any task.                                            *)
(***************************************************************************)
EXTENDS OperatorTasks, RateLimitPolicy, TLAPS

Signers == Escrows \cup Minters \cup {Wallet, "guardian"}
Updaters == {Wallet, "system", "governance", Absent}

\* What is left of the creation of an OFT, of one with a token of its own and
\* of one on the mint that existed: before its store exists, and after.
TokenBefore == {<<"multisig", "token", "store", "authority", "save">>,
                <<"token", "store", "authority", "save">>,
                <<"store", "authority", "save">>}
AdapterBefore == {<<"multisig", "store", "save">>, <<"store", "save">>}
Saving == {<<"save">>, << >>}
TokenAfter == {<<"authority", "save">>} \cup Saving
TokenSteps == TokenBefore \cup TokenAfter
AdapterSteps == AdapterBefore \cup Saving

\* A store that is to be created does not exist, one that was created has its
\* mint, and it is not recorded before it may mint a token of its own.
Creating ==
    /\ task \in [net : {"testnet"}, oft : OFTs, mint : Mints, authority : SUBSET Signers,
                 freeze : SUBSET Signers, steps : TokenSteps \cup AdapterSteps]
    /\ task.oft \in drawn
    /\ task.oft \in task.authority
    /\ Wallet \in task.authority => Wallet \in task.freeze
    /\ \/ task.mint = task.oft /\ task.steps \in TokenSteps
       \/ task.mint # task.oft /\ task.steps \in AdapterSteps
    /\ task.steps \in TokenBefore \cup AdapterBefore => stores[task.oft] = Absent
    /\ task.steps \in TokenAfter => stores[task.oft] = task.mint
    /\ task.mint = task.oft /\ task.steps \in Saving => task.oft \in mints[task.mint].mint

\* The authority to come has the store named among its members, and to freeze
\* only after it may mint.
MovingAuthority ==
    /\ task \in [net : {"testnet"}, oft : Escrows, mint : Mints, authority : SUBSET Signers,
                 steps : {<<"multisig", "mint", "freeze">>, <<"mint", "freeze">>,
                          <<"freeze">>, << >>}]
    /\ task.oft \in task.authority
    /\ task.steps = <<"freeze">> => mints[task.mint].mint = task.authority

MovingUpdates ==
    task \in [net : {"testnet"}, mint : Mints, renounce : BOOLEAN,
              steps : {<<"update">>, << >>}]

\* The minimum the program is to enforce is what was asked, in whole units.
Sending ==
    /\ task \in [net : {"testnet"}, side : Sides, units : Int, minimum : Int, asked : Int,
                 steps : {<<"quote", "submit">>, <<"submit">>, << >>}]
    /\ 2 * task.minimum > task.asked - 2

TaskKnown == task = Idle \/ Creating \/ MovingAuthority \/ MovingUpdates \/ Sending

MintsTyped == mints \in [Mints -> [mint : SUBSET Signers, freeze : SUBSET Signers,
                                  update : Updaters, mutable : BOOLEAN]]

\* A store has the escrow of a run, and a recorded one has the mint recorded.
AuthoritiesTyped ==
    /\ MintsTyped
    /\ stores \in [OFTs -> Mints \cup {Absent}]
    /\ \A n \in OFTs \ drawn : stores[n] = Absent
    /\ record \in [store : OFTs, mint : Mints] \cup [store : {Absent}, mint : {Absent}]
    /\ record.store # Absent => stores[record.store] = record.mint

TestnetOnly == touched \subseteq {"testnet"}

\* The roles handed over are those of a beginning of the plan.
HandedInOrder == \E k \in 0 .. 5 : handed = {HandoffPlan(i) : i \in 1 .. k}

AuthoritiesInv == AuthoritiesTyped /\ TestnetOnly /\ TaskKnown /\ MinterFreezes

\* What every step keeps of the file and of the right to mint.
AuthoritiesKept == RecordKept /\ \A m \in Mints : Exists(m)' => MintKept(m)

SendsInv == \A s \in sent : s.asked \in Int /\ s.carried \in Int /\ 2 * s.carried > s.asked - 2

TasksInv == AuthoritiesInv /\ SendsInv /\ HandedInOrder

-----------------------------------------------------------------------------
(* What a task is doing when a step of it is taken. *)

LEMMA CreatingSteps ==
    ASSUME NEW s \in TokenSteps \cup AdapterSteps, s # << >>
    PROVE  /\ Head(s) = "multisig" =>
                  \/ s \in TokenBefore /\ Tail(s) \in TokenBefore
                  \/ s \in AdapterBefore /\ Tail(s) \in AdapterBefore
           /\ Head(s) = "token" => s \in TokenBefore /\ Tail(s) \in TokenBefore
           /\ Head(s) = "store" =>
                  \/ s \in TokenBefore /\ Tail(s) = <<"authority", "save">>
                  \/ s \in AdapterBefore /\ Tail(s) = <<"save">>
           /\ Head(s) = "authority" => s \in TokenAfter /\ s \notin AdapterSteps /\ Tail(s) = <<"save">>
           /\ Head(s) = "save" => s \in Saving /\ Tail(s) = << >>
           /\ Head(s) \in {"multisig", "token", "store", "authority", "save"}
<1>1. CASE s = <<"multisig", "token", "store", "authority", "save">>
  BY <1>1 DEF TokenBefore
<1>2. CASE s = <<"token", "store", "authority", "save">>
  BY <1>2 DEF TokenBefore
<1>3. CASE s = <<"store", "authority", "save">>
  BY <1>3 DEF TokenBefore
<1>4. CASE s = <<"authority", "save">>
  BY <1>4 DEF TokenAfter, AdapterSteps, AdapterBefore, Saving
<1>5. CASE s = <<"save">>
  BY <1>5 DEF Saving
<1>6. CASE s = <<"multisig", "store", "save">>
  BY <1>6 DEF AdapterBefore
<1>7. CASE s = <<"store", "save">>
  BY <1>7 DEF AdapterBefore
<1> QED
  BY <1>1, <1>2, <1>3, <1>4, <1>5, <1>6, <1>7
     DEF TokenSteps, AdapterSteps, TokenBefore, AdapterBefore, TokenAfter, Saving

LEMMA StepsApart ==
    /\ TokenBefore \cap AdapterSteps = {}
    /\ TokenBefore \cap TokenAfter = {}
    /\ AdapterBefore \cap TokenSteps = {}
    /\ Saving \subseteq TokenAfter
BY DEF TokenSteps, AdapterSteps, TokenBefore, AdapterBefore, TokenAfter, Saving

LEMMA MovingSteps ==
    ASSUME NEW s \in {<<"multisig", "mint", "freeze">>, <<"mint", "freeze">>, <<"freeze">>,
                      << >>}, s # << >>
    PROVE  /\ Tail(s) \in {<<"multisig", "mint", "freeze">>, <<"mint", "freeze">>,
                            <<"freeze">>, << >>}
           /\ Head(s) \in {"multisig", "mint", "freeze"}
           /\ Tail(s) = <<"freeze">> => Head(s) = "mint"
           /\ Head(s) = "freeze" => s = <<"freeze">> /\ Tail(s) = << >>
           /\ Head(s) = "mint" => Tail(s) = <<"freeze">>
<1>1. CASE s = <<"multisig", "mint", "freeze">>
  BY <1>1
<1>2. CASE s = <<"mint", "freeze">>
  BY <1>2
<1>3. CASE s = <<"freeze">>
  BY <1>3
<1> QED
  BY <1>1, <1>2, <1>3

LEMMA UpdateSteps ==
    ASSUME NEW s \in {<<"update">>, << >>}, s # << >>
    PROVE  Head(s) = "update" /\ Tail(s) = << >>
<1>1. s = <<"update">>
  OBVIOUS
<1> QED
  BY <1>1

LEMMA SendSteps ==
    ASSUME NEW s \in {<<"quote", "submit">>, <<"submit">>, << >>}, s # << >>
    PROVE  Head(s) \in {"quote", "submit"} /\ Tail(s) \in {<<"submit">>, << >>}
<1>1. CASE s = <<"quote", "submit">>
  BY <1>1
<1>2. CASE s = <<"submit">>
  BY <1>2
<1> QED
  BY <1>1, <1>2

LEMMA TaskTaken ==
    ASSUME NEW name, TaskKnown, Step(name)
    PROVE  /\ name \in {"token", "store", "authority", "save"} => Creating
           /\ name = "multisig" => Creating \/ MovingAuthority
           /\ name \in {"mint", "freeze"} => MovingAuthority
           /\ name = "update" => MovingUpdates
           /\ name \in {"quote", "submit"} => Sending
<1>1. task.steps # << >> /\ Head(task.steps) = name
  BY DEF Step
<1>2. task # Idle
  BY <1>1 DEF Idle
<1>3. CASE Creating
  <2>1. task.steps \in TokenSteps \cup AdapterSteps
    BY <1>3 DEF Creating
  <2> QED
    BY <1>1, <1>3, <2>1, CreatingSteps
<1>4. CASE MovingAuthority
  <2>1. task.steps \in {<<"multisig", "mint", "freeze">>, <<"mint", "freeze">>, <<"freeze">>,
                        << >>}
    BY <1>4 DEF MovingAuthority
  <2> QED
    BY <1>1, <1>4, <2>1, MovingSteps
<1>5. CASE MovingUpdates
  <2>1. task.steps \in {<<"update">>, << >>}
    BY <1>5 DEF MovingUpdates
  <2> QED
    BY <1>1, <1>5, <2>1, UpdateSteps
<1>6. CASE Sending
  <2>1. task.steps \in {<<"quote", "submit">>, <<"submit">>, << >>}
    BY <1>6 DEF Sending
  <2> QED
    BY <1>1, <1>6, <2>1, SendSteps
<1> QED
  BY <1>2, <1>3, <1>4, <1>5, <1>6 DEF TaskKnown

-----------------------------------------------------------------------------
(* Tasks that start. *)

LEMMA EscrowDrawn ==
    ASSUME AuthoritiesInv, UNCHANGED <<mints, stores, record>>,
           drawn' = drawn \/ \E n \in OFTs \ drawn : drawn' = drawn \cup {n},
           TaskKnown', touched' \in {touched, touched \cup {"testnet"}}
    PROVE  AuthoritiesInv' /\ AuthoritiesKept
<1>1. AuthoritiesInv'
  BY DEF AuthoritiesInv, AuthoritiesTyped, MintsTyped, TestnetOnly, MinterFreezes
<1>2. RecordKept
  BY DEF RecordKept, RecordMints
<1>3. ASSUME NEW m \in Mints, Exists(m)'
      PROVE  MintKept(m)
  BY <1>3 DEF MintKept, Mintable, StoreOf, Exists
<1> QED
  BY <1>1, <1>2, <1>3 DEF AuthoritiesKept

LEMMA AuthoritiesUntouched ==
    ASSUME AuthoritiesInv, UNCHANGED authorityVars, TaskKnown',
           touched' \in {touched, touched \cup {"testnet"}}
    PROVE  AuthoritiesInv' /\ AuthoritiesKept
BY EscrowDrawn DEF authorityVars

LEMMA NothingOnMainnet == ~Connects("mainnet", FALSE) /\ Connects("testnet", FALSE)
BY DEF Connects, MainnetExecution

LEMMA OnTestnet ==
    ASSUME NEW net \in Networks, Connects(net, FALSE)
    PROVE  net = "testnet"
BY NothingOnMainnet DEF Networks

LEMMA MainnetTaskStep ==
    ASSUME AuthoritiesInv, MainnetTask(FALSE)
    PROVE  AuthoritiesInv' /\ AuthoritiesKept
<1>1. task' = Idle /\ touched' = touched /\ UNCHANGED authorityVars
  BY DEF MainnetTask, Start
<1> QED
  BY <1>1, AuthoritiesUntouched DEF TaskKnown

LEMMA FirstSteps ==
    ASSUME NEW multisig \in BOOLEAN
    PROVE  /\ CreateSteps(FALSE, multisig) \in TokenBefore
           /\ CreateSteps(TRUE, multisig) \in AdapterBefore
BY DEF CreateSteps, TokenBefore, AdapterBefore

LEMMA CreateStep ==
    ASSUME AuthoritiesInv, NEW net \in Networks, NEW adapter \in BOOLEAN,
           NEW args \in CreateArguments, Create(net, adapter, args)
    PROVE  AuthoritiesInv' /\ AuthoritiesKept
<1>. DEFINE authority(n) == Multisig(n, args.minters)
            freeze(n) == IF args.only THEN args.freeze ELSE authority(n)
            next(n, m) == [net |-> net, oft |-> n, mint |-> m, authority |-> authority(n),
                           freeze |-> freeze(n), steps |-> CreateSteps(adapter, ~args.only)]
<1>1. UNCHANGED <<mints, stores, record, touched>>
  BY DEF Create
<1>2. CASE Start(Idle) /\ drawn' = drawn
  <2>1. task' = Idle
    BY <1>2 DEF Start
  <2> QED
    BY <1>1, <1>2, <2>1, EscrowDrawn DEF TaskKnown
<1>3. CASE ~(Start(Idle) /\ drawn' = drawn)
  <2>1. PICK n \in OFTs \ drawn, m \in Mints :
          /\ Connects(net, FALSE) /\ (adapter <=> m # n)
          /\ task' = next(n, m) /\ drawn' = drawn \cup {n}
    BY <1>3 DEF Create, Start
  <2>2. /\ args.minters \subseteq Minters /\ args.freeze \subseteq {"guardian"}
        /\ (~args.only) \in BOOLEAN
        /\ args.only => args.minters = {}
    <3>1. CASE args \in [minters : (SUBSET Minters) \ {{}}, freeze : {{}}, only : {FALSE}]
      BY <3>1
    <3>2. CASE args \in [minters : {{}}, freeze : {{}, {"guardian"}}, only : {TRUE}]
      <4>1. args.minters \in {{}} /\ args.freeze \in {{}, {"guardian"}}
        BY <3>2
      <4> QED
        BY <4>1
    <3> QED
      BY <3>1, <3>2 DEF CreateArguments
  <2>3. /\ authority(n) \in SUBSET Signers /\ freeze(n) \in SUBSET Signers
        /\ n \in authority(n)
        /\ Wallet \in authority(n) => Wallet \in freeze(n)
    BY <2>2, NamesAssumption DEF Multisig, Signers, Escrows
  <2>4. stores'[n] = Absent /\ net = "testnet"
    BY <1>1, <2>1, OnTestnet DEF AuthoritiesInv, AuthoritiesTyped
  <2>. HIDE DEF authority, freeze
  <2>5. Creating'
    <3>. DEFINE first == CreateSteps(adapter, ~args.only)
    <3>1. /\ adapter => first \in AdapterBefore
          /\ ~adapter => first \in TokenBefore
          /\ first \in TokenSteps \cup AdapterSteps
      BY <2>2, FirstSteps DEF TokenSteps, AdapterSteps
    <3>. HIDE DEF first
    <3>2. /\ task' \in [net : {"testnet"}, oft : OFTs, mint : Mints, authority : SUBSET Signers,
                        freeze : SUBSET Signers, steps : TokenSteps \cup AdapterSteps]
          /\ task'.oft = n /\ task'.mint = m /\ task'.authority = authority(n)
          /\ task'.freeze = freeze(n) /\ task'.steps = first
      BY <2>1, <2>3, <2>4, <3>1 DEF first
    <3>3. /\ \/ m = n /\ first \in TokenBefore /\ first \in TokenSteps
             \/ m # n /\ first \in AdapterBefore /\ first \in AdapterSteps
          /\ first \notin TokenAfter /\ first \notin Saving
      BY <2>1, <3>1, StepsApart DEF TokenSteps, AdapterSteps
    <3> QED
      BY <2>1, <2>3, <2>4, <3>2, <3>3 DEF Creating
  <2> QED
    BY <1>1, <2>1, <2>5, EscrowDrawn DEF TaskKnown
<1> QED
  BY <1>2, <1>3

LEMMA SetAuthorityStep ==
    ASSUME AuthoritiesInv, NEW net \in Networks, NEW n \in Escrows, NEW m \in Mints,
           NEW minters \in SUBSET Minters, SetAuthority(net, n, m, minters)
    PROVE  AuthoritiesInv' /\ AuthoritiesKept
<1>1. /\ task' = IF Connects(net, FALSE)
                 THEN [net |-> net, oft |-> n, mint |-> m, authority |-> NewAuthority(n, minters),
                       steps |-> <<"multisig", "mint", "freeze">>]
                 ELSE Idle
      /\ touched' = touched
      /\ UNCHANGED authorityVars
  BY DEF SetAuthority, Start, SetAuthoritySteps
<1>2. NewAuthority(n, minters) \in SUBSET Signers /\ n \in NewAuthority(n, minters)
  BY DEF NewAuthority, Multisig, Signers
<1>3. ASSUME Connects(net, FALSE)
      PROVE  MovingAuthority'
  BY <1>1, <1>2, <1>3, OnTestnet DEF MovingAuthority
<1> QED
  BY <1>1, <1>3, AuthoritiesUntouched DEF TaskKnown

LEMMA EndpointTaskStep ==
    ASSUME AuthoritiesInv, NEW net \in Networks, EndpointTask(net)
    PROVE  AuthoritiesInv' /\ AuthoritiesKept
<1>1. /\ task' = Idle
      /\ touched' \in {touched, IF Connects(net, FALSE) THEN touched \cup {net} ELSE touched}
      /\ UNCHANGED authorityVars
  BY DEF EndpointTask, Start
<1>2. Connects(net, FALSE) => net = "testnet"
  BY OnTestnet
<1> QED
  BY <1>1, <1>2, AuthoritiesUntouched DEF TaskKnown

LEMMA SetUpdateAuthorityStep ==
    ASSUME AuthoritiesInv, NEW net \in Networks, NEW m \in Mints, NEW renounce \in BOOLEAN,
           SetUpdateAuthority(net, m, renounce)
    PROVE  AuthoritiesInv' /\ AuthoritiesKept
<1>1. /\ task' = IF Connects(net, FALSE)
                 THEN [net |-> net, mint |-> m, renounce |-> renounce, steps |-> <<"update">>]
                 ELSE Idle
      /\ touched' = touched
      /\ UNCHANGED authorityVars
  BY DEF SetUpdateAuthority, Start
<1>2. ASSUME Connects(net, FALSE)
      PROVE  MovingUpdates'
  BY <1>1, <1>2, OnTestnet DEF MovingUpdates
<1> QED
  BY <1>1, <1>2, AuthoritiesUntouched DEF TaskKnown

LEMMA UpdateMetadataStep ==
    ASSUME AuthoritiesInv, NEW net \in Networks, NEW vault \in BOOLEAN,
           UpdateMetadata(net, vault)
    PROVE  AuthoritiesInv' /\ AuthoritiesKept
<1>1. /\ task' = Idle
      /\ touched' = IF Connects(net, vault) /\ ~vault THEN touched \cup {net} ELSE touched
      /\ UNCHANGED authorityVars
  BY DEF UpdateMetadata, Start
<1>2. Connects(net, vault) /\ ~vault => net = "testnet"
  BY OnTestnet
<1> QED
  BY <1>1, <1>2, AuthoritiesUntouched DEF TaskKnown

\* Cutting to whole units loses less than one of them.
LEMMA ParsedKeeps ==
    ASSUME NEW halves \in Int
    PROVE  Parsed(halves) \in Int /\ 2 * Parsed(halves) > halves - 2
BY DEF Parsed

LEMMA SendOFTStep ==
    ASSUME AuthoritiesInv, NEW net \in Networks, NEW side \in Sides, NEW amount \in Amounts,
           NEW minimum \in Minimums \cup {NotGiven}, SendOFT(net, side, amount, minimum)
    PROVE  AuthoritiesInv' /\ AuthoritiesKept
<1>. DEFINE asked == IF minimum = NotGiven THEN amount ELSE minimum
<1>1. /\ task' = IF Connects(net, FALSE)
                 THEN [net |-> net, side |-> side, units |-> Parsed(amount),
                       minimum |-> Minimum(amount, minimum), asked |-> asked,
                       steps |-> <<"quote", "submit">>]
                 ELSE Idle
      /\ touched' = touched
      /\ UNCHANGED authorityVars
  BY DEF SendOFT, Start
<1>2. amount \in Int /\ asked \in Int
  BY AmountsAssumption DEF NotGiven
<1>3. Minimum(amount, minimum) = Parsed(asked) /\ Parsed(amount) \in Int
  BY <1>2, ParsedKeeps DEF Minimum
<1>4. Parsed(asked) \in Int /\ 2 * Parsed(asked) > asked - 2
  BY <1>2, ParsedKeeps
<1>. HIDE DEF asked
<1>5. ASSUME Connects(net, FALSE)
      PROVE  Sending'
  <2>1. task' = [net |-> "testnet", side |-> side, units |-> Parsed(amount),
                 minimum |-> Parsed(asked), asked |-> asked, steps |-> <<"quote", "submit">>]
    BY <1>1, <1>3, <1>5, OnTestnet
  <2> QED
    BY <1>2, <1>3, <1>4, <2>1 DEF Sending
<1> QED
  BY <1>1, <1>5, AuthoritiesUntouched DEF TaskKnown

LEMMA BeginStep ==
    ASSUME AuthoritiesInv, NEW net \in Networks, Begin(net)
    PROVE  AuthoritiesInv' /\ AuthoritiesKept
BY CreateStep, SetAuthorityStep, SetUpdateAuthorityStep, UpdateMetadataStep, SendOFTStep,
   EndpointTaskStep
   DEF Begin

-----------------------------------------------------------------------------
(* Steps of a task. *)

\* A task of this revision lands on testnet, and goes on or is over.
LEMMA LandedOnTestnet ==
    ASSUME Creating \/ MovingAuthority \/ MovingUpdates \/ Sending, Landed
    PROVE  /\ touched' = touched \cup {"testnet"}
           /\ task' = [task EXCEPT !.steps = Tail(@)] \/ task' = Idle
<1>1. task.net = "testnet"
  BY DEF Creating, MovingAuthority, MovingUpdates, Sending
<1> QED
  BY <1>1 DEF Landed

LEMMA CreateMultisigStep ==
    ASSUME AuthoritiesInv, CreateMultisig
    PROVE  AuthoritiesInv' /\ AuthoritiesKept
<1>1. /\ task.steps # << >> /\ Head(task.steps) = "multisig" /\ Landed
      /\ UNCHANGED authorityVars
      /\ Creating \/ MovingAuthority
  BY TaskTaken DEF CreateMultisig, Step, AuthoritiesInv
<1>2. /\ touched' = touched \cup {"testnet"}
      /\ task' = [task EXCEPT !.steps = Tail(@)] \/ task' = Idle
  BY <1>1, LandedOnTestnet
<1>3. ASSUME Creating, task' = [task EXCEPT !.steps = Tail(@)]
      PROVE  Creating'
  <2>1. \/ task.steps \in TokenBefore /\ Tail(task.steps) \in TokenBefore
        \/ task.steps \in AdapterBefore /\ Tail(task.steps) \in AdapterBefore
    BY <1>1, <1>3, CreatingSteps DEF Creating
  <2> QED
    BY <1>1, <1>3, <2>1, StepsApart DEF Creating, TokenSteps, AdapterSteps, authorityVars
<1>4. ASSUME MovingAuthority, task' = [task EXCEPT !.steps = Tail(@)]
      PROVE  MovingAuthority'
  <2>. DEFINE left == {<<"multisig", "mint", "freeze">>, <<"mint", "freeze">>, <<"freeze">>, << >>}
  <2>1. Tail(task.steps) \in left /\ Tail(task.steps) # <<"freeze">>
    BY <1>1, <1>4, MovingSteps DEF MovingAuthority
  <2> QED
    BY <1>1, <1>4, <2>1 DEF MovingAuthority, authorityVars
<1> QED
  BY <1>1, <1>2, <1>3, <1>4, AuthoritiesUntouched DEF TaskKnown

\* Whatever happens to a mint that a recorded store is not of.
LEMMA OtherMint ==
    ASSUME UNCHANGED <<stores, record>>, NEW m \in Mints, AuthoritiesTyped,
           record.store # Absent => record.mint # m \/ record.mint # record.store,
           \A other \in Mints \ {m} : mints'[other].mint = mints[other].mint
    PROVE  RecordKept
<1>1. record.store # Absent => record.mint \in Mints
  BY DEF AuthoritiesTyped
<1> QED
  BY <1>1 DEF RecordKept, RecordMints

LEMMA CreateTokenStep ==
    ASSUME AuthoritiesInv, CreateToken
    PROVE  AuthoritiesInv' /\ AuthoritiesKept
<1>1. /\ task.steps # << >> /\ Head(task.steps) = "token" /\ Landed /\ Creating
      /\ UNCHANGED <<stores, record, drawn>>
  BY TaskTaken DEF CreateToken, Step, AuthoritiesInv
<1>2. PICK mutable \in BOOLEAN : mints' = [mints EXCEPT ![task.mint] = NewMint(mutable)]
  BY DEF CreateToken
<1>3. /\ touched' = touched \cup {"testnet"}
      /\ task' = [task EXCEPT !.steps = Tail(@)] \/ task' = Idle
  BY <1>1, LandedOnTestnet
<1>4. task.steps \in TokenBefore /\ Tail(task.steps) \in TokenBefore
  BY <1>1, CreatingSteps DEF Creating
<1>5. /\ task.mint = task.oft /\ task.oft \in OFTs /\ stores[task.oft] = Absent
      /\ task.mint \in Mints
  BY <1>1, <1>4, StepsApart DEF Creating
<1>6. NewMint(mutable) \in [mint : SUBSET Signers, freeze : SUBSET Signers,
                            update : Updaters, mutable : BOOLEAN]
  BY DEF NewMint, Signers, Updaters
<1>7. /\ MintsTyped'
      /\ \A m \in Mints \ {task.mint} : mints'[m] = mints[m]
      /\ mints'[task.mint].mint = {Wallet} /\ mints'[task.mint].freeze = {Wallet}
  BY <1>2, <1>5, <1>6 DEF AuthoritiesInv, AuthoritiesTyped, MintsTyped, NewMint
<1>8. AuthoritiesTyped'
  BY <1>1, <1>7 DEF AuthoritiesInv, AuthoritiesTyped
<1>9. MinterFreezes'
  BY <1>7 DEF AuthoritiesInv, MinterFreezes, Mints
<1>10. TaskKnown'
  <2>1. ASSUME task' = [task EXCEPT !.steps = Tail(@)]
        PROVE  Creating'
    BY <1>1, <1>4, <1>5, <2>1, StepsApart DEF Creating, TokenSteps, AdapterSteps
  <2> QED
    BY <1>3, <2>1 DEF TaskKnown
<1>11. RecordKept
  <2>1. ASSUME record.store # Absent, record.mint = task.mint, record.mint = record.store
        PROVE  FALSE
    <3>1. stores[task.oft] = task.mint
      BY <1>5, <2>1 DEF AuthoritiesInv, AuthoritiesTyped
    <3> QED
      BY <1>5, <2>1, <3>1
  <2> QED
    BY <1>1, <1>5, <1>7, <2>1, OtherMint DEF AuthoritiesInv
<1>12. ASSUME NEW m \in Mints, Exists(m)'
       PROVE  MintKept(m)
  <2>1. CASE m = task.mint
    BY <1>7, <2>1 DEF MintKept, Mintable
  <2>2. CASE m # task.mint
    BY <1>1, <1>7, <1>12, <2>2 DEF MintKept, Mintable, StoreOf, Exists
  <2> QED
    BY <2>1, <2>2
<1> QED
  BY <1>3, <1>8, <1>9, <1>10, <1>11, <1>12 DEF AuthoritiesInv, AuthoritiesKept, TestnetOnly

LEMMA InitOftStep ==
    ASSUME AuthoritiesInv, InitOft
    PROVE  AuthoritiesInv' /\ AuthoritiesKept
<1>1. /\ task.steps # << >> /\ Head(task.steps) = "store" /\ Landed /\ Creating
      /\ stores' = [stores EXCEPT ![task.oft] = task.mint]
      /\ UNCHANGED <<mints, record, drawn>>
  BY TaskTaken DEF InitOft, Step, AuthoritiesInv
<1>2. /\ touched' = touched \cup {"testnet"}
      /\ task' = [task EXCEPT !.steps = Tail(@)] \/ task' = Idle
  BY <1>1, LandedOnTestnet
<1>3. /\ task.oft \in OFTs /\ task.oft \in drawn /\ task.mint \in Mints
      /\ stores[task.oft] = Absent
      /\ \/ task.mint = task.oft /\ Tail(task.steps) = <<"authority", "save">>
         \/ task.mint # task.oft /\ Tail(task.steps) = <<"save">>
  <2>1. \/ task.steps \in TokenBefore /\ Tail(task.steps) = <<"authority", "save">>
        \/ task.steps \in AdapterBefore /\ Tail(task.steps) = <<"save">>
    BY <1>1, CreatingSteps DEF Creating
  <2> QED
    BY <1>1, <2>1, StepsApart DEF Creating
<1>4. stores'[task.oft] = task.mint /\ \A n \in OFTs \ {task.oft} : stores'[n] = stores[n]
  BY <1>1, <1>3 DEF AuthoritiesInv, AuthoritiesTyped
<1>5. Absent \notin Mints
  BY NamesAssumption DEF Mints, Absent, Existing
<1>6. record.store # Absent => record.store \in OFTs /\ record.store # task.oft
  BY <1>3, <1>5 DEF AuthoritiesInv, AuthoritiesTyped
<1>7. AuthoritiesTyped' /\ MinterFreezes'
  BY <1>1, <1>3, <1>4, <1>6 DEF AuthoritiesInv, AuthoritiesTyped, MintsTyped, MinterFreezes
<1>8. TaskKnown'
  <2>1. ASSUME task' = [task EXCEPT !.steps = Tail(@)]
        PROVE  Creating'
    <3>1. /\ task' \in [net : {"testnet"}, oft : OFTs, mint : Mints, authority : SUBSET Signers,
                        freeze : SUBSET Signers, steps : TokenSteps \cup AdapterSteps]
          /\ task'.oft = task.oft /\ task'.mint = task.mint
          /\ task'.authority = task.authority /\ task'.freeze = task.freeze
          /\ task'.steps = Tail(task.steps)
      BY <1>1, <1>3, <2>1
         DEF Creating, TokenSteps, TokenAfter, AdapterSteps, Saving
    <3>2. <<"authority", "save">> \notin Saving
      BY DEF Saving
    <3>3. /\ <<"authority", "save">> \in TokenSteps /\ <<"save">> \in AdapterSteps
          /\ <<"authority", "save">> \in TokenAfter /\ <<"save">> \in TokenAfter
      BY DEF TokenSteps, TokenAfter, AdapterSteps, Saving
    <3> QED
      BY <1>1, <1>3, <1>4, <3>1, <3>2, <3>3, StepsApart DEF Creating, TokenSteps, AdapterSteps
  <2> QED
    BY <1>2, <2>1 DEF TaskKnown
<1>9. RecordKept
  BY <1>1, <1>4, <1>6 DEF RecordKept, RecordMints
<1>10. ASSUME NEW m \in Mints, Exists(m)'
       PROVE  MintKept(m)
  <2>1. \A n \in OFTs : StoreOf(n, m) => StoreOf(n, m)'
    BY <1>3, <1>4, <1>5 DEF StoreOf
  <2> QED
    BY <1>1, <1>10, <2>1 DEF MintKept, Mintable, Exists
<1> QED
  BY <1>2, <1>7, <1>8, <1>9, <1>10 DEF AuthoritiesInv, AuthoritiesKept, TestnetOnly

LEMMA GiveAuthorityStep ==
    ASSUME AuthoritiesInv, GiveAuthority
    PROVE  AuthoritiesInv' /\ AuthoritiesKept
<1>1. /\ task.steps # << >> /\ Head(task.steps) = "authority" /\ Landed /\ Creating
      /\ mints' = [mints EXCEPT ![task.mint].mint = task.authority,
                                ![task.mint].freeze = task.freeze]
      /\ UNCHANGED <<stores, record, drawn>>
  BY TaskTaken DEF GiveAuthority, Step, AuthoritiesInv
<1>2. /\ touched' = touched \cup {"testnet"}
      /\ task' = [task EXCEPT !.steps = Tail(@)] \/ task' = Idle
  BY <1>1, LandedOnTestnet
<1>3. /\ task.oft \in OFTs /\ task.mint = task.oft /\ task.mint \in Mints
      /\ stores[task.oft] = task.mint /\ Tail(task.steps) = <<"save">>
      /\ task.oft \in task.authority
      /\ Wallet \in task.authority => Wallet \in task.freeze
  BY <1>1, CreatingSteps DEF Creating
<1>4. task.authority \in SUBSET Signers /\ task.freeze \in SUBSET Signers
  BY <1>1 DEF Creating
<1>5. /\ MintsTyped'
      /\ mints'[task.mint].mint = task.authority /\ mints'[task.mint].freeze = task.freeze
      /\ \A other \in Mints \ {task.mint} : mints'[other] = mints[other]
  BY <1>1, <1>3, <1>4 DEF AuthoritiesInv, AuthoritiesTyped, MintsTyped
<1>6. AuthoritiesTyped' /\ MinterFreezes'
  BY <1>1, <1>3, <1>5 DEF AuthoritiesInv, AuthoritiesTyped, MinterFreezes, Mints
<1>7. TaskKnown'
  <2>1. ASSUME task' = [task EXCEPT !.steps = Tail(@)]
        PROVE  Creating'
    <3>1. <<"save">> \in TokenSteps /\ <<"save">> \in TokenAfter
      BY DEF TokenSteps, TokenAfter, Saving
    <3> QED
      BY <1>1, <1>3, <1>5, <2>1, <3>1, StepsApart DEF Creating, TokenSteps, AdapterSteps
  <2> QED
    BY <1>2, <2>1 DEF TaskKnown
<1>8. RecordKept
  <2>1. CASE record.store # Absent /\ record.mint = task.mint /\ record.mint = record.store
    BY <1>1, <1>3, <1>5, <2>1 DEF RecordKept, RecordMints
  <2>2. CASE ~(record.store # Absent /\ record.mint = task.mint /\ record.mint = record.store)
    BY <1>1, <1>3, <1>5, <2>2, OtherMint DEF AuthoritiesInv
  <2> QED
    BY <2>1, <2>2
<1>9. ASSUME NEW m \in Mints, Exists(m)'
      PROVE  MintKept(m)
  <2>1. CASE m = task.mint
    BY <1>1, <1>3, <1>5, <2>1 DEF MintKept, Mintable, StoreOf
  <2>2. CASE m # task.mint
    BY <1>1, <1>5, <1>9, <2>2 DEF MintKept, Mintable, StoreOf, Exists
  <2> QED
    BY <2>1, <2>2
<1> QED
  BY <1>2, <1>6, <1>7, <1>8, <1>9 DEF AuthoritiesInv, AuthoritiesKept, TestnetOnly

LEMMA SaveDeploymentStep ==
    ASSUME AuthoritiesInv, SaveDeployment
    PROVE  AuthoritiesInv' /\ AuthoritiesKept
<1>1. /\ task.steps # << >> /\ Head(task.steps) = "save" /\ Creating
      /\ record' = [store |-> task.oft, mint |-> task.mint]
      /\ task' = [task EXCEPT !.steps = Tail(@)] \/ task' = Idle
      /\ UNCHANGED <<mints, stores, drawn, touched>>
  BY TaskTaken DEF SaveDeployment, Step, AuthoritiesInv
<1>2. task.steps \in Saving /\ Tail(task.steps) = << >>
  BY <1>1, CreatingSteps DEF Creating
<1>3. /\ task.oft \in OFTs /\ task.mint \in Mints
      /\ stores[task.oft] = task.mint
      /\ task.mint = task.oft => task.oft \in mints[task.mint].mint
  BY <1>1, <1>2, StepsApart DEF Creating
<1>4. AuthoritiesTyped' /\ MinterFreezes' /\ RecordKept
  BY <1>1, <1>3 DEF AuthoritiesInv, AuthoritiesTyped, MintsTyped, MinterFreezes, RecordKept,
                    RecordMints
<1>5. TaskKnown'
  <2>1. ASSUME task' = [task EXCEPT !.steps = Tail(@)]
        PROVE  Creating'
    <3>1. /\ << >> \in TokenSteps /\ << >> \in AdapterSteps /\ << >> \in TokenAfter
      BY DEF TokenSteps, AdapterSteps, TokenAfter, Saving
    <3> QED
      BY <1>1, <1>2, <1>3, <2>1, <3>1, StepsApart DEF Creating, TokenSteps, AdapterSteps
  <2> QED
    BY <1>1, <2>1 DEF TaskKnown
<1>6. \A m \in Mints : Exists(m)' => MintKept(m)
  BY <1>1 DEF MintKept, Mintable, StoreOf, Exists
<1> QED
  BY <1>1, <1>4, <1>5, <1>6 DEF AuthoritiesInv, AuthoritiesKept, TestnetOnly

LEMMA MoveAuthorityStep ==
    ASSUME AuthoritiesInv, NEW kind \in {"mint", "freeze"}, MoveAuthority(kind)
    PROVE  AuthoritiesInv' /\ AuthoritiesKept
<1>1. /\ Step(kind) /\ task.steps # << >> /\ Head(task.steps) = kind
      /\ Landed /\ MovingAuthority
      /\ Wallet \in mints[task.mint][kind]
      /\ mints' = [mints EXCEPT ![task.mint][kind] = task.authority]
      /\ UNCHANGED <<stores, record, drawn>>
  BY TaskTaken DEF MoveAuthority, Step, AuthoritiesInv
<1>2. /\ touched' = touched \cup {"testnet"}
      /\ task' = [task EXCEPT !.steps = Tail(@)] \/ task' = Idle
  BY <1>1, LandedOnTestnet
<1>3. /\ task.mint \in Mints /\ task.oft \in Escrows /\ task.authority \in SUBSET Signers
      /\ task.oft \in task.authority
  BY <1>1 DEF MovingAuthority
<1>4. /\ MintsTyped'
      /\ \A other \in Mints \ {task.mint} : mints'[other] = mints[other]
      /\ \A m \in Mints : mints'[m].update = mints[m].update
  <2>1. CASE kind = "mint"
    BY <1>1, <1>3, <2>1 DEF AuthoritiesInv, AuthoritiesTyped, MintsTyped
  <2>2. CASE kind = "freeze"
    BY <1>1, <1>3, <2>2 DEF AuthoritiesInv, AuthoritiesTyped, MintsTyped
  <2> QED
    BY <2>1, <2>2
<1>5. AuthoritiesTyped'
  BY <1>1, <1>4 DEF AuthoritiesInv, AuthoritiesTyped
<1>6. CASE kind = "mint"
  <2>1. /\ mints'[task.mint].mint = task.authority
        /\ mints'[task.mint].freeze = mints[task.mint].freeze
        /\ Wallet \in mints[task.mint].mint
    BY <1>1, <1>3, <1>6 DEF AuthoritiesInv, AuthoritiesTyped, MintsTyped
  <2>2. MinterFreezes'
    BY <1>4, <2>1 DEF AuthoritiesInv, MinterFreezes, Mints
  <2>3. TaskKnown'
    <3>1. ASSUME task' = [task EXCEPT !.steps = Tail(@)]
          PROVE  MovingAuthority'
      <4>1. Tail(task.steps) = <<"freeze">>
        BY <1>1, <1>6, MovingSteps DEF MovingAuthority
      <4> QED
        BY <1>1, <2>1, <3>1, <4>1 DEF MovingAuthority
    <3> QED
      BY <1>2, <3>1 DEF TaskKnown
  <2>4. RecordKept
    <3>1. CASE record.store # Absent /\ record.mint = task.mint /\ record.mint = record.store
      <4>1. CASE task.oft = record.store
        BY <1>1, <1>3, <2>1, <3>1, <4>1
           DEF AuthoritiesInv, AuthoritiesTyped, RecordKept, RecordMints
      <4>2. CASE task.oft # record.store
        BY <1>1, <1>6, <3>1, <4>2 DEF RecordKept, MovingMint
      <4> QED
        BY <4>1, <4>2
    <3>2. CASE ~(record.store # Absent /\ record.mint = task.mint /\ record.mint = record.store)
      BY <1>1, <1>3, <1>4, <3>2, OtherMint DEF AuthoritiesInv
    <3> QED
      BY <3>1, <3>2
  <2>5. ASSUME NEW m \in Mints, Exists(m)'
        PROVE  MintKept(m)
    <3>1. CASE m # task.mint
      BY <1>1, <1>4, <2>5, <3>1 DEF MintKept, Mintable, StoreOf, Exists
    <3>2. CASE m = task.mint /\ StoreOf(task.oft, m)
      BY <1>1, <1>3, <2>1, <3>2 DEF MintKept, Mintable, StoreOf
    <3>3. CASE m = task.mint /\ ~StoreOf(task.oft, m)
      BY <1>1, <1>6, <3>3 DEF MintKept, MovingMint
    <3> QED
      BY <3>1, <3>2, <3>3
  <2> QED
    BY <1>2, <1>5, <2>2, <2>3, <2>4, <2>5 DEF AuthoritiesInv, AuthoritiesKept, TestnetOnly
<1>7. CASE kind = "freeze"
  <2>1. task.steps = <<"freeze">> /\ Tail(task.steps) = << >>
    BY <1>1, <1>7, MovingSteps DEF MovingAuthority
  <2>2. /\ mints'[task.mint].freeze = task.authority
        /\ mints[task.mint].mint = task.authority
        /\ \A m \in Mints : mints'[m].mint = mints[m].mint
    BY <1>1, <1>3, <1>4, <1>7, <2>1 DEF AuthoritiesInv, AuthoritiesTyped, MintsTyped,
                                         MovingAuthority
  <2>3. MinterFreezes'
    BY <1>4, <2>2 DEF AuthoritiesInv, MinterFreezes, Mints
  <2>4. TaskKnown'
    <3>1. ASSUME task' = [task EXCEPT !.steps = Tail(@)]
          PROVE  MovingAuthority'
      BY <1>1, <2>1, <3>1 DEF MovingAuthority
    <3> QED
      BY <1>2, <3>1 DEF TaskKnown
  <2>5. RecordKept
    <3>1. record.store # Absent => record.mint \in Mints
      BY DEF AuthoritiesInv, AuthoritiesTyped
    <3> QED
      BY <1>1, <2>2, <3>1 DEF RecordKept, RecordMints
  <2>6. \A m \in Mints : Exists(m)' => MintKept(m)
    BY <1>1, <1>4, <2>2 DEF MintKept, Mintable, StoreOf, Exists
  <2> QED
    BY <1>2, <1>5, <2>3, <2>4, <2>5, <2>6 DEF AuthoritiesInv, AuthoritiesKept, TestnetOnly
<1> QED
  BY <1>6, <1>7

LEMMA UpdateAuthorityStep ==
    ASSUME AuthoritiesInv, UpdateAuthority
    PROVE  AuthoritiesInv' /\ AuthoritiesKept
<1>1. /\ task.steps # << >> /\ Landed /\ MovingUpdates
      /\ mints[task.mint].update = Wallet
      /\ mints' = [mints EXCEPT
             ![task.mint].update = IF task.renounce THEN "system" ELSE "governance",
             ![task.mint].mutable = Mutable(task.renounce, @)]
      /\ UNCHANGED <<stores, record, drawn>>
  BY TaskTaken DEF UpdateAuthority, Step, AuthoritiesInv
<1>2. /\ touched' = touched \cup {"testnet"}
      /\ task' = [task EXCEPT !.steps = Tail(@)] \/ task' = Idle
  BY <1>1, LandedOnTestnet
<1>3. task.mint \in Mints /\ task.renounce \in BOOLEAN
  BY <1>1 DEF MovingUpdates
<1>4. Exists(task.mint)
  BY <1>1 DEF Exists, Wallet, Absent
<1>5. /\ MintsTyped'
      /\ \A m \in Mints : /\ mints'[m].mint = mints[m].mint
                          /\ mints'[m].freeze = mints[m].freeze
                          /\ m # task.mint => mints'[m].update = mints[m].update
  BY <1>1, <1>3 DEF AuthoritiesInv, AuthoritiesTyped, MintsTyped, Updaters, Mutable
<1>6. \A m \in Mints : Exists(m)' => Exists(m)
  BY <1>4, <1>5 DEF Exists
<1>7. AuthoritiesTyped' /\ MinterFreezes'
  BY <1>1, <1>5 DEF AuthoritiesInv, AuthoritiesTyped, MinterFreezes, Mints
<1>8. RecordKept
  <2>1. record.store # Absent => record.mint \in Mints
    BY DEF AuthoritiesInv, AuthoritiesTyped
  <2> QED
    BY <1>1, <1>5, <2>1 DEF RecordKept, RecordMints
<1>9. \A m \in Mints : Exists(m)' => MintKept(m)
  BY <1>1, <1>5, <1>6 DEF MintKept, Mintable, StoreOf
<1>10. TaskKnown'
  <2>1. ASSUME task' = [task EXCEPT !.steps = Tail(@)]
        PROVE  MovingUpdates'
    <3>1. Tail(task.steps) = << >>
      BY <1>1, UpdateSteps DEF MovingUpdates
    <3> QED
      BY <1>1, <2>1, <3>1 DEF MovingUpdates
  <2> QED
    BY <1>2, <2>1 DEF TaskKnown
<1> QED
  BY <1>2, <1>7, <1>8, <1>9, <1>10 DEF AuthoritiesInv, AuthoritiesKept, TestnetOnly

LEMMA SendGoesOn ==
    ASSUME Sending, task.steps # << >>, task' = [task EXCEPT !.steps = Tail(@)]
    PROVE  Sending'
<1>. DEFINE left == {<<"quote", "submit">>, <<"submit">>, << >>}
<1>1. Tail(task.steps) \in left
  BY SendSteps DEF Sending
<1> QED
  BY <1>1 DEF Sending

LEMMA QuoteStep ==
    ASSUME AuthoritiesInv, Quote
    PROVE  AuthoritiesInv' /\ AuthoritiesKept
<1>1. /\ task.steps # << >> /\ Sending /\ task' = [task EXCEPT !.steps = Tail(@)]
      /\ touched' = touched /\ UNCHANGED authorityVars
  BY TaskTaken DEF Quote, Step, AuthoritiesInv
<1> QED
  BY <1>1, SendGoesOn, AuthoritiesUntouched DEF TaskKnown

LEMMA SubmitStep ==
    ASSUME AuthoritiesInv, Submit
    PROVE  AuthoritiesInv' /\ AuthoritiesKept
<1>1. task.steps # << >> /\ Sending /\ Landed /\ UNCHANGED authorityVars
  BY TaskTaken DEF Submit, Step, AuthoritiesInv
<1> QED
  BY <1>1, LandedOnTestnet, SendGoesOn, AuthoritiesUntouched DEF TaskKnown

\* Whatever leaves the task alone or ends it.
LEMMA TaskLeftAlone ==
    ASSUME AuthoritiesInv, task' \in {task, Idle}, touched' = touched, UNCHANGED authorityVars
    PROVE  AuthoritiesInv' /\ AuthoritiesKept
<1>1. task' = task => TaskKnown'
  BY DEF AuthoritiesInv, TaskKnown, Creating, MovingAuthority, MovingUpdates, Sending,
         authorityVars
<1> QED
  BY <1>1, AuthoritiesUntouched DEF TaskKnown

LEMMA AuthoritiesStep ==
    ASSUME AuthoritiesInv, [Next]_vars
    PROVE  AuthoritiesInv' /\ AuthoritiesKept
<1>1. ASSUME NEW yes \in BOOLEAN,
             \/ CreateAdapter(yes)
             \/ SetOutboundRateLimit(yes) \/ SetInboundRateLimit(yes)
             \/ Wire(yes)
      PROVE  AuthoritiesInv' /\ AuthoritiesKept
  <2>1. MainnetTask(FALSE)
    BY <1>1, NothingOnMainnet
       DEF CreateAdapter, SetOutboundRateLimit, SetInboundRateLimit, Wire, MainnetExecution,
           MainnetTask
  <2> QED
    BY <2>1, MainnetTaskStep
<1>2. ASSUME DeploySanOFT
      PROVE  AuthoritiesInv' /\ AuthoritiesKept
  BY <1>2, MainnetTaskStep DEF DeploySanOFT, MainnetExecution
<1>3. ASSUME NEW net \in Networks, Begin(net)
      PROVE  AuthoritiesInv' /\ AuthoritiesKept
  BY <1>3, BeginStep
<1>4. ASSUME Proceed
      PROVE  AuthoritiesInv' /\ AuthoritiesKept
  <2>1. ASSUME Finish PROVE  AuthoritiesInv' /\ AuthoritiesKept
    BY <2>1, TaskLeftAlone DEF Finish
  <2> QED
    BY <1>4, <2>1, CreateMultisigStep, CreateTokenStep, InitOftStep, GiveAuthorityStep,
       SaveDeploymentStep, MoveAuthorityStep, UpdateAuthorityStep, QuoteStep, SubmitStep
       DEF Proceed
<1>5. ASSUME Abandon \/ Administer \/ HandOver
      PROVE  AuthoritiesInv' /\ AuthoritiesKept
  BY <1>5, TaskLeftAlone DEF Abandon, Administer, HandOver
<1>6. ASSUME UNCHANGED vars
      PROVE  AuthoritiesInv' /\ AuthoritiesKept
  BY <1>6, TaskLeftAlone DEF vars
<1> QED
  BY <1>1, <1>2, <1>3, <1>4, <1>5, <1>6 DEF Next

LEMMA AuthoritiesInit == Init => AuthoritiesInv
<1>. SUFFICES ASSUME Init PROVE AuthoritiesInv
  OBVIOUS
<1>1. \A m \in Mints : mints[m] = IF m = Existing THEN NewMint(TRUE) ELSE NoMint
  BY DEF Init
<1>2. NewMint(TRUE) \in [mint : SUBSET Signers, freeze : SUBSET Signers,
                         update : Updaters, mutable : BOOLEAN]
  BY DEF NewMint, Signers, Updaters
<1>3. NoMint \in [mint : SUBSET Signers, freeze : SUBSET Signers,
                  update : Updaters, mutable : BOOLEAN]
  BY DEF NoMint, Updaters
<1>4. AuthoritiesTyped
  BY <1>1, <1>2, <1>3 DEF Init, AuthoritiesTyped, MintsTyped
<1>5. MinterFreezes
  BY <1>1 DEF MinterFreezes, Mints, NoMint, NewMint
<1> QED
  BY <1>4, <1>5 DEF Init, AuthoritiesInv, TestnetOnly, TaskKnown

-----------------------------------------------------------------------------
(* What was sent. *)

LEMMA Whole ==
    ASSUME NEW units \in Int
    PROVE  units % Rate \in Int
BY AmountsAssumption

LEMMA CarriedTyped ==
    ASSUME NEW side, NEW units \in Int
    PROVE  Carried(side, units) \in Int
<1>1. Debited(units) \in Int
  BY Whole DEF Debited
<1> QED
  BY <1>1, AmountsAssumption DEF Carried

LEMMA SendsStep ==
    ASSUME AuthoritiesInv, SendsInv, [Next]_vars
    PROVE  SendsInv'
<1>1. ASSUME Submit
      PROVE  SendsInv'
  <2>1. Sending
    BY <1>1, TaskTaken DEF Submit, AuthoritiesInv
  <2>2. /\ task.units \in Int /\ task.minimum \in Int /\ task.asked \in Int
        /\ 2 * task.minimum > task.asked - 2
    BY <2>1 DEF Sending
  <2>. DEFINE carried == Carried(task.side, task.units)
  <2>3. carried \in Int /\ carried >= task.minimum
    BY <1>1, <2>2, CarriedTyped DEF Submit, Sendable
  <2>4. sent' = sent \cup {[asked |-> task.asked, carried |-> carried]}
    BY <1>1 DEF Submit
  <2>. HIDE DEF carried
  <2>5. 2 * carried > task.asked - 2
    BY <2>2, <2>3
  <2> QED
    BY <2>2, <2>3, <2>4, <2>5 DEF SendsInv
<1>2. ASSUME ~Submit
      PROVE  sent' = sent
  BY <1>2 DEF Next, vars, sendVars, CreateAdapter, SetOutboundRateLimit, SetInboundRateLimit,
     Wire, DeploySanOFT, MainnetTask, Begin, Create, SetAuthority, SetUpdateAuthority,
     UpdateMetadata, EndpointTask, SendOFT, Proceed, CreateMultisig, CreateToken, InitOft, GiveAuthority,
     SaveDeployment, MoveAuthority, UpdateAuthority, Quote, Finish, Abandon, Administer, HandOver
<1> QED
  BY <1>1, <1>2 DEF SendsInv

-----------------------------------------------------------------------------
(* The handoff. *)

\* The first roles of the plan, as many as were handed over.
Before(k) == {HandoffPlan(i) : i \in 1 .. k}

LEMMA PlanIsInjective ==
    \A i, j \in 1 .. 5 : HandoffPlan(i) = HandoffPlan(j) => i = j
BY DEF HandoffPlan

LEMMA PlanIsRoles == Roles = Before(5)
BY DEF Roles, Before, HandoffPlan

LEMMA NextOfPlan ==
    ASSUME NEW k \in 0 .. 4, handed = Before(k)
    PROVE  NextRole = HandoffPlan(k + 1)
<1>. DEFINE next(i) == /\ HandoffPlan(i) \notin handed
                       /\ \A j \in 1 .. i - 1 : HandoffPlan(j) \in handed
<1>1. k + 1 \in 1 .. 5 /\ next(k + 1)
  <2>1. HandoffPlan(k + 1) \notin handed
    BY PlanIsInjective DEF Before
  <2> QED
    BY <2>1 DEF Before
<1>2. ASSUME NEW i \in 1 .. 5, next(i)
      PROVE  i = k + 1
  <2>1. i > k
    BY <1>2 DEF Before
  <2>2. ~(i > k + 1)
    <3>. SUFFICES ASSUME i > k + 1 PROVE FALSE
      OBVIOUS
    <3>1. k + 1 \in 1 .. i - 1
      OBVIOUS
    <3> QED
      BY <1>1, <1>2, <3>1
  <2> QED
    BY <2>1, <2>2
<1>. HIDE DEF next
<1>3. (CHOOSE i \in 1 .. 5 : next(i)) = k + 1
  BY <1>1, <1>2
<1> QED
  BY <1>3 DEF NextRole, next

LEMMA HandoffStep ==
    ASSUME HandedInOrder, [Next]_vars
    PROVE  HandedInOrder'
<1>1. ASSUME HandOver
      PROVE  HandedInOrder'
  <2>1. PICK k \in 0 .. 5 : handed = Before(k)
    BY DEF HandedInOrder, Before
  <2>2. k # 5
    BY <1>1, <2>1, PlanIsRoles DEF HandOver
  <2>3. handed' = Before(k) \cup {HandoffPlan(k + 1)}
    BY <1>1, <2>1, <2>2, NextOfPlan DEF HandOver
  <2>4. 1 .. k + 1 = (1 .. k) \cup {k + 1}
    OBVIOUS
  <2>5. handed' = Before(k + 1)
    BY <2>3, <2>4 DEF Before
  <2> QED
    BY <2>2, <2>5 DEF HandedInOrder, Before
<1>2. ASSUME ~HandOver
      PROVE  handed' = handed
  BY <1>2 DEF Next, vars, sendVars, CreateAdapter, SetOutboundRateLimit, SetInboundRateLimit,
     Wire, DeploySanOFT, MainnetTask, Begin, Create, SetAuthority, SetUpdateAuthority,
     UpdateMetadata, EndpointTask, SendOFT, Proceed, CreateMultisig, CreateToken, InitOft, GiveAuthority,
     SaveDeployment, MoveAuthority, UpdateAuthority, Quote, Submit, Finish, Abandon, Administer
<1> QED
  BY <1>1, <1>2 DEF HandedInOrder

LEMMA OrderedCanFinish ==
    ASSUME HandedInOrder
    PROVE  HandoffCanFinish
<1>. SUFFICES ASSUME handed # Roles
              PROVE  Appointer(NextRole) \notin handed
  BY DEF HandoffCanFinish
<1>1. PICK k \in 0 .. 5 : handed = Before(k)
  BY DEF HandedInOrder, Before
<1>2. k \in 0 .. 4
  BY <1>1, PlanIsRoles
<1>3. NextRole = HandoffPlan(k + 1)
  BY <1>1, <1>2, NextOfPlan
<1>4. \E i \in k + 1 .. 5 : Appointer(HandoffPlan(k + 1)) = HandoffPlan(i)
  <2>1. CASE k = 0
    <3>1. Appointer(HandoffPlan(1)) = HandoffPlan(2)
      BY DEF Appointer, HandoffPlan
    <3> QED
      BY <2>1, <3>1
  <2>2. CASE k = 3
    <3>1. Appointer(HandoffPlan(4)) = HandoffPlan(5)
      BY DEF Appointer, HandoffPlan
    <3> QED
      BY <2>2, <3>1
  <2>3. CASE k \in {1, 2, 4}
    <3>1. /\ Appointer(HandoffPlan(2)) = HandoffPlan(2)
          /\ Appointer(HandoffPlan(3)) = HandoffPlan(3)
          /\ Appointer(HandoffPlan(5)) = HandoffPlan(5)
      BY DEF Appointer, HandoffPlan
    <3> QED
      BY <2>3, <3>1
  <2> QED
    BY <1>2, <2>1, <2>2, <2>3
<1>5. PICK i \in k + 1 .. 5 : Appointer(HandoffPlan(k + 1)) = HandoffPlan(i)
  BY <1>4
<1> QED
  BY <1>1, <1>2, <1>3, <1>5, PlanIsInjective DEF Before

-----------------------------------------------------------------------------
(* However tasks are run, abandoned and run again, what the tasks know of    *)
(* the stores and the authorities stays true, every message carries what was *)
(* asked, and the roles go in the order of the plan.                         *)
THEOREM TasksInvariant == Spec => []TasksInv
<1>1. Init => TasksInv
  <2>. SUFFICES ASSUME Init PROVE TasksInv
    OBVIOUS
  <2>1. handed = Before(0)
    BY DEF Init, Before
  <2>2. HandedInOrder
    BY <2>1 DEF HandedInOrder, Before
  <2> QED
    BY <2>2, AuthoritiesInit DEF TasksInv, SendsInv, Init
<1>2. TasksInv /\ [Next]_vars => TasksInv'
  BY AuthoritiesStep, SendsStep, HandoffStep DEF TasksInv
<1> QED
  BY <1>1, <1>2, PTL DEF Spec

(* No transaction of any task lands on mainnet, whichever tasks are run and  *)
(* wherever they stop: every connection that writes was to testnet.          *)
THEOREM MainnetAlwaysUntouched == Spec => []MainnetUntouched
<1>1. TasksInv => MainnetUntouched
  BY DEF TasksInv, AuthoritiesInv, TestnetOnly, MainnetUntouched
<1> QED
  BY <1>1, TasksInvariant, PTL

(* From the moment OFT.json is written it names a store of the mint named     *)
(* there, which may mint it if the OFT brought it, for any number of OFTs and *)
(* of tasks abandoned anywhere: only a setauthority of that mint, for an      *)
(* escrow that is not the recorded one, undoes it.                            *)
THEOREM RecordedStoreAlwaysMints == Spec => RecordedStoreMints
<1>1. TasksInv /\ [Next]_vars => [RecordKept]_vars
  BY AuthoritiesStep DEF TasksInv, AuthoritiesKept
<1> QED
  BY <1>1, TasksInvariant, PTL DEF Spec, RecordedStoreMints

(* The right to mint a token is lost by no creation and no abandoned task,    *)
(* for any number of OFTs and any minters the operator names: only by a       *)
(* setauthority for an escrow that has no store of that token.                *)
THEOREM MintingNeverStranded == Spec => MintingNotStranded
<1>1. TasksInv /\ [Next]_vars => [\A m \in Mints : Exists(m)' => MintKept(m)]_vars
  BY AuthoritiesStep DEF TasksInv, AuthoritiesKept
<1> QED
  BY <1>1, TasksInvariant, PTL DEF Spec, MintingNotStranded

(* Wherever a creation or a setauthority is abandoned, a deployer that may    *)
(* still mint a token created here may also freeze it, for any minters.       *)
THEOREM MinterAlwaysFreezes == Spec => []MinterFreezes
<1>1. TasksInv => MinterFreezes
  BY DEF TasksInv, AuthoritiesInv
<1> QED
  BY <1>1, TasksInvariant, PTL

(* Every message sent carries what the operator asked for at least, up to    *)
(* the digits a local unit does not have, for any amounts, minimums and unit *)
(* of the message, and however the fee changed between quote and send.       *)
THEOREM MinimumAlwaysKept == Spec => []MinimumKept
<1>1. TasksInv => MinimumKept
  BY DEF TasksInv, SendsInv, MinimumKept
<1> QED
  BY <1>1, TasksInvariant, PTL

(* Wherever the handoff stops, the deployer still holds the role that        *)
(* appoints the next one: the order of the plan is what this rests on.       *)
THEOREM HandoffCanAlwaysFinish == Spec => []HandoffCanFinish
<1>1. TasksInv => HandoffCanFinish
  BY OrderedCanFinish DEF TasksInv
<1> QED
  BY <1>1, TasksInvariant, PTL

-----------------------------------------------------------------------------
(* The rate limits of an approved plan. *)

(* A packet the limiter of its source admits fits the limiter of its         *)
(* destination once that is full: under an approved plan no packet is larger *)
(* than what its destination can ever execute.                               *)
THEOREM AdmittedPacketsFit ==
    ASSUME NEW profile \in Profiles, NEW plan \in Plans, PlanApproved(plan, profile),
           NEW c \in {"Solana", "Robinhood"}, NEW amount \in Nat,
           amount <= plan[c]["outbound"].capacity
    PROVE  amount <= plan[Across(c)]["inbound"].capacity
<1>1. "outbound" \in Directions /\ "inbound" \in Directions
  BY DEF Directions
<1>2. plan[c]["outbound"].capacity = profile.capacity
  BY <1>1 DEF PlanApproved
<1>3. plan[Across(c)]["inbound"].capacity = profile.capacity
  BY <1>1 DEF PlanApproved, Across
<1> QED
  BY <1>2, <1>3

(* The two ways of refilling agree: in a day a limiter of Solana refills its *)
(* capacity but for less than a local unit for each second, and never more   *)
(* than its counterpart on Robinhood does.                                   *)
THEOREM RefillsAgree ==
    ASSUME NEW profile \in Profiles, NEW plan \in Plans, PlanApproved(plan, profile),
           NEW d \in Directions, NEW e \in Directions
    PROVE  /\ Day * plan["Solana"][d].refill <= plan["Robinhood"][e].refill
           /\ plan["Robinhood"][e].refill - Day * plan["Solana"][d].refill < Day
<1>1. /\ plan["Solana"][d].refill = profile.refill
      /\ plan["Robinhood"][e].refill = profile.capacity
  BY DEF PlanApproved
<1>2. /\ Day * profile.refill <= profile.capacity
      /\ profile.capacity - Day * profile.refill < Day
  BY DEF Profiles, Day
<1> QED
  BY <1>1, <1>2

(* A limiter set by an accepted task is one an approved plan may have.       *)
THEOREM ApprovedTaskRefillsInADay ==
    ASSUME NEW capacity \in Int, NEW refill \in Int, TaskApproved(capacity, refill)
    PROVE  Day * refill <= capacity /\ capacity - Day * refill < Day
BY DEF TaskApproved, Profiles, Day
=============================================================================
