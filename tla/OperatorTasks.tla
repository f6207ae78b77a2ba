---------------------------- MODULE OperatorTasks ----------------------------
(***************************************************************************)
(* The operator's command-line tasks: creating an OFT, moving its mint and *)
(* update authorities, sending, and the plan that hands the bridge over to *)
(* governance.  A task is a sequence of transactions and one file; it may  *)
(* be abandoned before any of them, or a transaction may land although its *)
(* confirmation never arrives, and the operator runs tasks again.  Nothing *)
(* here may reach mainnet in this revision of the code.                    *)
(***************************************************************************)
EXTENDS Integers, Sequences

CONSTANTS OFTs,        \* OFTs that may be created, a bound on their number
          MaxTasks,    \* bound on tasks started
          MaxChanges,  \* bound on changes of the fee and the pause
          Minters,     \* minters the operator may name, the wallet among them
          Rate,        \* local units in a unit of the message
          Holding,     \* what the wallet holds of a token to begin with
          Amounts,     \* amounts the operator types, in halves of a local unit
          Minimums     \* minimums the operator types, in the same

ASSUME AmountsAssumption ==
    Rate \in Nat \ {0} /\ Holding \in Int /\ Amounts \subseteq Int /\ Minimums \subseteq Int

Networks == {"testnet", "mainnet"}
Wallet == "wallet"

\* One mint existed before; an OFT n brings the escrow n, whose store is named by
\* it too, and, unless it is a Mint-And-Burn Adapter on a mint there is, the mint n.
Existing == "existing mint"
Mints == OFTs \cup {Existing}
Absent == "absent"

\* An escrow no run of a task has drawn: mistyped, or of another program.
Stray == "stray escrow"
Escrows == OFTs \cup {Stray}

ASSUME NamesAssumption ==
    /\ Existing \notin OFTs /\ Absent \notin OFTs /\ Stray \notin OFTs
    /\ Wallet \notin Escrows
Idle == [steps |-> << >>]

VARIABLES mints,    \* mints[m]: who may mint and freeze (one of a set may sign),
                    \*   who may update the metadata, and whether anyone can
          stores,   \* stores[n], the mint of an initialised OFT store, or Absent
          record,   \* OFT.json, the store and the mint
          drawn,    \* escrows generated by some run
          task,     \* the task running, with the steps it has left
          touched,  \* networks a transaction landed on
          started,  \* how many tasks were started
          fee,      \* whether the store charges a fee, one unit of the message
          paused,   \* whether the store is paused
          changes,  \* how often either changed
          balance,  \* balance[side], what the wallet holds
          sent,     \* messages sent, with what was asked and what they carry
          handed    \* roles handed over to governance

authorityVars == <<mints, stores, record, drawn>>
sendVars == <<fee, paused, changes, balance, sent>>
vars == <<authorityVars, task, touched, started, sendVars, handed>>

\* What Metaplex gives the wallet when it creates a token.
NewMint(mutable) ==
    [mint |-> {Wallet}, freeze |-> {Wallet}, update |-> Wallet, mutable |-> mutable]

NoMint == [mint |-> {}, freeze |-> {}, update |-> Absent, mutable |-> FALSE]

Exists(m) == mints[m].update # Absent

Multisig(store, minters) == {store} \cup minters

-----------------------------------------------------------------------------
(* Which tasks may write. *)

\* The future phase is not in this revision: the gate refuses any value.
MainnetExecution == FALSE

\* Mutated form of Connects: an authorised phase is taken for granted.
Connects_Any(net, readOnly) == TRUE

\* A writing connection to mainnet is refused; one that reads, or that only
\* prepares a transaction for a vault, is not.
Connects(net, readOnly) == net = "mainnet" /\ ~readOnly => MainnetExecution

Start(next) ==
    /\ task = Idle
    /\ started < MaxTasks
    /\ started' = started + 1
    /\ task' = next

\* The step at the head has been done: the task goes on, or never learns of it.
Landed ==
    /\ task' \in {[task EXCEPT !.steps = Tail(@)], Idle}
    /\ touched' = touched \cup {task.net}
    /\ UNCHANGED started

Step(name) == task.steps # << >> /\ Head(task.steps) = name

\* Validation or a prompt stops the task, a transaction fails, or the process ends.
Abandon ==
    /\ task # Idle
    /\ task' = Idle
    /\ UNCHANGED <<authorityVars, touched, started, sendVars, handed>>

\* The last step was confirmed.
Finish ==
    /\ task # Idle
    /\ task.steps = << >>
    /\ task' = Idle
    /\ UNCHANGED <<authorityVars, touched, started, sendVars, handed>>

-----------------------------------------------------------------------------
(* The tasks of mainnet: arguments are validated, nothing is broadcast. *)

\* OFT.json is there to be read.
Recorded == record.store # Absent

MainnetTask(broadcasts) ==
    /\ Start(Idle)
    /\ touched' = IF broadcasts THEN touched \cup {"mainnet"} ELSE touched
    /\ UNCHANGED <<authorityVars, sendVars, handed>>

\* The mint is inspected before the connection that writes is refused.
CreateAdapter(broadcast) == MainnetTask(broadcast /\ Connects("mainnet", FALSE))

\* The arguments are validated; nothing is built unless it is to be sent.
SetOutboundRateLimit(broadcast) == MainnetTask(broadcast /\ MainnetExecution)
SetInboundRateLimit(broadcast) == MainnetTask(broadcast /\ MainnetExecution)

\* Without a dry run it is refused first; with one, it reads and previews. The
\* initialisation of the configuration and the transfer of ownership run it too.
Wire(dryRun) ==
    /\ dryRun => Recorded
    /\ MainnetTask(~dryRun /\ MainnetExecution)

DeploySanOFT == MainnetTask(MainnetExecution)

-----------------------------------------------------------------------------
(* lz:oft:solana:create *)

\* Mutated form of CreateSteps: the file is written as soon as the store exists.
CreateSteps_EarlySave(adapter, multisig) ==
    LET steps == IF adapter THEN <<"multisig", "store", "save">>
                 ELSE <<"multisig", "token", "store", "save", "authority">>
    IN  IF multisig THEN steps ELSE Tail(steps)

\* Mutated form of CreateSteps: the authority is given away before there is a store.
CreateSteps_EarlyAuthority(adapter, multisig) ==
    LET steps == IF adapter THEN <<"multisig", "store", "save">>
                 ELSE <<"multisig", "token", "authority", "store", "save">>
    IN  IF multisig THEN steps ELSE Tail(steps)

CreateSteps(adapter, multisig) ==
    LET steps == IF adapter THEN <<"multisig", "store", "save">>
                 ELSE <<"multisig", "token", "store", "authority", "save">>
    IN  IF multisig THEN steps ELSE Tail(steps)

\* Additional minters or the store alone, and a freeze authority of its own
\* only with the store alone.
CreateArguments ==
    [minters : (SUBSET Minters) \ {{}}, freeze : {{}}, only : {FALSE}] \cup
    [minters : {{}}, freeze : {{}, {"guardian"}}, only : {TRUE}]

\* The escrow is new in every run; the mint is too, or any that the operator of an
\* adapter names, which is not looked at.  The authority is the store, or a multisig
\* one of whose members suffices; the freeze authority goes with it, or is
\* renounced, or is the one named.
Create(net, adapter, args) ==
    /\ UNCHANGED <<mints, stores, record, touched, sendVars, handed>>
    /\ \/ ~Connects(net, FALSE) /\ Start(Idle) /\ UNCHANGED drawn
       \/ \E n \in OFTs \ drawn, m \in Mints :
             LET authority == Multisig(n, args.minters)
             IN  /\ Connects(net, FALSE)
                 /\ adapter <=> m # n
                 /\ Start([net |-> net, oft |-> n, mint |-> m, authority |-> authority,
                           freeze |-> IF args.only THEN args.freeze ELSE authority,
                           steps |-> CreateSteps(adapter, ~args.only)])
                 /\ drawn' = drawn \cup {n}

\* The multisig is created and its signers are read back.
CreateMultisig ==
    /\ Step("multisig")
    /\ Landed
    /\ UNCHANGED <<authorityVars, sendVars, handed>>

\* Some of the token may be minted to the wallet in the same transaction.
CreateToken ==
    /\ Step("token")
    /\ \E mutable \in BOOLEAN :
           mints' = [mints EXCEPT ![task.mint] = NewMint(mutable)]
    /\ Landed
    /\ UNCHANGED <<stores, record, drawn, sendVars, handed>>

\* The program reads the mint, whoever may mint it.
InitOft ==
    /\ Step("store")
    /\ Exists(task.mint)
    /\ stores' = [stores EXCEPT ![task.oft] = task.mint]
    /\ Landed
    /\ UNCHANGED <<mints, record, drawn, sendVars, handed>>

\* Both authorities in one transaction.
GiveAuthority ==
    /\ Step("authority")
    /\ mints' = [mints EXCEPT ![task.mint].mint = task.authority,
                              ![task.mint].freeze = task.freeze]
    /\ Landed
    /\ UNCHANGED <<stores, record, drawn, sendVars, handed>>

SaveDeployment ==
    /\ Step("save")
    /\ record' = [store |-> task.oft, mint |-> task.mint]
    /\ task' \in {[task EXCEPT !.steps = Tail(@)], Idle}
    /\ UNCHANGED <<mints, stores, drawn, touched, started, sendVars, handed>>

-----------------------------------------------------------------------------
(* lz:oft:solana:setauthority *)

\* A multisig of the store and the minters, also when there are none.
NewAuthority(store, minters) == Multisig(store, minters)

\* Mutated form of SetAuthoritySteps: the freeze authority goes first.
SetAuthoritySteps_FreezeFirst == <<"multisig", "freeze", "mint">>

SetAuthoritySteps == <<"multisig", "mint", "freeze">>

\* The operator names an escrow and a mint, and neither is looked at: the escrow
\* may have no store, or one of another mint.
SetAuthority(net, n, m, minters) ==
    /\ n \in drawn \cup {Stray}
    /\ Start(IF Connects(net, FALSE)
             THEN [net |-> net, oft |-> n, mint |-> m, authority |-> NewAuthority(n, minters),
                   steps |-> SetAuthoritySteps]
             ELSE Idle)
    /\ UNCHANGED <<authorityVars, touched, sendVars, handed>>

\* Each authority is read again and moved by a transaction of its own, which
\* lands only if the wallet can sign for it; one revoked ends the task.
MoveAuthority(kind) ==
    /\ Step(kind)
    /\ Wallet \in mints[task.mint][kind]
    /\ mints' = [mints EXCEPT ![task.mint][kind] = task.authority]
    /\ Landed
    /\ UNCHANGED <<stores, record, drawn, sendVars, handed>>

-----------------------------------------------------------------------------
(* lz:oft:solana:set-update-authority and update-metadata *)

Mutable(renounce, mutable) == ~renounce /\ mutable

\* Renouncing names the System program, which never signs.
SetUpdateAuthority(net, m, renounce) ==
    /\ mints[m].update = Wallet
    /\ ~renounce => mints[m].mutable
    /\ Start(IF Connects(net, FALSE)
             THEN [net |-> net, mint |-> m, renounce |-> renounce, steps |-> <<"update">>]
             ELSE Idle)
    /\ UNCHANGED <<authorityVars, touched, sendVars, handed>>

\* updateV1 refuses metadata that is no longer mutable.
UpdateAuthority ==
    /\ Step("update")
    /\ mints[task.mint].update = Wallet
    /\ mints[task.mint].mutable
    /\ mints' = [mints EXCEPT ![task.mint].update = IF task.renounce THEN "system" ELSE "governance",
                              ![task.mint].mutable = Mutable(task.renounce, @)]
    /\ Landed
    /\ UNCHANGED <<stores, record, drawn, sendVars, handed>>

\* For the wallet it is sent; for a vault, on either network, it is only printed.
UpdateMetadata(net, vault) ==
    \E m \in Mints :
        /\ mints[m].mutable
        /\ mints[m].update = IF vault THEN "governance" ELSE Wallet
        /\ Start(Idle)
        /\ touched' = IF Connects(net, vault) /\ ~vault THEN touched \cup {net} ELSE touched
        /\ UNCHANGED <<authorityVars, sendVars, handed>>

-----------------------------------------------------------------------------
(* lz:oft:send *)

Sides == {"solana", "evm"}
NotGiven == -1

\* The Solana task cuts digits a local unit does not have; the EVM task refuses them.
Parsed(halves) == halves \div 2
Parses(side, halves) == side = "evm" => (halves % 2) = 0

\* Mutated form of Minimum: no minimum unless one is given.
Minimum_None(amount, minimum) == IF minimum = NotGiven THEN 0 ELSE Parsed(minimum)

\* Without a minimum the whole amount has to arrive.
Minimum(amount, minimum) == Parsed(IF minimum = NotGiven THEN amount ELSE minimum)

\* What a program or contract would send now, and what the message would carry.
Debited(units) == units - (units % Rate)
Carried(side, units) ==
    IF side = "solana" /\ fee /\ Debited(units) > 0 THEN Debited(units) - Rate ELSE Debited(units)

Sendable(t) ==
    /\ Carried(t.side, t.units) >= t.minimum
    /\ t.side = "solana" => ~paused

\* The Solana task finds its store in the file or is given one, and checks the
\* balance itself.
SendOFT(net, side, amount, minimum) ==
    /\ Parses(side, amount)
    /\ minimum # NotGiven => Parses(side, minimum)
    /\ side = "solana" => /\ \E n \in OFTs : stores[n] # Absent
                          /\ Parsed(amount) \in 1..balance[side]
    /\ Start(IF Connects(net, FALSE)
             THEN [net |-> net, side |-> side, units |-> Parsed(amount),
                   minimum |-> Minimum(amount, minimum),
                   asked |-> IF minimum = NotGiven THEN amount ELSE minimum,
                   steps |-> <<"quote", "submit">>]
             ELSE Idle)
    /\ UNCHANGED <<authorityVars, touched, sendVars, handed>>

\* The quote makes the checks of the send, and reserves nothing.
Quote ==
    /\ Step("quote")
    /\ Sendable(task)
    /\ task' = [task EXCEPT !.steps = Tail(@)]
    /\ UNCHANGED <<authorityVars, touched, started, sendVars, handed>>

Submit ==
    /\ Step("submit")
    /\ Sendable(task)
    /\ Debited(task.units) <= balance[task.side]
    /\ balance' = [balance EXCEPT ![task.side] = @ - Debited(task.units)]
    /\ sent' = sent \cup {[asked |-> task.asked, carried |-> Carried(task.side, task.units)]}
    /\ Landed
    /\ UNCHANGED <<authorityVars, fee, paused, changes, handed>>

\* The store's admin changes the fee or the pause, at any moment.
Administer ==
    /\ changes < MaxChanges
    /\ \/ fee' = ~fee /\ UNCHANGED paused
       \/ paused' = ~paused /\ UNCHANGED fee
    /\ changes' = changes + 1
    /\ UNCHANGED <<authorityVars, task, touched, started, balance, sent, handed>>

-----------------------------------------------------------------------------
(* lz:oft:solana:skip, clear, nilify, burn and lz:oft:solana:retry-payload *)

\* One transaction on the Endpoint, of which only the network matters here.
EndpointTask(net) ==
    /\ Start(Idle)
    /\ touched' \in {touched, IF Connects(net, FALSE) THEN touched \cup {net} ELSE touched}
    /\ UNCHANGED <<authorityVars, sendVars, handed>>

-----------------------------------------------------------------------------
(* The handoff to governance, as the simulation orders it. *)

Roles == {"solanaDelegate", "solanaStoreAdmin", "solanaUpgradeAuthority",
          "robinhoodDelegate", "robinhoodOwner"}

\* Mutated form of HandoffPlan: ownership goes before the delegate.
HandoffPlan_OwnerFirst(i) ==
    <<"solanaDelegate", "solanaStoreAdmin", "solanaUpgradeAuthority",
      "robinhoodOwner", "robinhoodDelegate">>[i]

HandoffPlan(i) ==
    <<"solanaDelegate", "solanaStoreAdmin", "solanaUpgradeAuthority",
      "robinhoodDelegate", "robinhoodOwner">>[i]

\* The role whose holder signs the change of a role: the admin of the store and
\* the owner of SanOFT appoint the delegates.
Appointer(role) ==
    CASE role = "solanaDelegate" -> "solanaStoreAdmin"
      [] role = "robinhoodDelegate" -> "robinhoodOwner"
      [] OTHER -> role

\* The next role of the plan, each change of which is to be read back.
NextRole == LET i == CHOOSE i \in 1..5 : /\ HandoffPlan(i) \notin handed
                                         /\ \A j \in 1..i - 1 : HandoffPlan(j) \in handed
            IN  HandoffPlan(i)

\* The deployer signs, so it must still hold the role that appoints.
HandOver ==
    /\ task = Idle
    /\ handed # Roles
    /\ Appointer(NextRole) \notin handed
    /\ handed' = handed \cup {NextRole}
    /\ UNCHANGED <<authorityVars, task, touched, started, sendVars>>

-----------------------------------------------------------------------------
Init ==
    /\ mints = [m \in Mints |-> IF m = Existing THEN NewMint(TRUE) ELSE NoMint]
    /\ stores = [n \in OFTs |-> Absent]
    /\ record = [store |-> Absent, mint |-> Absent]
    /\ drawn = {}
    /\ task = Idle
    /\ touched = {}
    /\ started = 0
    /\ fee = FALSE
    /\ paused = FALSE
    /\ changes = 0
    /\ balance = [side \in Sides |-> Holding]
    /\ sent = {}
    /\ handed = {}

Begin(net) ==
    \/ \E adapter \in BOOLEAN, args \in CreateArguments : Create(net, adapter, args)
    \/ \E n \in Escrows, m \in Mints, minters \in SUBSET Minters : SetAuthority(net, n, m, minters)
    \/ \E m \in Mints, renounce \in BOOLEAN : SetUpdateAuthority(net, m, renounce)
    \/ \E vault \in BOOLEAN : UpdateMetadata(net, vault)
    \/ EndpointTask(net)
    \/ \E side \in Sides, amount \in Amounts, minimum \in Minimums \cup {NotGiven} :
           SendOFT(net, side, amount, minimum)

Proceed ==
    \/ CreateMultisig
    \/ CreateToken
    \/ InitOft
    \/ GiveAuthority
    \/ SaveDeployment
    \/ \E kind \in {"mint", "freeze"} : MoveAuthority(kind)
    \/ UpdateAuthority
    \/ Quote
    \/ Submit
    \/ Finish

Next ==
    \/ \E yes \in BOOLEAN : \/ CreateAdapter(yes)
                           \/ SetOutboundRateLimit(yes) \/ SetInboundRateLimit(yes)
                           \/ Wire(yes)
    \/ DeploySanOFT
    \/ \E net \in Networks : Begin(net)
    \/ Proceed
    \/ Abandon
    \/ Administer
    \/ HandOver

Spec == Init /\ [][Next]_vars

-----------------------------------------------------------------------------
(* Whatever tasks are run, abandoned and run again, no transaction of any   *)
(* of them lands on mainnet.                                                *)
MainnetUntouched == "mainnet" \notin touched

\* The store of an escrow is one of a mint.
StoreOf(n, m) == n \in OFTs /\ stores[n] = m

\* lz:oft:solana:setauthority, about to move the authority to mint m.
MovingMint(m) == Step("mint") /\ task.mint = m

RecordMints ==
    record.store # Absent =>
        /\ stores[record.store] = record.mint
        /\ record.mint = record.store => record.store \in mints[record.mint].mint

RecordKept ==
    \/ RecordMints'
    \/ record' = record /\ ~RecordMints
    \/ MovingMint(record.mint) /\ task.oft # record.store

(* OFT.json, which sends and wiring are made with, names a store of the mint  *)
(* named there, which may mint it if the OFT brought it: that is so from the  *)
(* moment the file is written, wherever earlier creations were abandoned, and *)
(* only a setauthority of that mint for another escrow ever undoes it.        *)
RecordedStoreMints == [][RecordKept]_vars

Mintable(m) ==
    \/ Wallet \in mints[m].mint
    \/ \E n \in OFTs : n \in mints[m].mint /\ StoreOf(n, m)

MintKept(m) ==
    \/ Mintable(m)'
    \/ Exists(m) /\ ~Mintable(m)
    \/ MovingMint(m) /\ ~StoreOf(task.oft, m)

(* The right to mint a token, which the deployer or a store of that token has *)
(* when it is created, is lost by no creation and no abandoned task: only a   *)
(* setauthority for an escrow that has no store of that token takes it away.  *)
MintingNotStranded == [][\A m \in Mints : Exists(m)' => MintKept(m)]_vars

(* A deployer that may mint a token created here may also freeze it, wherever *)
(* a creation or a setauthority was abandoned between its transactions: while *)
(* the right to mint is there to be moved, the one that moves after it is.    *)
MinterFreezes == \A m \in OFTs : Wallet \in mints[m].mint => Wallet \in mints[m].freeze

(* A message carries what the operator asked for at least, up to the digits  *)
(* a local unit does not have, however the fee changed after the quote.      *)
MinimumKept == \A s \in sent : 2 * s.carried > s.asked - 2

(* Wherever the handoff stops, the deployer still holds the role that makes  *)
(* the next change: none of the roles is left with the deployer for good.    *)
HandoffCanFinish == handed # Roles => Appointer(NextRole) \notin handed
=============================================================================
