# Verification of libra-vm

libra-vm is a Move virtual machine in Python: it takes a block of transactions
and a view of the ledger state and returns one output (status, gas, write set)
per transaction. This directory holds TLA+ models of it, TLC configurations that
check them on small instances, and theorems about them that TLAPS checks for
every value of the constants. Paths below are relative to `mol/` of the sources
unless they say otherwise.

1. [The system](#1-the-system) and its components
2. [The modules](#2-the-modules) and how they correspond to the code
3. [The runs](#3-the-runs), their bounds and what they show
4. [Fairness and deadlock](#4-fairness-and-deadlock)
5. [The theorems](#5-the-theorems)
6. [Where code and documentation disagree](#6-where-code-and-documentation-disagree)
7. [What is not modelled](#7-what-is-not-modelled)
8. [The plan](#8-the-plan)

`PROJECT.json` holds the same in a form for tools: components, runs, the lines
each definition stands for, hazards, findings and theorems, and for each checked
property a mutant, which is an error a programmer could have made in the code,
written as an operator next to the right one (`\* MUTANT: ...`), under which the
property fails.

## 1. The system

    consensus --- block of transactions ---> LibraVM.execute_block
                                                |  chunks, verification, prologue
                                                |  payload, epilogue, cleanup
       bytecode verifier <--- loads ---  VMRuntime / code caches
                                                |
                                            Interpreter  <-- gas schedule
                                                |  locals, operand stack, references
                                         execution context
                                                |  load, borrow, move, publish
         StateView <-- BlockDataCache <-- TransactionDataCache
             ^                                  |  write set
             +---------- caller <--- outputs ---+

    on chain: LibraAccount, LibraSystem, Libra, TransactionFee, LibraTimestamp ...
              (Move code; the VM calls its prologues and epilogues by name)

Everything runs in one thread. What makes it hard is not threads but the order
of things: transactions of one block that see each other's writes, contracts that
any account calls in any order, code that may be anything the verifier lets
through, and failures that must leave exactly one trace, the fee.

### Components

For each: its state, its operations, what it talks to, what is hard, and what
makes it correct.

**Data caches and execution contexts** (`move_vm/state/data_cache.py`,
`execution_context.py`, `move_vm/runtime/interpreter_context.py`,
`e2e_tests/data_store.py`). State: the block's map of blobs over an immutable
view, and for each transaction a map of global values (not loaded, clean, dirty,
moved out) and one of published modules. Operations: load, borrow, write through a
reference, `move_to`, `move_from`, publish, make a write set, push it, apply it.
Hard: a deletion has to hide a blob of the layer below; a value must be written
back exactly if it was changed; the context of a failed payload must leave no
trace in that of the cleanup. Correct: a transaction sees what its block has
reached and its own writes, commits what it wrote and nothing else, and all of
it together is an atomic store.

**Accounts, time and fees on chain** (`stdlib/modules/libra_account.move`,
`libra_block.move`, `libra_time.move`, `libra_transaction_timeout.move`,
`transaction_fee.move`). State: per address a balance, a sequence number, a key
and whether its two capabilities are out; the block time and the time to live.
Operations: payments, minting, creation, key rotation, extracting and restoring
capabilities, prologue and epilogue of a transaction, prologue of a block with the
distribution of fees. Hard: capabilities are values that anybody may hold and put
back at any time; additions overflow at u64; the division of the pot leaves a
rest. Correct: no coin is lost or made, at most one capability of an account
exists, only its holder pays or rotates, accounts and sequence numbers stay.

**Block executor** (`libra_vm/libra_vm.py`). State: the chunks of the block, the
outputs so far, the running transaction with its gas. Operations: chunking, the
block prologue, verification, payload, epilogue, cleanup of a failure. Talks to
the contracts (prologue, epilogue), the caches and the interpreter. Hard: a
failure after the payload has spent what verification saw; gas that runs out
anywhere; errors that are not `VMException`s. Correct: one output per transaction
in order, one sequence number per kept transaction, a failure costs its gas and
nothing else, gas is paid by the sender within the limit, and every block ends.

**Validator and discovery sets on chain** (`libra_system.move`,
`validator_config.move`). State: configurations of the candidates, the validator
set and the discovery set with their events, the time of the last
reconfiguration. Hard: two vectors that must keep the same order through
`swap_remove`, copies of keys that go stale, at most one reconfiguration per time.
Correct: the sets align, the events tell them, no two reconfigurations share a
time.

**Coins on chain** (`libra.move`, `lbr.move`). State: `Info` (total value, value
being burned), the coins, `Preburn` queues, the capability. Hard: resources that
move between hands and addresses, FIFO queues made of `Vector::remove`. Correct:
`Info` counts what there is, requests are resolved oldest first.

**Bytecode verifier** (`bytecode_verifier/`): control flow graph, stack usage,
abstract interpretation with a worklist, type and memory safety with the borrow
graph, acquires lists, signatures and kinds, resources within structs, recursive
structs, instantiation loops, duplicates and unused entries, dependencies. State:
tables of the analysis only. Hard: joins at merges in an order nobody chose, loops,
generics, borrows of borrows that are released in any order. Correct: what is
accepted never faults, never loses or copies a resource, never moves or overwrites
what a reference points into, needs finitely many types, has finite layouts; and
the analyses end.

**Interpreter and values** (`move_vm/runtime/interpreter.py`,
`move_vm/types/`). State: frames with locals, the operand stack, references into
containers, gas. Hard: it trusts the verifier and does not check; stacks have
limits; `values.py` asks the garbage collector whether a value is referenced.
Correct: a run of accepted code meets no missing or wrong operand, a reference
sees the value at its place.

**Code caches and loader** (`move_vm/runtime/code_cache/`, `runtime.py`,
`loaded_data/`). State: verified modules and scripts by name or hash, resolved
layouts; they live as long as the `LibraVM` of one block. Hard: what is cached
when the transaction it was loaded in is discarded; dependencies, which are
checked for scripts only. Correct: what is loaded is what is published.

**File format** (`vm/`): tables of a module, serializer and deserializer, bounds
checker, views, resolver. Hard: two programs that must agree on every width and
length; binaries from outside, damaged in any place; indices within nested types;
handles that are copies of what another module defines, in its own numbering.
Correct: what is written is read back, what is read leads nowhere outside of
itself, what is linked means the same on both sides.

**Compiler** (`compiler/`, `move_ir/`). State: the lexer with one token of
lookahead, the pools with the maps into them, the types on the operand stack as far
as the compiler infers them, the breaks and continues that wait for their loop's
end. Hard: modes of the lexer, precedence, forward jumps, signatures of imported
functions in their module's numbering. Correct: a tree is what the text says, the
module passes the checks, the code does what the text says.

**Tools**: disassembler, debugger, functional test harness (`functional_tests/`),
genesis (`vm_genesis/`), end-to-end executor (`e2e_tests/`). Sequential, and built
upon the parts above.

**External**: `libra` (transactions, statuses, cryptography), `canoser` (codecs)
and `python-graph` are not in the repository and appear as the code uses them.

## 2. The modules

| module | models | state and actions |
|---|---|---|
| `BlockStore` | what the two caches promise | an atomic store: a base, the state transactions see, a private copy |
| `DataCache` | `data_cache.py`, contexts, data store | both maps, the references alive, the storage after the outputs; one action per operation of running code and per step of a transaction's life |
| `LibraAccount` | `libra_account.move` and what it calls | functions from a ledger to a ledger and a status: one per public function, in the order of the checks of the source |
| `LibraBlock` | block prologue, fee distribution | the same, extends `LibraAccount` |
| `AccountCalls` | accounts that call each other's code | a ledger; one action runs any call by any account, another begins a block |
| `LibraVM` | `libra_vm.py` | three ledgers (view, block's cache, running context), chunks, outputs, gas; composes `LibraBlock` with the executor |
| `Accounts` | the addresses | the constants that the modules of the contracts share |
| `LibraSystem` | `libra_system.move`, `validator_config.move` | configurations, sets, events; transactions of several calls that commit or abort |
| `Libra` | `libra.move` | bags of coins and preburns in hand, published preburns, `Info`, the capability |
| `CodeUnit` | control flow graph, stack usage | operators on a function's code |
| `CodeVerifier` | `absint.py`, values in `type_memory_safety.py`, the interpreter's loop | the analysis block by block, and then a run of the accepted code that is not told what the analysis found |
| `BorrowGraph` | `borrow_graph.py` | operators on graphs: strong and weak edges, factoring, removal, join |
| `References` | `type_memory_safety.py`, `abstract_state.py`, `acquires_list_verifier.py`, references in `values.py` | the abstract state of a function in step with the machine's pointers; one action per instruction, and the join of two ways |
| `StructDefs` | `signature.py`, `resources.py`, `struct_defs.py`, `module_cache.py`, `type_context.py` | the checks of a module's structs, and the recursion that resolves their layouts as an explicit stack |
| `InstantiationLoops` | `instantiation_loops.py`, `execute_main` | the check of a module's generic functions, and a chain of calls with the depths of the types |
| `VerifiedModule` | `VerifiedModule.new` | composes the two above: a module is submitted, verified, and then used |
| `CodeCache` | `code_cache/`, `runtime.py` | extends `DataCache` by the modules and scripts a VM has loaded, and what runs |
| `BinaryFormat` | `serializer.py`, `deserializer.py`, `file_format_common.py` | formats of the two programs, and how a value is written and read by them |
| `CompiledModule` | `check_bounds.py`, `check_duplication.py`, `unused_entries.py`, `views.py`, `verifier.py` | operators on the pools of a module |
| `Binary` | the life of a compiled unit | serialized table by table, damaged or not, read, checked, linked |
| `IRSyntax`, `IRGrammar` | `syntax/lexer.py`, `syntax/syntax.py`; the grammar the other way round | a production is an operator on the lexer, and a list of items (`InOrder`: tokens, and productions by name); the text of a tree |
| `IRCompiler` | `compiler.py`, `context.py` | operators on the compiler's context, each behind one that did not fail (`Then`) |
| `Interpreter` | `interpreter.py`, `values.py` | a machine: frames, operand stack, memory; one operator per instruction |
| `IRSemantics` | what a text means | a reference semantics on trees: the compiled code is compared with it |
| `IRProgram` | the way of a text | parsed, compiled, run instruction by instruction |

Modules `MC...` give constants their values. Modules `..._proofs` hold the theorems
(`Stdlib_proofs` those of both `Libra` and `LibraSystem`, which is why the names of the
latter's specification begin with `System`; `AccountCalls_proofs` also the lemmas on what each
contract function does to a ledger, on which `LibraVM_proofs` rests too, which is why the
names of `AccountCalls`' specification begin with `Calls`), and `SumTheorems` lemmas on
sums, recursion and induction that know nothing of this system.

How they compose. `LibraAccount` and `LibraBlock` are functions on a ledger, so
that both `AccountCalls`, where accounts interfere freely, and `LibraVM`, where
the executor calls them at its points, use the same definitions. `DataCache` says
how the caches keep the ledger that `LibraVM` takes to be one value: it implements
`BlockStore` (`StoreRefinement`) for as long as no resource of the view is moved
out, and `CodeCache` puts the code that a VM has loaded on top. `CodeVerifier`,
`References` and `VerifiedModule` each put a check and the thing it protects side
by side: the verifier accepts, something runs that relies on it, and the
properties say that the reliance is sound. `Binary` and `IRProgram` are chains in
which the output of a part is the input of the next: `IRCompiler` makes pools, which
`CompiledModule` checks as it checks those that `Binary` reads, and `Interpreter`
runs them.

In `References` the code of a function is not given but chosen, one instruction
after the other, among those the verifier accepts where it is: each step takes the
abstract state and the machine on together. A block ends where the stack is empty;
one way to the end of a block may be kept aside (`NoWay`) and joined with the next.
The machine keeps of each reference the place it refers to and whether the container
it points to is the one at that place still (`ok`). `unseen` is history: it marks the
references that the verifier overlooks, and is set at exactly two points, where an
immutable reference is taken or frozen although a mutable one that reaches into its
place is borrowed from the same node (`BorrowedUnseen`, 6.12), and where a join gives
up a local (6.13). A call knows of its callee what `ReturnsWhatItMay` says of every
function; what it returns lies up to two fields below an argument (`Within`). A join that
makes a cycle of the graph is left out (6.14), as is a call that returns more than one
reference.

What the models abstract: a blob, a key, a coin, a name are members of small sets; a
value is known by its type, a type of a run by its depth, a layout by the resources
and variables in it; a name in a text is one piece, a number in a text or an operand
one of a few. Events of accounts, payment metadata, the wording of errors,
logging and metrics are left out. Statuses keep their major code and, where a
caller tells them apart, their abort code.

`LibraVM` keeps the ways in which control really flows: scripts are verified before
any gas is charged and modules are published without charging any;
`VMFrameException` (a full call stack) and errors of Python leave `execute_block`
(action `crash`), as do a failing block prologue and a refused write set
(`lose_block`: the caller gets no outputs). Which statuses
`TransactionStatus.from_vm_status` discards is decided by the external `libra`
package and is a constant, `Discarded`.

## 3. The runs

Each passing run lists its distinct states; all fire every action of their module.

**`cache_blocks`** (`MCCodeCache`, 587 thousand states). Any number of blocks of any
transactions over any initial storage with two resources, one module beside the
gas schedule's, two blobs and two scripts, one that imports the module and one that
imports both, modulo symmetry. `ReadsSeeBlockState`: a path the transaction did not
write shows what the block has reached, and looking at it changes nothing.
`WritesReachStorage`: a commit writes the paths written, with the values left there,
and no other. `DivergesOnlyByResurrection`: the exact difference there can be between
what the next transaction of the block reads and what the storage will hold, see
6.1. `LoadedIsPublished`: the modules a VM has loaded, and the imports its scripts
were verified against, are those that are published, though they were loaded in
transactions that may have been discarded since. It holds because a payload that
publishes runs no other code, a module is never published again, and a VM lives for
one block; the mutant loads a module as it is published, and the transaction may
fail. Two resources are enough, since
operations touch one path: the second one shows that nothing else changes.

**`cache_keeping`** (`MCDataCache`, 122 thousand states). The caches without moving out
a resource that the block's view holds (`KeepingSpec`) implement `BlockStore`
(`StoreRefinement`), blocks that are lost included.

**`account_calls`** (`MCAccountCalls`, 158 thousand states). The association, alice and
bob, who does not exist at first, each with their own calls, and blocks that
begin in between. u64 is two bits wide and up to four coins are minted, so that
balances and the fee pot overflow; two validators, so that the pot leaves a rest.
`Conservation` of coins, `CapabilitiesAreUnique`, `OnlyAuthorityPays` (a balance goes
down by the hand that holds the capability).

**`vm_blocks`** (`MCLibraVM`, 299 thousand states). Chains of blocks with up to three
transactions in all: every transaction of 18 kinds alone (one for each outcome of
verification, scripts, modules, the fee account as sender, the last sequence
number, block prologues that work and fail), and every sequence of up to three out
of two senders' scripts and modules, a prologue and a write set. Scripts make up to
two calls, chosen as they run; they may fail, run out of gas or crash at any
point. Three transactions are what chunking needs to have a user chunk, another
chunk and a rest, and what sequence numbers need to go right, be too old and too
new. `OutputsAlign`, `SequenceNumbersCount` (they count the kept transactions, so
no transaction is kept twice), `FailureCostsOnlyTheFee`, `FailedCanPay` (what the
prologue saw is still there for the cleanup), `ReportedGasIsPaid`, and `BlocksEnd`.

**`system_sets`** (`MCLibraSystem`, 558 thousand states). Four accounts and two keys:
sets of up to four validators, of which any is removed and comes back, and keys that
are rotated through either contract. `MCBound` keeps the two apart that multiply
the states: either nothing is rotated and time goes up to five, or there are three
accounts and one point in time. Adding or removing a validator takes a point in
time, and rotations need only few. `SetsAlign`, `OneReconfigurationAtATime`,
`EventsTellTheSets`.

**`coins`** (`MCLibra`, 280 thousand states). The association and alice, two coins and
one preburn in hand, queues of three requests, u64 of 0..3 and u128 of 0..5, so
that both overflow. `TotalIsCoins`, `PreburnIsRequests` (were `Info` to hold less,
burning would abort and coins be stuck in their queue), `OldestFirst`, which
needs queues of three to tell a shift from a swap.

**`code_accepted`** (`MCCodeVerifier`, 70 thousand states). All functions with balanced
stacks: straight code with branches on conditions up to five instructions and one
local, up to four with two locals, and codes of four with `Branch` and `Abort` and
each return type; locals are resources or not, parameters or not.
`AcceptedNeverFaults`, `ResourcesAreKept` (a resource is created, moved and
destroyed, never lost or copied), `AnalysisEnds`. Five
instructions hold a loop whose body changes a local, and two ways that meet with
different locals, which are what joins are for. Branches to the first instruction
are left out: 6.2.

**`verified_module`** (`MCVerifiedModule`, 959 thousand states, the longest run: two
minutes). Three families of modules: all modules of two generic structs over a
resource, with a field of a nested type, in one behind a second field of a simple one; all modules of up to three generic
functions, two type parameters and two calls, see the module for the combinations;
and both together for the order of the checks. `NeverWithinItself` (the recursion
that resolves a layout does not come back to a struct it is resolving, so that it
ends), `UnrestrictedHoldsNoResource` (a type that may be copied has no resource in
its layout, for any actuals), `TypesStayBounded` (no chain of calls nests more
constructors than there are parameters) and `RejectedGrow` (what is rejected does
grow, so that the check is exact). Vectors and actuals name only the struct without
fields of structs: 6.4. Modules that hand a parameter on before they build upon it
are left out: 6.3. These are the hypotheses under which section 5 proves the first
three for modules of any size.

**`references`** (`MCReferences`, 475 thousand states). All code of five functions that the verifier
accepts: locals of every sort; two values and a reference to either; references that
come in and go out; a published resource; two references returned. Up to three
references, three operands, and two ways to the end of a block joined. Three
references are a chain of borrows whose middle is released. `BorrowsAreKnown`: the
graph has no cycle, exactly the references there are, and an edge or a path for each pair
where one points into the place of the other. `RefersToItsPlace`: no accepted
instruction moves or overwrites what a reference points into, but for references
the verifier does not see (6.12, 6.13). `ReturnsWhatItMay`: what a caller takes for
granted of the references a call returns.

**`binary`** (`MCBinary`, 20 thousand states). A module, a module that imports it, a script, six variants
of them with a wrong import or an unused field, and modules and scripts with every
opcode at the eight numbers where an encoding grows (127, 128, 255, 256, 16383 and so
on). Three are damaged before they are read: any byte replaced by one of six
values, the end cut off anywhere, or any two table headers swapped. `RoundTrip`;
`TablesPartition` (every byte behind the headers belongs to exactly one table);
`IndicesResolve` (what passed the bounds checker leads nowhere outside);
`DefinitionsMatch` (each of the own handles has one definition, each field one
struct); `LinksAgree` (what is imported is there, public, and has the types the
importer was verified with, though both number their structs differently). Addresses
are two bytes long.

**`compiler`** (`MCIRProgram`, 12 thousand states). Some 600 texts: every sort of
declaration and specification, every statement, loops with every leaving statement in
every place, any two operators in a row, calls into a library module with generic
structs, resources and references, a script, and texts that must be refused.
`ReadsItsText`: the grammar gives the text back from the tree (`IRGrammar`, which also
says how operators bind) and parsing that gives the tree. `PassesTheChecks`:
duplication, bounds, unused entries and the library's definitions.
`InferredTypesHold`: when it runs, the values on the stack have the types by which the
compiler resolved fields. `DoesWhatItSays`: outcome, values and resources are those
of the reference semantics, overflow and aborts included. `Ends`: and it ends if the
text does. u8 has its width; 2^30 stands for the limits of u64 and u128, as TLC's
integers have 32 bits. The texts are examples, not all texts of a size: texts that
compile are too sparse among those.

**`code_loop`**: the run that finds the disagreement 6.2.

Type invariants: `TypeOK` of each module of the core. Those of `DataCache`,
`CodeCache`, `AccountCalls`, `LibraVM`, `LibraSystem` and `Libra` are proved (section
5), with `CacheIsBlockWriteSet`, `ModulesAreForever`, `OnlyAuthorityRotates`,
`AccountsPersist`, `KeptTakesOneNumber` and `CoinsAreKept` (the coins in the view, in
the block's cache and in a running context are those that have been minted), and are
in no run.

## 4. Fairness and deadlock

Three specifications state fairness.

* `LibraVM!FairSpec` has `WF_vars(Step)`: `execute_block` is one thread that waits
  for nobody, so it goes on as long as it can. That a block ends is then due to
  gas: every call of a script costs at least one unit (the cheapest cost of
  `vm_genesis/genesis_gas_schedule.py` is positive), which is in the range of
  `cost` in `run_call`. The mutant with free calls never ends.
* `CodeVerifier!Spec` has `WF_vars(Verify)`: the analysis is a loop on one thread.
  The interpreter has no fairness, as an accepted program may run for ever.
* `IRProgram!Spec` has `WF_vars(Run)`: the interpreter is a loop on one thread. That
  a program ends is due to its text, which `Ends` compares it with.

Nothing is assumed of consensus, callers and accounts: they may stop at any time.

`CHECK_DEADLOCK FALSE` is where the system does stop: after the last block of the
bound (`LibraVM`), when a function has returned, aborted or been rejected
(`CodeVerifier`, `References`), when a module is rejected, or its layouts are
resolved and a function without calls is reached (`VerifiedModule`), when a unit is
linked or refused (`Binary`), when a text is refused or its run is over
(`IRProgram`).

## 5. The theorems

Proved for all values of the constants that satisfy the named assumptions:
any sets of paths, blobs, addresses, keys, any width of u64, any number and any
kind of transactions, calls and validators.

**`CodeCache_proofs`**, in two parts. On `DataCache`, from `CacheAssumption` (resources
and modules are disjoint, `NoBlob` is no blob): `TypeCorrect`. `ReadsAreOfBlockState` from `ScratchpadInv`,
which says of each entry why it is there (a clean one is a copy of the block's
blob, the written ones are dirty, moved or published): reads alone are not
inductive, since nothing would tie an entry that is not looked at now to the block's
blob. `CommitIsExact` and `ModulesStay` are action properties from the same
invariant. `CacheTracksStorage` is inductive given the type invariant.
`CacheIsStorage` and `CachesImplementStore` are of `KeepingSpec`, from
`KeepingInv` (`TypeOK`, `ScratchpadInv`, both caches agree, and what is moved out
is not in the view): each action of `DataCache` is a step or a stutter of
`BlockStore`, one lemma per kind of step.

On `CodeCache`, from `ImportsAssumption` too, `LoadedStaysPublished`: the inductive invariant `CodeInv` adds to those of `DataCache`
that nothing is written to the modules before a publishing payload is through, that the imports of a
cached script were there, and that between blocks nothing of the last one is kept.
With `ReadsSeeBlockState` the first makes what a script sees and loads what the block
has reached; the steps that `DataCache` has are taken from its lemmas.

**`AccountCalls_proofs`**, first the lemmas on the contract functions, from
`AccountAssumption`. Each function is shown either to fail or to have one of a
few effects: `Pays` (coins move, from the named accounts only), `Becomes`
(one account changes its key, flag or capability), an account is created. `CallOutcome`
collects them for any call, `BlockPrologueOutcome`, `PrologueOutcome` and
`EpilogueOutcome` for those the VM makes. Then the theorems on `AccountCalls`, from
`CallsAssumption`. The inductive invariant `CallsInv` is
`CallsTypeOK /\ Conservation /\ CapabilitiesAreUnique /\ PotIsKept`, where `PotIsKept` (the capability of
the fee account is out, with `TransactionFee`) is why the distribution has the
authority it needs. `CallsTypeCorrect` (no balance leaves u64), `CapabilitiesStayUnique`,
`AccountsStay`, `OnlyHoldersPay`, `OnlyHoldersRotate`. `CoinsAreConserved`: the sum of
the balances of any finite set of addresses is what has been minted. No call changes
the difference between the two (`CallCoins`: a mint adds to both), and a distribution
takes from the pot what it gives to the validators, to each its share, and leaves the
division's rest where it was.

**`SumTheorems`**: the library's rules for induction and for recursive definitions
have an operator as a parameter, which the installed provers cannot instantiate.
Both are here restated with sets: what holds of a set `C` of numbers (or of
subsets of a finite set) for each step holds of all of them (`NatSetInduction`,
`FiniteSetInduction`), and of a function given by an equation one is shown to exist
(`RecursionExists`, `IterateExists`), from where `CHOOSE` gives its values. The lemmas on
`SumFunctionOnSet` (an element changed, added, taken away) follow.

**`LibraVM_proofs`**, from `VMAssumption` and `LedgerAssumption`. The invariant is
`TypeOK /\ HasPot /\ Running`: the fee account exists in each ledger, and `Running` says
of a payload that has begun what verification found in the block's cache: sender,
sequence number, a balance for the whole deposit, gas left within the limit. It is
what `FailedCanPay` needs and what a running script cannot take away, because
the cleanup goes back to the cache. `TypeCorrect`, `FailuresArePaidFor`,
`KeptTakesOne`, `FailuresCostOnlyTheFee`, `GasIsPaid`. `BlocksKeepCoins` is inductive
with it, by what the lemmas of `AccountCalls_proofs` say of each function. `OutputsFollowTheBlock` needs no more
than that the chunks, flattened, are the rest of the block, and `Flattened` is unfolded
by `RecursionExists`. `NumbersCountTheKept` counts a set of outputs that grows by at
most one at a step, the one for which `KeptTakesOneNumber` holds.

**`Stdlib_proofs`**, on `LibraSystem`, from `SystemAssumption` and `ConfigAssumption`. `SetsAlign` alone is not
inductive, as a transaction that aborts goes back to the state it began with:
`SystemInv` says of both states that they are `Sound` (the sets align, the last
event tells them, the times of the events grow). `SystemTypeCorrect`, `SetsStayAligned`,
`EventsAreComplete`, `ReconfigurationsAreSeparate`. The genesis state is a case of its own: it begins
with any set of validators, in any order.

On `Libra`, from `LibraAssumption`: the invariant `Books` is that the value
of the coins in hand, of those in the preburns in hand and of those in the published
queues, is the total, and likewise for the requests: sums of weights over bags, where
each kind counts as often as it is there, and over queues place by place.
`TokenTypeCorrect`, `TotalIsTold`, `PreburnIsTold`, `RequestsCanBeResolved` (why it matters:
no burning or cancelling fails because `Info` says less than there is), and the action
property `ResolvedInOrder`, for which `Vector::remove`, a loop of swaps, is shown to be
the tail (`RestIsTail`).

**`CodeVerifier_proofs`**, from `CodeAssumption` (what the bounds checker leaves of a
function). Three invariants, each from the one before. `AnalysisInv` says of the
worklist that a block not on it has failed or is *settled*: its execution, a `Walk`
through abstract states, meets no error, and what it leaves implies the preconditions of
its successors. That it stays so is due to preconditions only getting weaker and a block
whose precondition changed going back on the list (`Propagated`, `Grown`); when the list
is empty every accepted block is settled, which is the fixed point that `absint.py`
looks for. `FrameType` is about types only; with it `TypeCorrect`, for any functions.
`RunInv` says of a run that it is at an instruction of a settled block, that the stack is
the one of the abstract state there, that the locals the state names hold values of their
types, and that no other local holds a resource. `Stepped` shows this of each
instruction, `MovesOn` from block to block: the stack usage verifier's `height` is the
height of the stack (`OperandsAreThere`), so it is empty there, and a weaker
precondition asks for less. `AcceptedRunsWell` and `ResourcesAreNeverLost`
follow, under `NoBranchToStart`: no function has a branch to offset 0. The hypothesis is
needed, as `code_loop` shows (6.2), and `code_accepted` meets it with `FirstTarget = 1`;
nothing else in the proof is about where branches lead.

**`References_proofs`**, from `FunctionsAssumption` alone (types exist, arguments are among the
locals): for any structs and functions, code of any length, and whatever the bounds on references
and operands. What the graph has to know is said along *ways*: `Reaches` is the closure of a
relation, without recursion (`BorrowedFromIs` ties the function of the model to it), and
`Leads` a way along edges that are true of where the machine's references really are (after
a join, an edge may speak of the way that was not taken). `Borrows` says of a graph and of
places that every reference the verifier sees is good, is led to from the frame unless it
lies within an argument, and points into no local without a value; that of two of them,
one mutable, that overlap, one is led to from the other; and of an unseen mutable one that
it is spoiled already, or in a local that was given up, so that nothing is
written through it into what is seen. `Sound` adds that each id has one slot and that each
mutable reference into an argument is into a mutable one. The inductive invariant `IInv`
says this of the current state and of the way kept aside, and of a function that has returned
the other two properties.

The operators of `BorrowGraph` are treated first: factoring an edge (`AddedStrongly`) and joining
edges around a removed node (`Removed`) keep every way between the nodes that remain
and the graph acyclic, in any order of removal (`RemovedEach`), renaming carries ways over
(`Renamed`), and a graph that covers another, as a join covers both sides, has its ways
(`CoversKeeps`, `JoinCovers`). Then one lemma per instruction, `borrow_fieldSound`, `callSound`
and so on, each from three: what it does to the slots, to the graph, and to the machine.
Where a check of the verifier refuses code, `NotBorrowed`, `Unborrowed` or `OverwritesUnseen` turn
the absence of an edge into the absence of a reference. `BorrowsAlwaysKnown`,
`ReferencesStayGood` and `FunctionsReturnWhatTheyMay` follow. The last is what the model's
call takes for granted of the callee, so that it is a proof by induction over the
depth of calls. What `unseen` and the guard against cycles leave out is left out of the
theorems as well.

**`VerifiedModule_proofs`**, from `TokensAssumption` (types are finite: among any of them
one is made of none of the others) and `SubmittedAssumption` (what the bounds checker
leaves of a module), in two parts that share nothing but the life of a module.

The calls. `AcceptedTypesStayBounded` needs a bound for each type parameter, not only one
for all: its `Rank`, the number of nodes of the graph that reach it and that it does not
reach. A constructor that the graph knows leads from one component into another, so it
raises the rank by at least one, and the ranks are below the number of nodes; an edge
without one does not lower it (`RankGrows`). The inductive invariant `CallsInv` says that
every current type nests at most one constructor more than the rank of its parameter
(`DepthsInv`). `NothingHidden` is the hypothesis: no call hands a parameter on where a later one
of the same function builds upon it, which 6.3 shows to be needed.
`RejectedModulesGrow` has no hypothesis: as many calls as there are nodes take a node
around a loop with a constructor on it, and leave it one deeper (`DeepAround`); after
as many rounds as there are nodes, and one, its type is deeper than they are many,
within the number of calls that `DeepInstances` looks at.

The structs. The operators on types are functions that call themselves on a type's parts;
`TokenInduction` is induction over those, and each function is shown to satisfy its equation
(`KindValue`, `SignatureValue`, `ContainsValue`, `LayoutValue` and so on) before anything is said of its values.
`StackInv` says that each struct on the stack is named by the one below it, and that what
a struct waits for, with what is in the cache, is all its fields name. Then a struct that is
twice on the stack is on a cycle of names; `NestedNeverLeadsBack` (the hypothesis of
`AcceptedStructsEnd`: no struct named within a vector or as an actual leads back, see 6.4)
makes it a cycle of members, and the checker refuses those. `CacheInv` says of each layout in the
cache that its variables are the struct's type parameters and that only a resource's layout has
resources; with it `FieldLayout` shows by induction over the field's type that a layout has
no resource unless the type names one, and `UnrestrictedTypesHoldNoResource` that a resource
can neither come in by an actual without the kind being `resource`. `OwnParameters` is its
hypothesis: the bounds checker does not look for type parameters within vectors (6.17). The
instances of `verified_module` meet all three hypotheses.

Recursive functions that proofs are about are written with `IF`; `CASE` expressions are
kept out of them.

Model-checked only: liveness (`BlocksEnd`, `AnalysisEnds`, `Ends`), as the prover has
no rule for fairness; and `Binary` and `IRProgram`, whose reading, parsing and compiling
is recursive over data. Every safety property of the other runs is proved, but for the one that
`code_loop` refutes.

## 6. Where code and documentation disagree

Met while modelling. Those with a run are in `PROJECT.json`; for the others the
property is in the module named and TLC refutes it when it is given to the run
mentioned.

1. *Deleted, and found again.* `push_write_set` handles a deletion by forgetting the
   block's entry (`data_cache.py:58`), so later transactions of the block read the
   blob of the view again, and the storage gets the deletion.
   `DataCache!CacheIsBlockWriteSet` fails under `Spec`; `DivergesOnlyByResurrection`
   shows that nothing else goes wrong.
2. *Loops to the first instruction* (run `code_loop`). `get_successors` tests
   `if offset:` (`vm/file_format.py:825`), so a branch to offset 0 has no successor and
   the state at its end is never joined with the first block's. `MoveLoc 0; Pop;
   Branch 0` is accepted and faults in its second turn.
3. *Instantiation loops behind an identity*. A second attribute of
   an edge is appended behind the first, which is the one that is read
   (`instantiation_loops.py:154`): a function that calls itself with `T` and then
   with a type made of `T` is accepted. `VerifiedModule!TypesStayBounded` fails with
   `ParameterFirst = TRUE`.
4. *Recursive structs.* `member_struct_defs` follows the struct at the head of a
   field's type (`struct_defs.py:95`), neither vectors nor actuals: `struct B
   { f: vector<B> }` is accepted and its layout is resolved for ever.
   `VerifiedModule!NeverWithinItself` fails with `Nested = {B, R}`;
   `ir-testsuite/tests/generics/instantiation_loops/recursive_struct.mvir` is
   skipped as a failing test.
5. *Use after `move_from`.* A second `move_from` of one resource in a transaction
   indexes `None`, and a borrow after it builds an error with `Location.new()`, which
   does not exist: no `VMException`, and the block has no outputs
   (`execution_context.py:130`). `DataCache!CodeNeverStopsBlock`, with `cache_blocks`.
6. *Refused write sets* leave `execute_block` as an exception instead of a discarded
   output (`libra_vm.py:504`). `DataCache!RefusedIsDiscarded`.
7. *Genesis as a write set.* `execute_block` wants a gas schedule before it looks at
   a transaction, so a block over an empty view is refused (`libra_vm.py:494`),
   although `state_view.py:24` has write sets for genesis.
   `DataCache!GenesisIsNotRefused`.
8. *Time to live.* `is_valid_transaction_timestamp` adds the time to live to the block
   time with a checked addition whose result it does not use
   (`libra_transaction_timeout.move:36`): after `set_timeout` of a large value every
   prologue fails. `AccountCalls!InWindowIsAccepted`, with calls of `set_timeout`.
9. *The rest of the fees* stays in the pot, while `transaction_fee.move:63-67` gives
   it to the first validator. `AccountCalls!RemainderIsPaid`, with `account_calls`.
10. *Rotated keys.* `reconfigure_` reads no `ValidatorConfig` (`libra_system.move:337`), so
    a key rotated there does not "take effect" at "the next reconfiguration"
    (`validator_config.move:90-91`). `LibraSystem!ReconfigurationTakesConfigs`.
11. *Preburns* are created by anybody, as the check in `preburn` is commented out, while
    `libra.move:25` wants the capability's holder. `Libra!PreburnsAreApproved`.

12. *References on the operand stack are not seen.* `all_immutable` asks of the locals
   only whether a reference is mutable (`abstract_state.py:393`), so a mutable
   reference on the operand stack keeps nobody from borrowing its place immutably,
   from freezing or copying; what is written through it later is not what the
   immutable reference saw. Nor does it look further than one edge, at what is borrowed
   from what is borrowed. `References` marks such references `unseen`; without the
   mark `RefersToItsPlace` fails, and with it `ReferencesStayGood` is proved.
13. *Values that one way has moved.* `join_` drops a local that is available on one
   side only (`abstract_state.py:428`), and a later `StLoc` into it overwrites the
   value without asking who borrows it. `unseen` as before.
14. *Cycles.* `borrow_graph.py:17` says that the graph is acyclic; joining two ways
   that borrow two reference locals of one type from each other makes a cycle, and
   `remove` returns at the first edge that would become a loop (line 139) with edges to
   the removed node left. `join_block` leaves such a join out by a guard
   (`acyclic`); `BorrowsAlwaysKnown` shows that nothing else makes a cycle.
15. *Unused fields.* `check_duplication.py` says "(3) there are no unused fields";
   nothing checks it, and `UnusedEntryChecker` is not called by `VerifiedModule.new`.
16. *Type actuals.* The number of a struct's actuals is written as one byte and read as
   a uleb128 (`serializer.py`, `deserializer.py:546`), which part at 128. Strings may be
   written with 2^32 bytes and are read up to 2^16.
17. *Indices in vectors.* `check_struct_handles` and `check_type_parameters` do not look
   into vectors (`file_format.py:367`), and the type parameters in the types of a
   function's own locals are never compared with their number. `IndicesResolve` leaves
   both out.
18. *Scripts without a main.* A script binary without the table for it is read with the
   main of a new script, and bytes behind the first function of that table are ignored.
19. *Missing definitions of a dependency* raise a `KeyError` in the views, where the
   checker means to answer `LOOKUP_FAILED` (`raises_key_error` in `CompiledModule`).
20. *The lexer's modes.* The token after a switch of the mode has been read in the mode
   before: `synthetic x: vector<u8>;` and a struct's type in a specification are
   refused, and `&x.f` must be written with a blank, as touching names are one token
   there. What follows a module is not read (`Followed` in `MCIRProgram`).
21. *Order of fields.* `Pack` wants a struct's fields in order; `Unpack` takes the names
   on the left for targets in the order of the definition, whatever the fields are
   called.
22. *Aliases.* A module imported twice under two aliases, with the same function called
   through both, leaves a hole in the function handles, on which the compiler fails
   with an `AttributeError` (`context.py:658`). Structs of an aliased import are
   "Unbound", and a module whose function names a third module's struct cannot be used
   without importing that too.
23. *Ends of functions.* A `break` that comes last, or an `if` whose `else` returns at
   the end of a function without a return, branches behind the last instruction,
   which the bounds checker refuses.
24. `&&` and `||` evaluate both sides: `DoesWhatItSays` is about a semantics that does
   too.

Read in the code and in no model: checks (4) to (7) of the genesis write set follow a
`return` (`vm_genesis/lib.py:538`); type variables within vectors are not substituted
in a layout (`type_context.py:28`, modelled in `StructDefs`, where no property asks for
it); the fee pot at the limit of u64, or no validators, fail each block's prologue
(`transaction_fee.move:57`, an outcome in `LibraVM`); `swap_loc` asks the garbage
collector whether a moved value is referenced, which does not depend on the program
alone (`values.py:720`).

## 7. What is not modelled

* Gas within the interpreter (its effect is in `LibraVM`), natives, events and the
  limits of the two stacks: the depths of a thousand at which they bite are outside of
  what TLC enumerates, and what happens there is an outcome in `LibraVM`.
* Signatures of functions and the kinds of type actuals in code: `StructDefs` has the
  same checks for fields.
* Extraneous `acquires` annotations; calls that return more than one reference are
  modelled from the callee's side only.
* Native functions and vectors, hashes and signatures: operations of a library.
* The rest of genesis, offers, the whitelist, `FixedPoint32` and configuration on
  chain: a fixed sequence over constants, and values that no other contract uses.
* The debugger, a fork of Python's `pdb` on a terminal; the functional test harness, which
  drives the parts above over text files; the disassembler; source maps, command
  lines, counters, logging, the loader of the standard library's files, test inputs and
  benchmarks: text and files, without state that a property could be about.
* The syntax of bytecode in function bodies, which the parser has and never reaches, and
  source locations.

## 8. The plan

Done, in this order, because most depends on what comes first: caches, accounts,
executor; the other contracts that hold money or power; the checks of the verifier
whose failure would show in the interpreter, with references and the borrow graph;
code caches; the binary format with the checks of what is read; the compiler with
the interpreter that runs what it makes.

Proved: caches, accounts and executor, validator sets, coins, the soundness of the
verifier for values, and what it says of types: finite layouts, finitely many instances,
no resource in what may be copied; and its soundness for references.

What could come next: joins that make a cycle, with the half removals they lead to, and calls
that return several references, in `References` and its proofs; and the operators of
`BinaryFormat` written as folds, so that `RoundTrip` comes within the prover's reach.

Bounds stay as they are: small sets, chosen so that each limit (u64, the queues, the
stacks) is met by the states that a run reaches.
