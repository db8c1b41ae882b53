------------------------------ MODULE CodeCache ------------------------------
(***************************************************************************)
(* The loaded code of a VM (move_vm/runtime/code_cache) over the caches of *)
(* its block: modules by their names, scripts by the hash of their bytes,  *)
(* both kept from one transaction to the next, whatever becomes of the     *)
(* transaction they were loaded in.  A payload either publishes a module   *)
(* or runs a script; system code, as the epilogue, is of modules that were *)
(* loaded with the gas schedule.  LibraVM.execute_block makes a new VM for *)
(* each block.                                                             *)
(***************************************************************************)
EXTENDS DataCache

CONSTANTS Scripts,
          Imports  \* the modules each script names

ASSUME ImportsAssumption == Imports \in [Scripts -> SUBSET Modules]

VARIABLES code_cache,   \* VMModuleCache.cmap
          script_cache, \* ScriptCache.cmap: the imports a script was verified against
          payload       \* what the context runs: "script", "module" or "system" code

codeVars == <<code_cache, script_cache, payload>>
allVars == <<vars, codeVars>>

CodeTypeOK ==
  /\ code_cache \in [Modules -> Blobs \cup {NoBlob}]
  /\ DOMAIN script_cache \subseteq Scripts
  /\ payload \in {"script", "module", "system"}

NoCode == [m \in Modules |-> NoBlob]

CodeInit ==
  /\ Init
  /\ code_cache = NoCode /\ script_cache = <<>>
  /\ payload = "system"

\* The first module to be loaded is the gas schedule's.
load_block_configs ==
  /\ load_configs
  /\ code_cache' = [code_cache EXCEPT ![GasSchedule] = data_view[GasSchedule]]
  /\ UNCHANGED <<script_cache, payload>>

execute_payload ==
  /\ begin_transaction
  /\ payload' \in {"script", "module", "system"}
  /\ UNCHANGED <<code_cache, script_cache>>

\* LINKER_ERROR in the code that runs.
linker_error ==
  /\ phase' = "failed"
  /\ UNCHANGED <<data_view, block_map, data_map, module_map, refs, storage, written>>
  /\ UNCHANGED codeVars

\* A script no transaction of the block has run is verified against the modules
\* it imports, which are read anew.
cache_script(s) ==
  /\ phase = "running" /\ payload = "script"
  /\ s \notin DOMAIN script_cache
  /\ \/ /\ \E m \in Imports[s] : View(m) = NoBlob
        /\ linker_error
     \/ /\ \A m \in Imports[s] : View(m) # NoBlob
        /\ script_cache' = [t \in DOMAIN script_cache \cup {s} |->
             IF t = s THEN [m \in Imports[s] |-> View(m)] ELSE script_cache[t]]
        /\ UNCHANGED <<vars, code_cache, payload>>

\* The code that runs names a module that has not been loaded.
get_loaded_module(m) ==
  /\ phase = "running" /\ payload = "script"
  /\ code_cache[m] = NoBlob
  /\ \/ /\ View(m) = NoBlob
        /\ linker_error
     \/ /\ View(m) # NoBlob
        /\ code_cache' = [code_cache EXCEPT ![m] = View(m)]
        /\ UNCHANGED <<vars, script_cache, payload>>

\* MUTANT: a module is loaded as it is published.
publish_payload_loads(m, b) ==
  /\ payload = "module"
  /\ publish_module(m, b)
  /\ payload' = "system"
  /\ code_cache' = IF phase' = "running" THEN [code_cache EXCEPT ![m] = b] ELSE code_cache
  /\ UNCHANGED script_cache

\* The payload is published, or is not, and the epilogue follows.
publish_payload(m, b) ==
  /\ payload = "module"
  /\ publish_module(m, b)
  /\ payload' = "system"
  /\ UNCHANGED <<code_cache, script_cache>>

\* What other code does; a module may be refused before it is published.
run_code ==
  /\ (payload # "module" /\ ResourceCode) \/ raise_vm_exception
  /\ UNCHANGED codeVars

cleanup ==
  /\ failed_transaction_cleanup
  /\ payload' = "system"
  /\ UNCHANGED <<code_cache, script_cache>>

\* Of the block and its transactions.
go_on ==
  /\ \/ discard_error_output
     \/ payload # "module" /\ commit_transaction
     \/ check_change_set
  /\ UNCHANGED codeVars

\* The next block has a VM of its own.
new_vm ==
  /\ next_block \/ lose_block
  /\ code_cache' = NoCode /\ script_cache' = <<>>
  /\ UNCHANGED payload

CodeNext ==
  \/ load_block_configs
  \/ execute_payload
  \/ \E s \in Scripts : cache_script(s)
  \/ \E m \in Modules : get_loaded_module(m)
  \/ \E m \in Modules, b \in Blobs : publish_payload(m, b)
  \/ run_code
  \/ cleanup
  \/ go_on
  \/ new_vm

CodeSpec == CodeInit /\ [][CodeNext]_allVars

----------------------------------------------------------------------------
(* Properties *)

\* The code a transaction meets in the VM is what the block's state holds: a
\* loaded module is the published one, and a script that is not verified again
\* would be verified against the same imports, also when the transactions that
\* loaded them failed or were discarded.  (module_cache.py:29 and script_cache.py)
LoadedIsPublished ==
  /\ \A m \in Modules : code_cache[m] # NoBlob => code_cache[m] = get(m)
  /\ \A s \in DOMAIN script_cache : \A m \in Imports[s] : script_cache[s][m] = get(m)

\* The strengthening that makes it inductive: what is verified against is there,
\* only a module payload publishes, and system code follows it; the block begins
\* with an empty map.
CodeInv ==
  /\ CodeTypeOK
  /\ LoadedIsPublished
  /\ \A s \in DOMAIN script_cache : \A m \in Imports[s] : script_cache[s][m] # NoBlob
  /\ payload # "system" => written \cap Modules = {}
  /\ phase = "idle" => block_map = Empty
=============================================================================
