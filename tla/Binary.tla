------------------------------- MODULE Binary -------------------------------
(***************************************************************************)
(* The life of a compiled unit: a module or a script is serialized table   *)
(* by table, the binary is stored or sent, may be damaged on the way, is   *)
(* deserialized, and what was read is checked before its code is verified. *)
(***************************************************************************)
EXTENDS CompiledModule

CONSTANTS Units,               \* the compiled units the serializer is given
          Dependency,          \* the verified module a unit is linked with
          Damaged,             \* those of them a binary of which may be damaged
          Damages              \* what a byte may be replaced by

VARIABLES phase,               \* how far the unit has come
          unit,                \* what is serialized
          tables, binary,      \* the serializer: tables so far, and their bytes
          blob,                \* the bytes stored
          intact,              \* whether these are the bytes the serializer wrote
          heads,               \* the deserializer: the headers of the tables
          loaded               \* the unit read

vars == <<phase, unit, tables, binary, blob, intact, heads, loaded>>
stored == <<unit, tables, binary, blob, intact>>

IsScript(u) == u.main # <<>>
Empty == [t \in Range(TableType) |-> <<>>]

CommonTables == <<"module_handles", "struct_handles", "function_handles", "type_signatures",
  "function_signatures", "locals_signatures", "identifiers", "address_pool", "byte_array_pool">>
Tables(u) == CommonTables \o IF IsScript(u) THEN <<"main">>
                             ELSE <<"struct_defs", "field_defs", "function_defs">>

Init ==
  /\ phase = "serialize" /\ unit \in Units
  /\ tables = <<>> /\ binary = <<>> /\ blob = <<>> /\ intact = TRUE
  /\ heads = <<>> /\ loaded = Empty

\* One table, of which the header will have the start and the number of bytes.
serialize_table_of ==
  /\ phase = "serialize" /\ Len(tables) < Len(Tables(unit))
  /\ LET t == Tables(unit)[Len(tables) + 1]
         bytes == Concat([i \in DOMAIN unit[t] |-> Write(serialize_table[t], unit[t][i])]) IN
     /\ tables' = Append(tables, [kind |-> t, offset |-> Len(binary), count |-> Len(bytes)])
     /\ binary' = binary \o bytes
     /\ phase' = IF IsBinary(bytes) THEN phase ELSE "not serialized"
  /\ UNCHANGED <<unit, blob, intact, heads, loaded>>

TypeNumber(t) == CHOOSE i \in DOMAIN TableType : TableType[i] = t

checked_serialize_table(start_offset, table) ==
  <<TypeNumber(table.kind)>> \o write_little(table.offset + start_offset, 4) \o write_little(table.count, 4)

serialize_header ==
  /\ phase = "serialize" /\ Len(tables) = Len(Tables(unit))
  /\ LET present == SelectSeq(tables, LAMBDA t : t.count > 0)
         start_offset == HEADER_SIZE + Len(present) * TABLE_HEADER_SIZE IN
     blob' = LIBRA_MAGIC \o Version \o <<Len(present)>>
             \o Concat([i \in DOMAIN present |-> checked_serialize_table(start_offset, present[i])])
             \o binary
  /\ phase' = "stored"
  /\ UNCHANGED <<unit, tables, binary, intact, heads, loaded>>

\* A byte changed, the end cut off, or two table headers swapped.
Damage ==
  /\ phase = "stored" /\ intact /\ unit \in Damaged
  /\ \/ \E i \in DOMAIN blob, b \in Damages : blob[i] # b /\ blob' = [blob EXCEPT ![i] = b]
     \/ \E n \in {0, HEADER_SIZE - 1, HEADER_SIZE, Len(blob) - 1} : blob' = SubSeq(blob, 1, n)
     \/ \E i, j \in 0 .. blob[HEADER_SIZE] - 1 : i < j
          /\ LET At9(k) == {HEADER_SIZE + 9 * k + n : n \in 1 .. 9} IN
             blob' = [p \in DOMAIN blob |-> IF p \in At9(i) THEN blob[p + 9 * (j - i)]
                                            ELSE IF p \in At9(j) THEN blob[p - 9 * (j - i)] ELSE blob[p]]
          /\ blob' # blob
  /\ intact' = FALSE
  /\ UNCHANGED <<phase, unit, tables, binary, heads, loaded>>

Refuse == phase' = "refused" /\ UNCHANGED <<heads, loaded>>

\* The deserializer is asked for the kind of unit that was stored.
check_binary ==
  /\ phase = "stored"
  /\ IF /\ Len(blob) >= HEADER_SIZE
        /\ SubSeq(blob, 1, 4) = LIBRA_MAGIC /\ SubSeq(blob, 5, 6) = Version
     THEN phase' = "header" /\ UNCHANGED <<heads, loaded>> ELSE Refuse
  /\ UNCHANGED stored

End == HEADER_SIZE + Len(heads) * TABLE_HEADER_SIZE

read_table(at) == [kind |-> TableType[blob[at]], offset |-> read_little(blob, at + 1, 4),
                   count |-> read_little(blob, at + 5, 4)]

read_tables ==
  /\ phase = "header"
  /\ LET At9(k) == HEADER_SIZE + 9 * (k - 1) + 1 n == blob[HEADER_SIZE] IN
     IF \A k \in 1 .. n : At9(k) + 8 <= Len(blob) /\ blob[At9(k)] \in DOMAIN TableType
     THEN heads' = [k \in 1 .. n |-> read_table(At9(k))] /\ phase' = "tables" /\ UNCHANGED loaded
     ELSE Refuse
  /\ UNCHANGED stored

Contiguous_uncovered(sorted) ==
  LET ends(k) == FoldLeft(LAMBDA n, t : n + t.count, End, SubSeq(sorted, 1, k)) IN
  \A k \in DOMAIN sorted : sorted[k].offset = ends(k - 1) /\ sorted[k].count # 0 /\ ends(k) <= Len(blob)
\* From the first byte behind the headers, each table begins where the last one ended.
Contiguous(sorted) ==
  LET ends(k) == FoldLeft(LAMBDA n, t : n + t.count, End, SubSeq(sorted, 1, k)) IN
  /\ \A k \in DOMAIN sorted : sorted[k].offset = ends(k - 1) /\ sorted[k].count # 0 /\ ends(k) <= Len(blob)
  /\ ends(Len(sorted)) = Len(blob)

check_tables ==
  /\ phase = "tables"
  /\ LET sorted == SortSeq(heads, LAMBDA a, b : a.offset < b.offset) IN
     IF Contiguous(sorted) /\ \A i, j \in DOMAIN sorted : sorted[i].kind = sorted[j].kind => i = j
     THEN heads' = sorted /\ phase' = "load common" /\ UNCHANGED loaded
     ELSE Refuse
  /\ UNCHANGED stored

LoadHeads(kinds) ==
  LET new(h) == LoadTable(h.kind, SubSeq(blob, h.offset + 1, h.offset + h.count))
      here == {h \in Range(heads) : h.kind \in kinds} IN
  IF \E h \in here : new(h) = Refused THEN Refused
  ELSE <<[t \in Range(TableType) |-> IF \E h \in here : h.kind = t
            THEN new(CHOOSE h \in here : h.kind = t)[1] ELSE loaded[t]]>>

build_common_tables ==
  /\ phase = "load common"
  /\ LET u == LoadHeads(Range(CommonTables)) IN
     IF u = Refused THEN Refuse ELSE loaded' = u[1] /\ phase' = "load definitions" /\ UNCHANGED heads
  /\ UNCHANGED stored

DefaultMain == [function |-> 0, flags |-> 0, acquires |-> <<>>, max_stack_size |-> 0,
                locals |-> 0, code |-> <<>>]

build_module_tables ==
  /\ phase = "load definitions" /\ ~IsScript(unit)
  /\ LET u == LoadHeads({"struct_defs", "field_defs", "function_defs"}) IN
     IF u = Refused \/ \E h \in Range(heads) : h.kind = "main" THEN Refuse
     ELSE loaded' = u[1] /\ phase' = "loaded" /\ UNCHANGED heads
  /\ UNCHANGED stored

\* A script without a table for it has the main a new script has.
build_script_tables ==
  /\ phase = "load definitions" /\ IsScript(unit)
  /\ LET u == LoadHeads({"main"}) IN
     IF u = Refused \/ \E h \in Range(heads) : h.kind \in {"struct_defs", "field_defs", "function_defs"}
     THEN Refuse
     ELSE /\ loaded' = IF u[1].main = <<>> THEN [u[1] EXCEPT !.main = <<DefaultMain>>] ELSE u[1]
          /\ phase' = "loaded" /\ UNCHANGED heads
  /\ UNCHANGED stored

Check(from, to, ok) ==
  /\ phase = from /\ phase' = IF ok THEN to ELSE "refused"
  /\ UNCHANGED <<heads, loaded>> /\ UNCHANGED stored

Module == into_module(loaded)
freeze == Check("loaded", "frozen", BoundsChecker(Module))
check_duplication == Check("frozen", "unique", DuplicationChecker(Module))
check_unused == Check("unique", "used", UnusedEntryChecker(Module))
link ==
  /\ phase = "unique"
  /\ phase' = IF raises_key_error(Module, Dependency) THEN "unwound"
              ELSE IF verify_main_signature(loaded) /\ verify_module_dependencies(Module, Dependency)
              THEN "linked" ELSE "refused"
  /\ UNCHANGED <<heads, loaded>> /\ UNCHANGED stored

Next == \/ serialize_table_of \/ serialize_header \/ Damage \/ check_binary \/ read_tables
        \/ check_tables \/ build_common_tables \/ build_module_tables \/ build_script_tables
        \/ freeze \/ check_duplication \/ check_unused \/ link

Spec == Init /\ [][Next]_vars

-----------------------------------------------------------------------------
\* What the serializer has written is read back as it was: the deserializer refuses none of it, and
\* changes nothing, at whatever length of a list and width of a number.
RoundTrip ==
  intact /\ phase \in {"refused", "loaded", "frozen"} => loaded = unit

\* However a binary was damaged: a unit is read only of a binary every byte of which, behind the
\* headers, belongs to exactly one table, and no table is there twice.
TablesPartition ==
  phase \in {"loaded", "frozen", "unique"} =>
    /\ \A p \in End + 1 .. Len(blob) :
         Cardinality({i \in DOMAIN heads : p \in heads[i].offset + 1 .. heads[i].offset + heads[i].count}) = 1
    /\ Cardinality({heads[i].kind : i \in DOMAIN heads}) = Len(heads)
    /\ \A i \in DOMAIN heads : heads[i].offset >= End

\* Where the numbers in a module point to: pairs of a pool and an index.
PointsTo == [module_handles |-> {<<"address", "address_pool">>, <<"name", "identifiers">>},
  struct_handles |-> {<<"module", "module_handles">>, <<"name", "identifiers">>},
  function_handles |-> {<<"module", "module_handles">>, <<"name", "identifiers">>,
                        <<"signature", "function_signatures">>},
  field_defs |-> {<<"struct_", "struct_handles">>, <<"name", "identifiers">>,
                  <<"signature", "type_signatures">>},
  struct_defs |-> {<<"struct_handle", "struct_handles">>},
  function_defs |-> {<<"function", "function_handles">>}]

OpcodePoints(tag) ==
  CASE tag = "LD_ADDR" -> {<<"value", "address_pool">>}
    [] tag = "LD_BYTEARRAY" -> {<<"value", "byte_array_pool">>}
    [] tag \in OfField -> {<<"value", "field_defs">>}
    [] tag = "CALL" -> {<<"value", "function_handles">>, <<"types", "locals_signatures">>}
    [] tag \in OfStruct -> {<<"value", "struct_defs">>, <<"types", "locals_signatures">>}
    [] OTHER -> {}

\* The struct handles in a token, those within a vector left out: the checker does not look there.
RECURSIVE StructsIn(_)
StructsIn(token) ==
  CASE token.tag = "STRUCT" -> {token.struct} \union UNION {StructsIn(t) : t \in Range(token.types)}
    [] token.tag \in {"REFERENCE", "MUTABLE_REFERENCE"} -> StructsIn(token.reference)
    [] OTHER -> {}
Tokens(u) ==
  {e.token : e \in Range(u.type_signatures)} \union UNION {Range(e.tokens) : e \in Range(u.locals_signatures)}
  \union UNION {Range(e.return_types) \union Range(e.arg_types) : e \in Range(u.function_signatures)}

Bodies(u) == {def \in Range(u.function_defs) : ~is_native(def)}
References(u) ==
  UNION {UNION {{<<p[2], e[p[1]]>> : p \in PointsTo[t]} : e \in Range(u[t])} : t \in DOMAIN PointsTo}
  \union {<<"struct_handles", i>> : i \in UNION {StructsIn(t) : t \in Tokens(u)}}
  \union {<<"field_defs", i>> : i \in traverse_struct_defs(u)}
  \union {<<"struct_defs", i>> : i \in UNION {Range(def.acquires) : def \in Range(u.function_defs)}}
  \union {<<"locals_signatures", def.locals>> : def \in Bodies(u)}
  \union UNION {UNION {{<<p[2], b[p[1]]>> : p \in OpcodePoints(b.tag)} : b \in Range(def.code)} : def \in Bodies(u)}

\* Whatever was read: once the bounds checker has passed, no index, no branch, no local and no range
\* of fields leads out of the module, so that nothing after it can miss an entry.
IndicesResolve ==
  phase = "frozen" =>
    /\ \A r \in References(Module) : r[2] + 1 \in DOMAIN Module[r[1]]
    /\ \A def \in Bodies(Module) : \A b \in Range(def.code) :
         /\ b.tag \in Branches => b.value + 1 \in DOMAIN def.code
         /\ b.tag \in OfLocal => b.value + 1 \in DOMAIN At(Module.locals_signatures, def.locals).tokens

\* A verified module defines each of its own handles once and nothing else, its names name one thing
\* each, and no field belongs to two structs; if nothing is unused, each field belongs to one.
DefinitionsMatch ==
  LET u == Module
      own(handles) == {i \in DOMAIN handles : handles[i].module = IMPLEMENTED_MODULE_INDEX}
      full(def) == def.fields .. def.fields + def.field_count - 1
      structs == {i \in DOMAIN u.struct_defs : is_declared(u.struct_defs[i])}
      owners(n) == {i \in structs : n \in full(u.struct_defs[i])} IN
  /\ phase \in {"unique", "used", "linked"} =>
       /\ \A i \in own(u.struct_handles) :
            Cardinality({d \in DOMAIN u.struct_defs : u.struct_defs[d].struct_handle = i - 1}) = 1
       /\ \A i \in own(u.function_handles) :
            Cardinality({d \in DOMAIN u.function_defs : u.function_defs[d].function = i - 1}) = 1
       /\ Cardinality(own(u.struct_handles)) = Len(u.struct_defs)
       /\ Cardinality(own(u.function_handles)) = Len(u.function_defs)
       /\ \A n \in 0 .. Len(u.field_defs) - 1 : Cardinality(owners(n)) <= 1
       /\ \A i, j \in DOMAIN u.struct_handles :
            module_id(u, u.struct_handles[i]) = module_id(u, u.struct_handles[j])
            /\ name(u, u.struct_handles[i]) = name(u, u.struct_handles[j]) => i = j
  /\ phase = "used" => \A n \in 0 .. Len(u.field_defs) - 1 : Cardinality(owners(n)) = 1

\* What a type means apart from any module's pools.
RECURSIVE Meaning(_, _)
Meaning(u, token) ==
  CASE token.tag = "STRUCT" ->
         LET h == At(u.struct_handles, token.struct) IN
         [tag |-> "STRUCT", module |-> module_id(u, h), name |-> name(u, h),
          types |-> [i \in DOMAIN token.types |-> Meaning(u, token.types[i])]]
    [] token.tag \in {"REFERENCE", "MUTABLE_REFERENCE"} ->
         [tag |-> token.tag, reference |-> Meaning(u, token.reference)]
    [] token.tag = "VECTOR" -> [tag |-> "VECTOR", vector_type |-> Meaning(u, token.vector_type)]
    [] OTHER -> token
MeaningOf(u, sig) == <<[i \in DOMAIN sig.arg_types |-> Meaning(u, sig.arg_types[i])],
  [i \in DOMAIN sig.return_types |-> Meaning(u, sig.return_types[i])], sig.type_formals>>

\* A function imported from the dependency is public there and has the types its caller was verified
\* with, though the two modules number their structs differently; so is a struct's kind.
LinksAgree ==
  phase = "linked" =>
    /\ \A h \in OfDependency(Module, Module.function_handles, Dependency) :
         \E i \in function_definition(Dependency, name(Module, h)) :
           LET def == Dependency.function_defs[i] IN
           /\ is_public(def)
           /\ MeaningOf(Dependency, SignatureOf(Dependency, At(Dependency.function_handles, def.function)))
              = MeaningOf(Module, SignatureOf(Module, h))
    /\ \A h \in OfDependency(Module, Module.struct_handles, Dependency) :
         \E g \in Range(Dependency.struct_handles) :
           /\ name(Module, h) = name(Dependency, g) /\ module_id(Dependency, g) = self_id(Dependency)
           /\ h.is_nominal_resource = g.is_nominal_resource /\ h.type_formals = g.type_formals
=============================================================================
