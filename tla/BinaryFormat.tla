---------------------------- MODULE BinaryFormat ----------------------------
(***************************************************************************)
(* The binary format of modules and scripts: how the serializer writes a   *)
(* value as bytes, and what the deserializer makes of bytes.               *)
(*                                                                         *)
(* A format is a tuple that names how one value is laid out.  The          *)
(* serializer and the deserializer each have formats of their own, for     *)
(* they are two programs that must agree; Write interprets the first and   *)
(* Read the second.  A number is at most Huge when it is read: no binary   *)
(* of the model is as long.                                                *)
(***************************************************************************)
EXTENDS Integers, Sequences, SequencesExt, FiniteSets, Functions, TLC

CONSTANT ADDRESS_LENGTH        \* 32 in the code

Huge == 2^22
LIBRA_MAGIC == <<161, 28, 235, 11>>
Version == <<1, 0>>
HEADER_SIZE == Len(LIBRA_MAGIC) + Len(Version) + 1
TABLE_HEADER_SIZE == 9

TableType == <<"module_handles", "struct_handles", "function_handles", "address_pool",
  "identifiers", "byte_array_pool", "main", "struct_defs", "field_defs", "function_defs",
  "type_signatures", "function_signatures", "locals_signatures">>
SerializedType == <<"BOOL", "U8", "U64", "U128", "ADDRESS", "REFERENCE", "MUTABLE_REFERENCE",
  "STRUCT", "TYPE_PARAMETER", "VECTOR">>
SignatureType == [TYPE_SIGNATURE |-> 1, FUNCTION_SIGNATURE |-> 2, LOCAL_SIGNATURE |-> 3]
SerializedKind == <<"All", "Unrestricted", "Resource">>
SerializedNativeStructFlag == <<TRUE, FALSE>>            \* NATIVE, DECLARED
SerializedNominalResourceFlag == <<TRUE, FALSE>>         \* NOMINAL_RESOURCE, NORMAL_STRUCT
Opcodes == <<"POP", "RET", "BR_TRUE", "BR_FALSE", "BRANCH", "LD_U64", "LD_ADDR", "LD_TRUE",
  "LD_FALSE", "COPY_LOC", "MOVE_LOC", "ST_LOC", "MUT_BORROW_LOC", "IMM_BORROW_LOC",
  "MUT_BORROW_FIELD", "IMM_BORROW_FIELD", "LD_BYTEARRAY", "CALL", "PACK", "UNPACK",
  "READ_REF", "WRITE_REF", "ADD", "SUB", "MUL", "MOD", "DIV", "BIT_OR", "BIT_AND", "XOR",
  "OR", "AND", "NOT", "EQ", "NEQ", "LT", "GT", "LE", "GE", "ABORT", "GET_TXN_GAS_UNIT_PRICE",
  "GET_TXN_MAX_GAS_UNITS", "GET_GAS_REMAINING", "GET_TXN_SENDER", "EXISTS",
  "MUT_BORROW_GLOBAL", "IMM_BORROW_GLOBAL", "MOVE_FROM", "MOVE_TO",
  "GET_TXN_SEQUENCE_NUMBER", "GET_TXN_PUBLIC_KEY", "FREEZE_REF", "SHL", "SHR", "LD_U8",
  "LD_U128", "CAST_U8", "CAST_U64", "CAST_U128">>

Branches == {"BR_TRUE", "BR_FALSE", "BRANCH"}
OfLocal == {"COPY_LOC", "MOVE_LOC", "ST_LOC", "MUT_BORROW_LOC", "IMM_BORROW_LOC"}
OfField == {"MUT_BORROW_FIELD", "IMM_BORROW_FIELD"}
OfStruct == {"PACK", "UNPACK", "EXISTS", "MUT_BORROW_GLOBAL", "IMM_BORROW_GLOBAL",
  "MOVE_FROM", "MOVE_TO"}

\* Formats.
Byte == <<"byte">>
Char == <<"char">>                                       \* a byte of a utf-8 text
Const(n) == <<"const", n>>                               \* the byte n and no other
Little(n) == <<"little", n>>                             \* n bytes, little endian
Uleb(bits) == <<"uleb", bits>>
Enum(names) == <<"enum", names>>                         \* a byte that counts from 1
Fixed(n) == <<"fixed", n>>                               \* n bytes as they are
List(length, item, max) == <<"list", length, item, max>> \* a length of at most max, then items
Fields(fields) == <<"fields", fields>>                   \* a record, field after field
Token == <<"token">>
Bytecode == <<"bytecode">>
Index == Uleb(16)
NoLimit == Huge

-----------------------------------------------------------------------------
(***************************************************************************)
(* The serializer.                                                         *)
(***************************************************************************)
serialize_module_handle == Fields(<< <<"address", Index>>, <<"name", Index>> >>)
serialize_kinds == List(Uleb(32), Enum(SerializedKind), NoLimit)
serialize_struct_handle == Fields(<< <<"module", Index>>, <<"name", Index>>,
  <<"is_nominal_resource", Enum(SerializedNominalResourceFlag)>>, <<"type_formals", serialize_kinds>> >>)
serialize_function_handle ==
  Fields(<< <<"module", Index>>, <<"name", Index>>, <<"signature", Index>> >>)
serialize_string == List(Uleb(32), Char, NoLimit)
serialize_byte_array == List(Uleb(32), Byte, NoLimit)
serialize_address == Fixed(ADDRESS_LENGTH)
serialize_struct_definition == Fields(<< <<"struct_handle", Index>>,
  <<"native", Enum(SerializedNativeStructFlag)>>, <<"field_count", Index>>, <<"fields", Index>> >>)
serialize_field_definition ==
  Fields(<< <<"struct_", Index>>, <<"name", Index>>, <<"signature", Index>> >>)
serialize_struct_definition_indices == List(Byte, Index, NoLimit)
serialize_code == List(Little(2), Bytecode, NoLimit)
serialize_function_definition == Fields(<< <<"function", Index>>, <<"flags", Byte>>,
  <<"acquires", serialize_struct_definition_indices>>,
  <<"max_stack_size", Index>>, <<"locals", Index>>, <<"code", serialize_code>> >>)
serialize_signature_tokens == List(Byte, Token, NoLimit)
serialize_type_signature ==
  Fields(<< <<"type", Const(SignatureType.TYPE_SIGNATURE)>>, <<"token", Token>> >>)
serialize_function_signature == Fields(<< <<"type", Const(SignatureType.FUNCTION_SIGNATURE)>>,
  <<"return_types", serialize_signature_tokens>>, <<"arg_types", serialize_signature_tokens>>,
  <<"type_formals", serialize_kinds>> >>)
serialize_locals_signature == Fields(<< <<"type", Const(SignatureType.LOCAL_SIGNATURE)>>,
  <<"tokens", serialize_signature_tokens>> >>)

serialize_signature_token(tag) ==
  CASE tag = "STRUCT" -> << <<"struct", Index>>, <<"types", serialize_signature_tokens>> >>
    [] tag \in {"REFERENCE", "MUTABLE_REFERENCE"} -> << <<"reference", Token>> >>
    [] tag = "TYPE_PARAMETER" -> << <<"typeParameter", Index>> >>
    [] tag = "VECTOR" -> << <<"vector_type", Token>> >>
    [] OTHER -> <<>>

serialize_instruction_inner(tag) ==
  CASE tag \in Branches -> << <<"value", Little(2)>> >>
    [] tag = "LD_U64" -> << <<"value", Little(8)>> >>
    [] tag = "LD_U128" -> << <<"value", Little(16)>> >>
    [] tag \in OfLocal \union {"LD_U8"} -> << <<"value", Byte>> >>
    [] tag \in OfField \union {"LD_ADDR", "LD_BYTEARRAY"} -> << <<"value", Index>> >>
    [] tag \in OfStruct \union {"CALL"} -> << <<"value", Index>>, <<"types", Index>> >>
    [] OTHER -> <<>>

serialize_table == [module_handles |-> serialize_module_handle,
  struct_handles |-> serialize_struct_handle, function_handles |-> serialize_function_handle,
  address_pool |-> serialize_address, identifiers |-> serialize_string,
  byte_array_pool |-> serialize_byte_array, main |-> serialize_function_definition,
  struct_defs |-> serialize_struct_definition, field_defs |-> serialize_field_definition,
  function_defs |-> serialize_function_definition, type_signatures |-> serialize_type_signature,
  function_signatures |-> serialize_function_signature,
  locals_signatures |-> serialize_locals_signature]

\* FlattenSeq, by halves: lists are long where the encoding of their length grows.
RECURSIVE Concat(_)
Concat(seqs) ==
  LET half == Len(seqs) \div 2 IN
  CASE Len(seqs) = 0 -> <<>>
    [] Len(seqs) = 1 -> seqs[1]
    [] OTHER -> Concat(SubSeq(seqs, 1, half)) \o Concat(SubSeq(seqs, half + 1, Len(seqs)))

RECURSIVE write_uleb128(_)
write_uleb128(value) ==
  IF value < 128 THEN <<value>> ELSE <<(value % 128) + 128>> \o write_uleb128(value \div 128)

\* The last byte keeps what is too large for it.
RECURSIVE write_little(_, _)
write_little(value, n) ==
  IF n = 1 THEN <<value>> ELSE <<value % 256>> \o write_little(value \div 256, n - 1)

\* A byte that is none, of a length or an index that is too large, makes the serializer fail.
RECURSIVE Write(_, _)
Write(f, v) ==
  CASE f[1] \in {"byte", "char"} -> <<v>>
    [] f[1] = "const" -> <<f[2]>>
    [] f[1] = "little" -> write_little(v, f[2])
    [] f[1] = "uleb" -> write_uleb128(v)
    [] f[1] = "enum" -> <<CHOOSE i \in DOMAIN f[2] : f[2][i] = v>>
    [] f[1] = "fixed" -> v
    [] f[1] = "list" -> Write(f[2], Len(v)) \o Concat([i \in DOMAIN v |-> Write(f[3], v[i])])
    [] f[1] = "fields" -> Concat([i \in DOMAIN f[2] |-> Write(f[2][i][2], v[f[2][i][1]])])
    [] f[1] = "token" -> Write(Enum(SerializedType), v.tag)
                         \o Write(Fields(serialize_signature_token(v.tag)), v)
    [] f[1] = "bytecode" -> Write(Enum(Opcodes), v.tag)
                            \o Write(Fields(serialize_instruction_inner(v.tag)), v)

IsBinary(bytes) == \A i \in DOMAIN bytes : bytes[i] \in 0 .. 255

-----------------------------------------------------------------------------
(***************************************************************************)
(* The deserializer.                                                       *)
(***************************************************************************)
Uint16_max == 65535
load_module_handles == Fields(<< <<"address", Index>>, <<"name", Index>> >>)
load_kinds == List(Uleb(16), Enum(SerializedKind), NoLimit)
load_struct_handles == Fields(<< <<"module", Index>>, <<"name", Index>>,
  <<"is_nominal_resource", Enum(SerializedNominalResourceFlag)>>, <<"type_formals", load_kinds>> >>)
load_function_handles ==
  Fields(<< <<"module", Index>>, <<"name", Index>>, <<"signature", Index>> >>)
load_address_pool == Fixed(ADDRESS_LENGTH)
load_identifiers == List(Uleb(32), Char, Uint16_max)
load_byte_array_pool == List(Uleb(32), Byte, Uint16_max)
load_type_signatures ==
  Fields(<< <<"type", Const(SignatureType.TYPE_SIGNATURE)>>, <<"token", Token>> >>)
load_signature_tokens == List(Uleb(16), Token, NoLimit)
load_function_signatures == Fields(<< <<"type", Const(SignatureType.FUNCTION_SIGNATURE)>>,
  <<"return_types", List(Byte, Token, NoLimit)>>, <<"arg_types", List(Byte, Token, NoLimit)>>,
  <<"type_formals", load_kinds>> >>)
load_locals_signatures == Fields(<< <<"type", Const(SignatureType.LOCAL_SIGNATURE)>>,
  <<"tokens", List(Byte, Token, NoLimit)>> >>)
load_struct_defs == Fields(<< <<"struct_handle", Index>>,
  <<"native", Enum(SerializedNativeStructFlag)>>, <<"field_count", Index>>, <<"fields", Index>> >>)
load_field_defs == Fields(<< <<"struct_", Index>>, <<"name", Index>>, <<"signature", Index>> >>)
load_struct_definition_indices == List(Byte, Index, NoLimit)
load_code == List(Little(2), Bytecode, NoLimit)
load_function_def_swapped == Fields(<< <<"function", Index>>, <<"flags", Byte>>,
  <<"acquires", load_struct_definition_indices>>,
  <<"locals", Index>>, <<"max_stack_size", Index>>, <<"code", load_code>> >>)
load_function_def == Fields(<< <<"function", Index>>, <<"flags", Byte>>,
  <<"acquires", load_struct_definition_indices>>,
  <<"max_stack_size", Index>>, <<"locals", Index>>, <<"code", load_code>> >>)

load_signature_token(tag) ==
  CASE tag = "VECTOR" -> << <<"vector_type", Token>> >>
    [] tag \in {"REFERENCE", "MUTABLE_REFERENCE"} -> << <<"reference", Token>> >>
    [] tag = "STRUCT" -> << <<"struct", Index>>, <<"types", load_signature_tokens>> >>
    [] tag = "TYPE_PARAMETER" -> << <<"typeParameter", Index>> >>
    [] OTHER -> <<>>

load_instruction(tag) ==
  CASE tag \in Branches -> << <<"value", Little(2)>> >>
    [] tag = "LD_U8" -> << <<"value", Byte>> >>
    [] tag = "LD_U64" -> << <<"value", Little(8)>> >>
    [] tag = "LD_U128" -> << <<"value", Little(16)>> >>
    [] tag \in {"LD_ADDR", "LD_BYTEARRAY"} \union OfField -> << <<"value", Index>> >>
    [] tag \in OfLocal -> << <<"value", Byte>> >>
    [] tag \in OfStruct \union {"CALL"} -> << <<"value", Index>>, <<"types", Index>> >>
    [] OTHER -> <<>>

load_table == [module_handles |-> load_module_handles, struct_handles |-> load_struct_handles,
  function_handles |-> load_function_handles, address_pool |-> load_address_pool,
  identifiers |-> load_identifiers, byte_array_pool |-> load_byte_array_pool,
  main |-> load_function_def, struct_defs |-> load_struct_defs, field_defs |-> load_field_defs,
  function_defs |-> load_function_def, type_signatures |-> load_type_signatures,
  function_signatures |-> load_function_signatures, locals_signatures |-> load_locals_signatures]

\* Reading gives <<value, next position>>, or Refused.
Refused == <<>>

RECURSIVE read_uleb128(_, _, _, _)
read_uleb128(bytes, at, shift, max_shift) ==
  IF at > Len(bytes) THEN Refused
  ELSE LET low == bytes[at] % 128
           here == IF shift = 28 /\ low > 0 THEN Huge ELSE low * 2^shift
           rest == read_uleb128(bytes, at + 1, shift + 7, max_shift) IN
       IF bytes[at] < 128 THEN <<here, at + 1>>
       ELSE IF shift + 7 > max_shift \/ rest = Refused THEN Refused
       ELSE <<here + rest[1], rest[2]>>

RECURSIVE read_little(_, _, _)
read_little(bytes, at, n) ==
  IF n = 0 THEN 0
  ELSE LET v == bytes[at] + 256 * read_little(bytes, at + 1, n - 1) IN IF v > Huge THEN Huge ELSE v

RECURSIVE Read(_, _, _)
RECURSIVE ReadItems(_, _, _, _)
RECURSIVE ReadFields(_, _, _, _)

ReadItems(f, n, bytes, at) ==
  CASE n = 0 -> <<<<>>, at>>
    [] n = 1 -> LET item == Read(f, bytes, at) IN
                IF item = Refused THEN Refused ELSE <<<<item[1]>>, item[2]>>
    [] OTHER -> LET first == ReadItems(f, n \div 2, bytes, at)
                    rest == ReadItems(f, n - n \div 2, bytes, first[2]) IN
                IF first = Refused \/ rest = Refused THEN Refused ELSE <<first[1] \o rest[1], rest[2]>>

ReadFields(fields, done, bytes, at) ==
  IF fields = <<>> THEN <<done, at>>
  ELSE LET v == Read(fields[1][2], bytes, at) IN
       IF v = Refused THEN Refused
       ELSE ReadFields(Tail(fields), done @@ (fields[1][1] :> v[1]), bytes, v[2])

ReadTagged(names, bytes, at) ==
  LET tag == Read(Enum(names), bytes, at)
      operands == IF names = Opcodes THEN load_instruction(tag[1]) ELSE load_signature_token(tag[1]) IN
  IF tag = Refused THEN Refused ELSE ReadFields(operands, [tag |-> tag[1]], bytes, tag[2])

Read(f, bytes, at) ==
  CASE f[1] \in {"byte", "char", "const", "enum"} ->
         IF at > Len(bytes) THEN Refused
         ELSE CASE f[1] = "char" /\ bytes[at] >= 128 -> Refused
                [] f[1] = "const" /\ bytes[at] # f[2] -> Refused
                [] f[1] = "enum" -> IF bytes[at] \in DOMAIN f[2] THEN <<f[2][bytes[at]], at + 1>> ELSE Refused
                [] OTHER -> <<bytes[at], at + 1>>
    [] f[1] = "little" -> IF at + f[2] - 1 > Len(bytes) THEN Refused
                          ELSE <<read_little(bytes, at, f[2]), at + f[2]>>
    [] f[1] = "uleb" -> read_uleb128(bytes, at, 0, IF f[2] = 16 THEN 14 ELSE 28)
    [] f[1] = "fixed" -> IF at + f[2] - 1 > Len(bytes) THEN Refused
                         ELSE <<SubSeq(bytes, at, at + f[2] - 1), at + f[2]>>
    [] f[1] = "list" -> LET n == Read(f[2], bytes, at) IN
                        IF n = Refused THEN Refused
                        ELSE IF n[1] > f[4] \/ n[1] > Len(bytes) THEN Refused
                        ELSE ReadItems(f[3], n[1], bytes, n[2])
    [] f[1] = "fields" -> ReadFields(f[2], <<>>, bytes, at)
    [] f[1] = "token" -> ReadTagged(SerializedType, bytes, at)
    [] f[1] = "bytecode" -> ReadTagged(Opcodes, bytes, at)

\* A table is read until its bytes end; Refused stands for the exception.
RECURSIVE LoadRest(_, _, _)
LoadRest(f, bytes, at) ==
  IF at > Len(bytes) THEN <<<<>>>>
  ELSE LET first == Read(f, bytes, at)
           rest == LoadRest(f, bytes, first[2]) IN
       IF first = Refused \/ rest = Refused THEN Refused ELSE <<<<first[1]>> \o rest[1]>>

NativeHasNoFields(e) == e.native => e.field_count = 0 /\ e.fields = 0

\* <<the elements>>, or Refused.  Of the bytes of main only the first function is read.
LoadTable(t, bytes) ==
  LET elements == IF t # "main" THEN LoadRest(load_table[t], bytes, 1)
                  ELSE LET def == Read(load_function_def, bytes, 1) IN
                       IF def = Refused THEN Refused ELSE << <<def[1]>> >> IN
  IF elements = Refused THEN Refused
  ELSE IF t = "struct_defs" /\ \E i \in DOMAIN elements[1] : ~NativeHasNoFields(elements[1][i])
       THEN Refused ELSE elements
=============================================================================
