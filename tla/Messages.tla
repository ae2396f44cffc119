------------------------------ MODULE Messages ------------------------------
(***************************************************************************)
(* Message, MessageImpl, Field and FieldImpl: what applications send.  A   *)
(* field is [name, dataType, data]; a message keeps its fields in the      *)
(* order they were added and, for each name, the index of the first field  *)
(* of that name, because the two containers share the fields.              *)
(***************************************************************************)
EXTENDS Buffer, SequencesExt

(* Field::DataType; a type is its index, and NOT_SET is 0.                 *)
DataTypes ==
  << "STRING", "SIGNED_INT32", "UNSIGNED_INT32", "SIGNED_INT64", "UNSIGNED_INT64",
     "DOUBLE", "MESSAGE", "BOOL", "BLOB" >>

Code(dataType) == CHOOSE i \in DOMAIN DataTypes : DataTypes[i] = dataType

ScalarSize ==
  [SIGNED_INT32 |-> 4, UNSIGNED_INT32 |-> 4, SIGNED_INT64 |-> 8, UNSIGNED_INT64 |-> 8,
   DOUBLE |-> 8]

Message == [fields |-> << >>, mapNameToField |-> << >>]

(* The later field of a name is in the list but not in the map.            *)
PushBack(m, field) ==
  [fields         |-> Append(m.fields, field),
   mapNameToField |->
     [name \in DOMAIN m.mapNameToField \cup {field.name} |->
        IF name \in DOMAIN m.mapNameToField THEN m.mapNameToField[name]
        ELSE Len(m.fields) + 1]]

addField(m, name, dataType, data) ==
  PushBack(m, [name |-> name, dataType |-> dataType, data |-> data])

hasField(m, name) == name \in DOMAIN m.mapNameToField
getField(m, name) == m.fields[m.mapNameToField[name]]

(* getString to getBLOB throw, and tryGetString to tryGetBLOB return       *)
(* nullopt, if there is no field of the name or it has another type.       *)
get(m, name, dataType) ==
  IF hasField(m, name) /\ getField(m, name).dataType = dataType
  THEN [ok |-> TRUE, item |-> getField(m, name).data]
  ELSE [ok |-> FALSE, item |-> << >>]

(* setString to setBLOB of a field that getField returned.                 *)
set(m, name, dataType, data) ==
  [m EXCEPT !.fields[m.mapNameToField[name]].dataType = dataType,
            !.fields[m.mapNameToField[name]].data     = data]
-----------------------------------------------------------------------------
RECURSIVE write_message(_, _), read_message(_)

write_field(b, field) ==
  LET typed == write_uint8(write_string(b, field.name), Code(field.dataType)) IN
  CASE field.dataType \in {"STRING", "BLOB"}      -> write_string(typed, field.data)
    [] field.dataType \in DOMAIN ScalarSize       -> write_bytes(typed, field.data)
    [] field.dataType = "BOOL"                    -> write_bool(typed, field.data)
    [] field.dataType = "MESSAGE"                 -> write_message(typed, field.data)

write_message(b, m) ==
  FoldLeft(write_field, write_int32(b, Len(m.fields)), m.fields)

read_data(b, dataType) ==
  CASE dataType \in {"STRING", "BLOB"}      -> read_string(b)
    [] dataType \in DOMAIN ScalarSize       -> read_bytes(b, ScalarSize[dataType])
    [] dataType = "BOOL"                    -> read_bool(b)
    [] dataType = "MESSAGE"                 -> read_message(b)

read_field(b) ==
  LET name == read_string(b)
      code == read_uint8(name.buffer)
      data == read_data(code.buffer, DataTypes[code.item])
  IN  IF name.ok /\ code.ok /\ code.item \in DOMAIN DataTypes /\ data.ok
      THEN Result([name |-> name.item, dataType |-> DataTypes[code.item],
                   data |-> data.item], data.buffer)
      ELSE Thrown(b)

read_message(b) ==
  LET count == read_int32(b)
      AddField(r, i) ==
        LET field == read_field(r.buffer) IN
        IF r.ok /\ field.ok THEN Result(PushBack(r.item, field.item), field.buffer)
        ELSE Thrown(r.buffer)
  IN  IF count.ok
      THEN FoldLeft(AddField, Result(Message, count.buffer), [i \in 1 .. count.item |-> i])
      ELSE count
-----------------------------------------------------------------------------
(* NetworkMessage: its header, then its message.                           *)
write_networkMessage(header, m) == write_message(serialize(reset, header), m)

read_networkMessage(s) ==
  LET header  == deserialize([data |-> s, position |-> SIZE_BYTES])
      message == read_message(header.buffer)
  IN  [ok      |-> header.ok /\ message.ok,
       header  |-> header.item,
       message |-> message.item]
=============================================================================
