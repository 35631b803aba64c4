------------------------------ MODULE Recorder ------------------------------
(***************************************************************************)
(* The front of a recording: Recorder of                                   *)
(* crates/doracap-core/src/record.rs, over the writer of one .dcap file.   *)
(*                                                                         *)
(* A caller names channels and schemas; Recorder turns the names into the  *)
(* ids of the writer through two caches of its own.  add_channel is two    *)
(* calls of the writer, so that each of its steps is a step of the writer  *)
(* and everything that holds for the writer holds here.                    *)
(***************************************************************************)
EXTENDS SingleFileWriter

CONSTANT NoCall

VARIABLES
  schema_ids,    \* Recorder::schemas: from the joined key to the id
  channel_ids,   \* Recorder::channels: from the name to the id
  adding,        \* the channel that add_channel has yet to register, or NoCall
  \* history
  bound,         \* the schema each channel name was first registered with
  asked          \* the channel and schema meant by each write of accepted

caches == <<schema_ids, channel_ids, adding, bound>>
recorderVars == <<vars, caches, asked>>

\* type_name and encoding are sequences of the characters that matter.
schema_key(schema) == schema.type_name \o <<"|">> \o schema.encoding

\* The separator is in no type name or encoding, so that the keys differ.
ASSUME RecorderAssumption ==
  \A s, t \in SchemaKeys : schema_key(s) = schema_key(t) => s = t

EmptyMap == [k \in {} |-> 0]

\* HashMap::insert.
Insert(map, key, value) ==
  [k \in DOMAIN map \cup {key} |-> IF k = key THEN value ELSE map[k]]

RecorderInit ==
  /\ Init
  /\ schema_ids = EmptyMap /\ channel_ids = EmptyMap /\ adding = NoCall
  /\ bound = EmptyMap /\ asked = <<>>

------------------------------------------------------------------------------
(* register_schema, add_channel *)

KnownSchema(schema) == schema_key(schema) \in DOMAIN schema_ids
KnownName(name) == name \in DOMAIN channel_ids

NewSchema(schema) ==
  /\ ~KnownSchema(schema)
  /\ AddSchema(schema)
  /\ schema_ids' = Insert(schema_ids, schema_key(schema), NextId(schemas))
  /\ UNCHANGED channel_ids

\* Broken on purpose: whoever is registered last gets the name.
NewChannelAliased(name, schema_id) ==
  /\ AddChannel(name, schema_id)
  /\ channel_ids' = [n \in DOMAIN channel_ids \cup {name} |-> NextId(channels)]
  /\ UNCHANGED schema_ids

NewChannel(name, schema_id) ==
  /\ AddChannel(name, schema_id)
  /\ channel_ids' = Insert(channel_ids, name, NextId(channels))
  /\ UNCHANGED schema_ids

\* A known schema returns its id: no step.
RegisterSchema(schema) ==
  /\ adding = NoCall
  /\ NewSchema(schema)
  /\ UNCHANGED <<adding, bound, asked>>

\* add_channel of a new name: the schema first if it is new, then the channel.
\* A known name returns its id and keeps its schema; the schema it came with
\* is registered all the same, which is RegisterSchema.
AddChannelSchema(name, schema) ==
  /\ adding = NoCall
  /\ ~KnownName(name)
  /\ NewSchema(schema)
  /\ adding' = [name |-> name, schema_id |-> NextId(schemas)]
  /\ bound' = Insert(bound, name, schema)
  /\ UNCHANGED asked

AddChannelChannel ==
  /\ adding # NoCall
  /\ NewChannel(adding.name, adding.schema_id)
  /\ adding' = NoCall
  /\ UNCHANGED <<bound, asked>>

AddChannelAtOnce(name, schema) ==
  /\ adding = NoCall
  /\ ~KnownName(name) /\ KnownSchema(schema)
  /\ NewChannel(name, schema_ids[schema_key(schema)])
  /\ bound' = Insert(bound, name, schema)
  /\ UNCHANGED <<adding, asked>>

------------------------------------------------------------------------------
(* write, finish, and the drop of the writer *)

\* An unknown channel is an error and no step.
RecorderWrite(name, stamp, len) ==
  /\ adding = NoCall
  /\ KnownName(name)
  /\ Write(channel_ids[name], stamp, len)
  /\ asked' = IF accepted' = accepted THEN asked
              ELSE Append(asked, [channel |-> name, schema |-> bound[name]])
  /\ UNCHANGED caches

RecorderFinish == adding = NoCall /\ Finish /\ UNCHANGED <<caches, asked>>

RecorderDrop == adding = NoCall /\ Drop /\ UNCHANGED <<caches, asked>>

Registers ==
  \/ \E schema \in SchemaKeys : RegisterSchema(schema)
  \/ \E name \in Names, schema \in SchemaKeys :
       AddChannelSchema(name, schema) \/ AddChannelAtOnce(name, schema)
  \/ AddChannelChannel

Writes ==
  \E name \in Names, stamp \in Stamps, len \in Lens :
    RecorderWrite(name, stamp, len)

RecorderNext == Registers \/ Writes \/ RecorderFinish \/ RecorderDrop

RecorderSpec == RecorderInit /\ [][RecorderNext]_recorderVars

------------------------------------------------------------------------------
(* Properties *)

\* The id Recorder keeps for a channel name leads, through the channels and the
\* schemas of the writer, back to that name and to the schema it was first
\* registered with, although the two tables are filled by two calls and either
\* table may know its part already (Recorder::add_channel, register_schema).
IdsLeadBack ==
  \A name \in DOMAIN channel_ids :
    \E c \in 1..Len(channels), s \in 1..Len(schemas) :
      /\ channels[c].id = channel_ids[name] /\ channels[c].name = name
      /\ schemas[s].id = channels[c].schema_id
      /\ schemas[s].key = bound[name]
==============================================================================
