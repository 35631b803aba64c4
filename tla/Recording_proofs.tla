-------------------------- MODULE Recording_proofs --------------------------
(***************************************************************************)
(* Proofs about Recorder and about Recording, for any names, schemas, id   *)
(* space, stamps and bounds.                                               *)
(*                                                                         *)
(* Recorder: its id tables agree with those of the writer, and it uses the *)
(* writer as the writer is specified, so that what is proved of the writer *)
(* holds in it.                                                            *)
(*                                                                         *)
(* Recording: whatever image of a file is left, what is read from it.  The *)
(* shape of the file is proved with the writer; here is what a reader sees *)
(* of the first n cells of a file of that shape (Seen), chunk by chunk and *)
(* through the footer, that its ids lead back to the names of the caller,  *)
(* and the invariant that says which answers a reader may have given       *)
(* (RecordingInv).  The properties of Recording follow from it.            *)
(***************************************************************************)
EXTENDS Recording, SingleFileWriter_proofs

\* A schema the writer has declared under this id.
Declared(id, schema) ==
  \E s \in 1..Len(schemas) : schemas[s].id = id /\ schemas[s].key = schema

\* Recorder::schemas has ids of declared schemas only.
SchemaIdsInv ==
  \A key \in DOMAIN schema_ids :
    \E s \in 1..Len(schemas) :
      /\ schema_key(schemas[s].key) = key
      /\ schemas[s].id = schema_ids[key]

\* The channel that is still to be registered has its schema already.
AddingInv ==
  adding # NoCall =>
    /\ adding.name \in Names \cap DOMAIN bound
    /\ ~KnownName(adding.name)
    /\ Declared(adding.schema_id, bound[adding.name])

Inv ==
  /\ SchemaIdsInv
  /\ AddingInv
  /\ DOMAIN channel_ids \subseteq Names \cap DOMAIN bound
  /\ IdsLeadBack

IInv == TypeOK /\ Inv

------------------------------------------------------------------------------
(* What the tables keep when something is added to them *)

LEMMA SchemasGrow ==
  ASSUME TypeOK, NEW schema \in SchemaKeys, NewSchema(schema)
  PROVE  /\ Len(schemas') = Len(schemas) + 1
         /\ \A s \in 1..Len(schemas) : schemas'[s] = schemas[s]
         /\ schemas'[Len(schemas')] = [id |-> NextId(schemas), key |-> schema]
         /\ UNCHANGED <<channels, channel_ids>>
  BY DEF NewSchema, AddSchema, TypeOK

LEMMA ChannelsGrow ==
  ASSUME TypeOK, NEW name, NEW id, NewChannel(name, id)
  PROVE  /\ Len(channels') = Len(channels) + 1
         /\ \A c \in 1..Len(channels) : channels'[c] = channels[c]
         /\ channels'[Len(channels')] =
              [id |-> NextId(channels), name |-> name, schema_id |-> id]
         /\ UNCHANGED <<schemas, schema_ids>>
  BY DEF NewChannel, AddChannel, TypeOK

LEMMA SchemaIdsGrow ==
  ASSUME IInv, NEW schema \in SchemaKeys, NewSchema(schema)
  PROVE  SchemaIdsInv'
<1> DEFINE new == Len(schemas) + 1
           added == schema_key(schema)
<1>1. /\ TypeOK
      /\ new \in Nat
  BY DEF IInv, TypeOK
<1>2. /\ Len(schemas') = new
      /\ \A s \in 1..Len(schemas) : schemas'[s] = schemas[s]
      /\ schemas'[new] = [id |-> NextId(schemas), key |-> schema]
  BY <1>1, SchemasGrow
<1>3. schema_ids' = Insert(schema_ids, added, NextId(schemas))
  BY DEF NewSchema
<1>4. /\ DOMAIN schema_ids' = DOMAIN schema_ids \cup {added}
      /\ schema_ids'[added] = NextId(schemas)
      /\ \A k \in DOMAIN schema_ids \ {added} : schema_ids'[k] = schema_ids[k]
  BY <1>3 DEF Insert
<1>5. ASSUME NEW key \in DOMAIN schema_ids'
      PROVE  \E s \in 1..Len(schemas') : /\ schema_key(schemas'[s].key) = key
                                         /\ schemas'[s].id = schema_ids'[key]
  <2>1. CASE key = added
    <3>1. new \in 1..Len(schemas')
      BY <1>1, <1>2
    <3>2. schema_key(schemas'[new].key) = key /\ schemas'[new].id = schema_ids'[key]
      BY <1>2, <1>4, <2>1
    <3>3. QED
      BY <3>1, <3>2
  <2>2. CASE key # added
    <3>1. key \in DOMAIN schema_ids /\ schema_ids'[key] = schema_ids[key]
      BY <1>4, <1>5, <2>2
    <3>2. PICK s \in 1..Len(schemas) : /\ schema_key(schemas[s].key) = key
                                       /\ schemas[s].id = schema_ids[key]
      BY <3>1 DEF IInv, Inv, SchemaIdsInv
    <3>3. s \in 1..Len(schemas') /\ schemas'[s] = schemas[s]
      BY <1>1, <1>2
    <3>4. QED
      BY <3>1, <3>2, <3>3
  <2>3. QED
    BY <2>1, <2>2
<1>6. QED
  BY <1>5 DEF SchemaIdsInv

\* A schema that is known is declared under the id Recorder has for it: no two
\* schemas have the same joined key.
LEMMA KnownIsDeclared ==
  ASSUME IInv, NEW schema \in SchemaKeys, KnownSchema(schema)
  PROVE  Declared(schema_ids[schema_key(schema)], schema)
<1>1. PICK s \in 1..Len(schemas) :
        /\ schema_key(schemas[s].key) = schema_key(schema)
        /\ schemas[s].id = schema_ids[schema_key(schema)]
  BY DEF KnownSchema, IInv, Inv, SchemaIdsInv
<1>2. schemas[s] \in Schema
  BY DEF IInv, TypeOK
<1>3. schemas[s].key \in SchemaKeys
  BY <1>2 DEF Schema
<1>4. schemas[s].key = schema
  BY <1>1, <1>3, RecorderAssumption
<1>5. QED
  BY <1>1, <1>4 DEF Declared

LEMMA NewIsDeclared ==
  ASSUME IInv, NEW schema \in SchemaKeys, NewSchema(schema)
  PROVE  \E s \in 1..Len(schemas') :
           /\ schemas'[s].id = NextId(schemas)
           /\ schemas'[s].key = schema
<1>1. TypeOK /\ Len(schemas) \in Nat
  BY DEF IInv, TypeOK
<1>2. /\ Len(schemas') = Len(schemas) + 1
      /\ schemas'[Len(schemas')] = [id |-> NextId(schemas), key |-> schema]
  BY <1>1, SchemasGrow
<1>3. Len(schemas') \in 1..Len(schemas')
  BY <1>1, <1>2
<1>4. QED
  BY <1>2, <1>3

------------------------------------------------------------------------------
(* The steps *)

\* A new schema leaves the channels as they are.
LEMMA ChannelsLeadBackStill ==
  ASSUME IInv, NEW schema \in SchemaKeys, NewSchema(schema),
         \A name \in DOMAIN channel_ids : bound'[name] = bound[name]
  PROVE  IdsLeadBack'
<1>1. TypeOK /\ Len(schemas) \in Nat /\ Len(channels) \in Nat
  BY DEF IInv, TypeOK
<1>2. /\ Len(schemas') = Len(schemas) + 1
      /\ \A s \in 1..Len(schemas) : schemas'[s] = schemas[s]
      /\ UNCHANGED <<channels, channel_ids>>
  BY <1>1, SchemasGrow
<1>3. ASSUME NEW name \in DOMAIN channel_ids'
      PROVE  \E c \in 1..Len(channels'), s \in 1..Len(schemas') :
               /\ channels'[c].id = channel_ids'[name]
               /\ channels'[c].name = name
               /\ schemas'[s].id = channels'[c].schema_id
               /\ schemas'[s].key = bound'[name]
  <2>1. PICK c \in 1..Len(channels), s \in 1..Len(schemas) :
          /\ channels[c].id = channel_ids[name] /\ channels[c].name = name
          /\ schemas[s].id = channels[c].schema_id
          /\ schemas[s].key = bound[name]
    BY <1>2, <1>3 DEF IInv, Inv, IdsLeadBack
  <2>2. s \in 1..Len(schemas') /\ schemas'[s] = schemas[s]
    BY <1>1, <1>2
  <2>3. QED
    BY <1>2, <1>3, <2>1, <2>2
<1>4. QED
  BY <1>3 DEF IdsLeadBack

LEMMA RegisterSchemaInv ==
  ASSUME IInv, NEW schema \in SchemaKeys, RegisterSchema(schema)
  PROVE  Inv'
<1>1. NewSchema(schema) /\ UNCHANGED <<adding, bound, channel_ids>>
  BY DEF RegisterSchema, NewSchema
<1>2. SchemaIdsInv'
  BY <1>1, SchemaIdsGrow
<1>3. AddingInv'
  BY <1>1 DEF RegisterSchema, AddingInv
<1>4. IdsLeadBack'
  BY <1>1, ChannelsLeadBackStill
<1>5. QED
  BY <1>1, <1>2, <1>3, <1>4 DEF IInv, Inv

LEMMA AddChannelSchemaInv ==
  ASSUME IInv, NEW name \in Names, NEW schema \in SchemaKeys,
         AddChannelSchema(name, schema)
  PROVE  Inv'
<1>1. /\ NewSchema(schema) /\ name \notin DOMAIN channel_ids
      /\ UNCHANGED channel_ids
      /\ adding' = [name |-> name, schema_id |-> NextId(schemas)]
      /\ bound' = Insert(bound, name, schema)
  BY DEF AddChannelSchema, NewSchema, KnownName
<1>2. /\ DOMAIN bound' = DOMAIN bound \cup {name}
      /\ bound'[name] = schema
      /\ \A n \in DOMAIN bound \ {name} : bound'[n] = bound[n]
  BY <1>1 DEF Insert
<1>3. SchemaIdsInv'
  BY <1>1, SchemaIdsGrow
<1>4. AddingInv'
  <2>1. \E s \in 1..Len(schemas') : /\ schemas'[s].id = NextId(schemas)
                                    /\ schemas'[s].key = schema
    BY <1>1, NewIsDeclared
  <2>2. /\ adding'.name = name /\ adding'.schema_id = NextId(schemas)
        /\ bound'[adding'.name] = schema
    BY <1>1, <1>2
  <2>3. Declared(adding.schema_id, bound[adding.name])'
    BY <2>1, <2>2 DEF Declared
  <2>4. QED
    BY <1>1, <1>2, <2>2, <2>3 DEF AddingInv, KnownName
<1>5. DOMAIN channel_ids' \subseteq Names \cap DOMAIN bound'
  BY <1>1, <1>2 DEF IInv, Inv
<1>6. \A n \in DOMAIN channel_ids : bound'[n] = bound[n]
  BY <1>1, <1>2 DEF IInv, Inv
<1>7. IdsLeadBack'
  BY <1>1, <1>6, ChannelsLeadBackStill
<1>8. QED
  BY <1>3, <1>4, <1>5, <1>7 DEF Inv

\* A channel added under a declared schema leads back to it.
LEMMA NewLeadsBack ==
  ASSUME IInv, NEW name \in Names, NEW id, NewChannel(name, id),
         Declared(id, bound'[name]),
         \A n \in DOMAIN channel_ids \ {name} : bound'[n] = bound[n]
  PROVE  IdsLeadBack'
<1>1. TypeOK /\ Len(schemas) \in Nat /\ Len(channels) \in Nat
  BY DEF IInv, TypeOK
<1>2. /\ Len(channels') = Len(channels) + 1
      /\ \A c \in 1..Len(channels) : channels'[c] = channels[c]
      /\ channels'[Len(channels')] =
           [id |-> NextId(channels), name |-> name, schema_id |-> id]
      /\ UNCHANGED schemas
  BY <1>1, ChannelsGrow
<1>3. channel_ids' = Insert(channel_ids, name, NextId(channels))
  BY DEF NewChannel
<1>4. /\ DOMAIN channel_ids' = DOMAIN channel_ids \cup {name}
      /\ channel_ids'[name] = NextId(channels)
      /\ \A n \in DOMAIN channel_ids \ {name} :
           channel_ids'[n] = channel_ids[n]
  BY <1>3 DEF Insert
<1>5. ASSUME NEW n \in DOMAIN channel_ids'
      PROVE  \E c \in 1..Len(channels'), s \in 1..Len(schemas') :
               /\ channels'[c].id = channel_ids'[n]
               /\ channels'[c].name = n
               /\ schemas'[s].id = channels'[c].schema_id
               /\ schemas'[s].key = bound'[n]
  <2>1. CASE n = name
    <3>1. PICK s \in 1..Len(schemas) :
            schemas[s].id = id /\ schemas[s].key = bound'[name]
      BY DEF Declared
    <3>2. Len(channels') \in 1..Len(channels')
      BY <1>1, <1>2
    <3>3. QED
      BY <1>2, <1>4, <2>1, <3>1, <3>2
  <2>2. CASE n # name
    <3>1. /\ n \in DOMAIN channel_ids
          /\ channel_ids'[n] = channel_ids[n] /\ bound'[n] = bound[n]
      BY <1>4, <1>5, <2>2
    <3>2. PICK c \in 1..Len(channels), s \in 1..Len(schemas) :
            /\ channels[c].id = channel_ids[n] /\ channels[c].name = n
            /\ schemas[s].id = channels[c].schema_id
            /\ schemas[s].key = bound[n]
      BY <3>1 DEF IInv, Inv, IdsLeadBack
    <3>3. c \in 1..Len(channels') /\ channels'[c] = channels[c]
      BY <1>1, <1>2
    <3>4. QED
      BY <1>2, <3>1, <3>2, <3>3
  <2>3. QED
    BY <2>1, <2>2
<1>6. QED
  BY <1>5 DEF IdsLeadBack

LEMMA AddChannelChannelInv ==
  ASSUME IInv, AddChannelChannel
  PROVE  Inv'
<1> DEFINE name == adding.name
<1>1. /\ NewChannel(name, adding.schema_id)
      /\ adding' = NoCall /\ UNCHANGED <<bound, schemas, schema_ids>>
      /\ name \in Names \cap DOMAIN bound
      /\ Declared(adding.schema_id, bound[name])
  BY DEF AddChannelChannel, NewChannel, AddChannel, IInv, Inv, AddingInv
<1>2. IdsLeadBack'
  BY <1>1, NewLeadsBack
<1>3. DOMAIN channel_ids' = DOMAIN channel_ids \cup {name}
  BY <1>1 DEF NewChannel, Insert
<1>4. SchemaIdsInv'
  BY <1>1 DEF IInv, Inv, SchemaIdsInv
<1>5. AddingInv'
  BY <1>1 DEF AddingInv
<1>6. QED
  BY <1>1, <1>2, <1>3, <1>4, <1>5 DEF IInv, Inv

LEMMA AddChannelAtOnceInv ==
  ASSUME IInv, NEW name \in Names, NEW schema \in SchemaKeys,
         AddChannelAtOnce(name, schema)
  PROVE  Inv'
<1> DEFINE id == schema_ids[schema_key(schema)]
<1>1. /\ adding = NoCall /\ KnownSchema(schema)
      /\ NewChannel(name, id)
      /\ bound' = Insert(bound, name, schema)
      /\ UNCHANGED <<adding, schemas, schema_ids>>
  BY DEF AddChannelAtOnce, NewChannel, AddChannel
<1>2. /\ DOMAIN bound' = DOMAIN bound \cup {name}
      /\ bound'[name] = schema
      /\ \A n \in DOMAIN bound \ {name} : bound'[n] = bound[n]
  BY <1>1 DEF Insert
<1>3. Declared(id, bound'[name])
  BY <1>1, <1>2, KnownIsDeclared
<1>4. \A n \in DOMAIN channel_ids \ {name} : bound'[n] = bound[n]
  BY <1>2 DEF IInv, Inv
<1>5. IdsLeadBack'
  BY <1>1, <1>3, <1>4, NewLeadsBack
<1>6. DOMAIN channel_ids' = DOMAIN channel_ids \cup {name}
  BY <1>1 DEF NewChannel, Insert
<1>7. SchemaIdsInv'
  BY <1>1 DEF IInv, Inv, SchemaIdsInv
<1>8. AddingInv'
  BY <1>1 DEF AddingInv
<1>9. QED
  BY <1>2, <1>5, <1>6, <1>7, <1>8 DEF IInv, Inv

\* The other calls leave the tables alone.
LEMMA TablesUnchanged ==
  ASSUME IInv, UNCHANGED <<schemas, channels, caches>>
  PROVE  Inv'
  BY DEF IInv, Inv, SchemaIdsInv, AddingInv, IdsLeadBack, Declared, KnownName,
         caches

LEMMA StepInv ==
  ASSUME IInv, [RecorderNext]_recorderVars
  PROVE  Inv'
<1>1. CASE Registers
  BY <1>1, RegisterSchemaInv, AddChannelSchemaInv, AddChannelAtOnceInv,
     AddChannelChannelInv DEF Registers
<1>2. CASE Writes
  BY <1>2, TablesUnchanged DEF Writes, RecorderWrite, Write, registry
<1>3. CASE RecorderFinish \/ RecorderDrop
  BY <1>3, TablesUnchanged
  DEF RecorderFinish, RecorderDrop, Finish, Drop, FinishBody, registry
<1>4. CASE UNCHANGED recorderVars
  BY <1>4, TablesUnchanged DEF recorderVars, vars, registry
<1>5. QED
  BY <1>1, <1>2, <1>3, <1>4 DEF RecorderNext

\* Every step of Recorder is a step of the writer: the ids it passes on are
\* those of declared channels and schemas.
LEMMA UsesSteps ==
  ASSUME IInv, [RecorderNext]_recorderVars
  PROVE  [Next]_vars
<1>1. ASSUME NEW schema \in SchemaKeys, NewSchema(schema)
      PROVE  Next
  BY <1>1 DEF NewSchema, Next, Register
<1>2. ASSUME NEW name \in Names, NEW id, NEW schema, Declared(id, schema),
             NewChannel(name, id)
      PROVE  Next
  BY <1>2 DEF NewChannel, Declared, Next, Register
<1>3. CASE Registers
  <2>1. CASE \E schema \in SchemaKeys :
               \/ RegisterSchema(schema)
               \/ \E name \in Names : AddChannelSchema(name, schema)
    BY <1>1, <2>1 DEF RegisterSchema, AddChannelSchema
  <2>2. CASE \E name \in Names, schema \in SchemaKeys :
               AddChannelAtOnce(name, schema)
    BY <1>2, <2>2, KnownIsDeclared DEF AddChannelAtOnce
  <2>3. CASE AddChannelChannel
    BY <1>2, <2>3 DEF AddChannelChannel, IInv, Inv, AddingInv
  <2>4. QED
    BY <1>3, <2>1, <2>2, <2>3 DEF Registers
<1>4. CASE Writes
  <2>1. PICK name \in Names, stamp \in Stamps, len \in Lens :
          RecorderWrite(name, stamp, len)
    BY <1>4 DEF Writes
  <2>2. PICK c \in 1..Len(channels) : channels[c].id = channel_ids[name]
    BY <2>1 DEF RecorderWrite, KnownName, IInv, Inv, IdsLeadBack
  <2>3. QED
    BY <2>1, <2>2 DEF RecorderWrite, Next, WriteAny
<1>5. CASE RecorderFinish \/ RecorderDrop
  BY <1>5 DEF RecorderFinish, RecorderDrop, Next
<1>6. CASE UNCHANGED recorderVars
  BY <1>6 DEF recorderVars
<1>7. QED
  BY <1>3, <1>4, <1>5, <1>6 DEF RecorderNext

LEMMA InitInv ==
  ASSUME RecorderInit
  PROVE  Inv
  BY DEF RecorderInit, EmptyMap, Inv, SchemaIdsInv, AddingInv, IdsLeadBack

------------------------------------------------------------------------------
(* What holds of the recorder *)

LEMMA InvHolds == RecorderSpec => []IInv
<1>1. RecorderInit => IInv
  BY InitInv, InitType DEF RecorderInit, IInv
<1>2. IInv /\ [RecorderNext]_recorderVars => IInv'
  BY StepInv, UsesSteps, StepType DEF IInv
<1>3. QED
  BY <1>1, <1>2, PTL DEF RecorderSpec

\* For any names, schemas and id space, also one so small that ids wrap: the id
\* of a name leads back to that name and to its first schema (add_channel,
\* register_schema).
THEOREM IdsLeadBackAlways == RecorderSpec => []IdsLeadBack
<1>1. IInv => IdsLeadBack
  BY DEF IInv, Inv
<1>2. QED
  BY <1>1, InvHolds, PTL

\* Recorder uses its writer as the writer is specified.
THEOREM RecorderUsesWriter == RecorderSpec => Spec
<1>1. RecorderInit => Init
  BY DEF RecorderInit
<1>2. IInv /\ [RecorderNext]_recorderVars => [Next]_vars
  BY UsesSteps
<1>3. QED
  BY <1>1, <1>2, InvHolds, PTL DEF RecorderSpec, Spec

\* So what is proved of the writer holds in every recording that is made
\* through a Recorder: its accounts agree, each message that a call has buffered
\* is in one place, and its chunks are sorted and where the index has them
\* (write, finish).
THEOREM RecordingsKept ==
  RecorderSpec => /\ []ChunksTile /\ []EveryMessageOnce
                  /\ []IndexLocatesChunks /\ []ChunksSorted
  BY RecorderUsesWriter, AccountsAgree, MessagesKept, ChunksAreLocated,
     ChunksAreSorted, PTL

------------------------------------------------------------------------------
(* What the caller meant by each message *)

\* Fewer declarations than ids: none has wrapped.
IdsSuffice == Len(schemas) < IdSpace /\ Len(channels) < IdSpace

DeclInv ==
  /\ \A i \in 1..Len(schemas) : schemas[i].id = i
  /\ \A i \in 1..Len(channels) : channels[i].id = i

\* What the caller meant by each message is what its ids lead to.
AskedInv ==
  /\ Len(asked) = Len(accepted)
  /\ asked \in Seq([channel : Names, schema : SchemaKeys])
  /\ \A i \in 1..Len(accepted) :
       \E c \in 1..Len(channels), s \in 1..Len(schemas) :
         /\ channels[c].id = accepted[i].ch
         /\ channels[c].name = asked[i].channel
         /\ schemas[s].id = channels[c].schema_id
         /\ schemas[s].key = asked[i].schema

\* No chunk is empty.
FilledInv == \A i \in 1..Len(chunk_index) : chunk_index[i].msg_count >= 1

Grows(s, t) ==
  /\ Len(s) \in Nat /\ Len(t) \in Nat
  /\ Len(s) <= Len(t) /\ \A i \in 1..Len(s) : t[i] = s[i]

\* Declarations are only added, behind the others.
LEMMA RegistryGrows ==
  ASSUME IInv, [RecorderNext]_recorderVars
  PROVE  /\ Grows(schemas, schemas') /\ Grows(channels, channels')
         /\ \/ UNCHANGED <<schemas, channels>>
            \/ /\ \E e : schemas' = Append(schemas, e) /\ e.id = NextId(schemas)
               /\ UNCHANGED channels
            \/ /\ \E e : channels' = Append(channels, e) /\ e.id = NextId(channels)
               /\ UNCHANGED schemas
<1>1. /\ schemas \in Seq(Schema) /\ channels \in Seq(Channel)
  BY DEF IInv, TypeOK
<1>2. /\ Len(schemas) \in Nat /\ Len(channels) \in Nat
  BY <1>1
<1>3. [Next]_vars
  BY UsesSteps
<1>4. CASE UNCHANGED <<schemas, channels>>
  BY <1>2, <1>4 DEF Grows
<1>5. CASE \E key \in SchemaKeys : AddSchema(key)
  <2>1. PICK e : schemas' = Append(schemas, e) /\ e.id = NextId(schemas)
                 /\ channels' = channels
    BY <1>5 DEF AddSchema
  <2>2. Len(schemas') = Len(schemas) + 1 /\ \A i \in 1..Len(schemas) : schemas'[i] = schemas[i]
    BY <1>1, <2>1
  <2>3. QED
    BY <1>2, <2>1, <2>2 DEF Grows
<1>6. CASE \E name, id : AddChannel(name, id)
  <2>1. PICK e : channels' = Append(channels, e) /\ e.id = NextId(channels)
                 /\ schemas' = schemas
    BY <1>6 DEF AddChannel
  <2>2. Len(channels') = Len(channels) + 1 /\ \A i \in 1..Len(channels) : channels'[i] = channels[i]
    BY <1>1, <2>1
  <2>3. QED
    BY <1>2, <2>1, <2>2 DEF Grows
<1>7. QED
  BY <1>3, <1>4, <1>5, <1>6 DEF Next, Register, WriteAny, Write, Finish, FinishBody, Drop,
     vars, registry

\* As long as no id has wrapped, a declaration's id is its place.
LEMMA DeclStep ==
  ASSUME IInv, [RecorderNext]_recorderVars, IdsSuffice => DeclInv
  PROVE  (IdsSuffice => DeclInv)'
<1>1. /\ schemas \in Seq(Schema) /\ channels \in Seq(Channel)
      /\ Len(schemas) \in Nat /\ Len(channels) \in Nat
  <2>1. schemas \in Seq(Schema) /\ channels \in Seq(Channel)
    BY DEF IInv, TypeOK
  <2>2. QED
    BY <2>1
<1>2. IdSpace \in Nat \ {0}
  BY WriterAssumption
<1>3. SUFFICES ASSUME IdsSuffice' PROVE DeclInv'
  OBVIOUS
<1>4. CASE UNCHANGED <<schemas, channels>>
  BY <1>3, <1>4 DEF IdsSuffice, DeclInv
<1>5. ASSUME NEW e, schemas' = Append(schemas, e), e.id = NextId(schemas), channels' = channels
      PROVE  DeclInv'
  <2>1. /\ Len(schemas') = Len(schemas) + 1
        /\ \A i \in 1..Len(schemas) : schemas'[i] = schemas[i]
        /\ schemas'[Len(schemas) + 1] = e
    BY <1>1, <1>5
  <2>2. DeclInv /\ Len(schemas) + 1 < IdSpace
    BY <1>1, <1>2, <1>3, <1>5, <2>1 DEF IdsSuffice
  <2>3. e.id = Len(schemas) + 1
    <3>1. PICK n \in Nat : n = Len(schemas) + 1
      BY <1>1
    <3>2. n % IdSpace = n
      BY <1>2, <2>2, <3>1, Z3
    <3>3. QED
      BY <1>5, <3>1, <3>2 DEF NextId
  <2>4. QED
    BY <1>1, <1>5, <2>1, <2>2, <2>3 DEF DeclInv
<1>6. ASSUME NEW e, channels' = Append(channels, e), e.id = NextId(channels), schemas' = schemas
      PROVE  DeclInv'
  <2>1. /\ Len(channels') = Len(channels) + 1
        /\ \A i \in 1..Len(channels) : channels'[i] = channels[i]
        /\ channels'[Len(channels) + 1] = e
    BY <1>1, <1>6
  <2>2. DeclInv /\ Len(channels) + 1 < IdSpace
    BY <1>1, <1>2, <1>3, <1>6, <2>1 DEF IdsSuffice
  <2>3. e.id = Len(channels) + 1
    <3>1. PICK n \in Nat : n = Len(channels) + 1
      BY <1>1
    <3>2. n % IdSpace = n
      BY <1>2, <2>2, <3>1, Z3
    <3>3. QED
      BY <1>6, <3>1, <3>2 DEF NextId
  <2>4. QED
    BY <1>1, <1>6, <2>1, <2>2, <2>3 DEF DeclInv
<1>7. QED
  BY <1>4, <1>5, <1>6, RegistryGrows

\* A message and what was meant by it.
Meant(m, a) ==
  \E c \in 1..Len(channels), s \in 1..Len(schemas) :
    /\ channels[c].id = m.ch /\ channels[c].name = a.channel
    /\ schemas[s].id = channels[c].schema_id /\ schemas[s].key = a.schema

LEMMA MeantStays ==
  ASSUME Grows(schemas, schemas'), Grows(channels, channels'), NEW m, NEW a, Meant(m, a)
  PROVE  Meant(m, a)'
<1>1. PICK c \in 1..Len(channels), s \in 1..Len(schemas) :
    /\ channels[c].id = m.ch /\ channels[c].name = a.channel
    /\ schemas[s].id = channels[c].schema_id /\ schemas[s].key = a.schema
  BY DEF Meant
<1>2. /\ c \in 1..Len(channels') /\ s \in 1..Len(schemas')
      /\ channels'[c] = channels[c] /\ schemas'[s] = schemas[s]
  BY DEF Grows
<1>3. QED
  BY <1>1, <1>2 DEF Meant

\* A write adds to both what was accepted and what was meant.
LEMMA AskedStep ==
  ASSUME IInv, AskedInv, [RecorderNext]_recorderVars
  PROVE  AskedInv'
<1>1. TypeOK /\ accepted \in Seq(Message) /\ Len(accepted) \in Nat
  <2>1. TypeOK /\ accepted \in Seq(Message)
    BY DEF IInv, TypeOK
  <2>2. QED
    BY <2>1
<1>2. Grows(schemas, schemas') /\ Grows(channels, channels')
  BY RegistryGrows
<1>3. \A i \in 1..Len(accepted) : Meant(accepted[i], asked[i])
  BY DEF AskedInv, Meant
<1>4. CASE UNCHANGED <<accepted, asked>>
  <2>1. (\A i \in 1..Len(accepted) : Meant(accepted[i], asked[i]))'
    <3>1. SUFFICES ASSUME NEW i \in 1..Len(accepted) PROVE Meant(accepted[i], asked[i])'
      BY <1>4
    <3>2. PICK m, a : m = accepted[i] /\ a = asked[i]
      OBVIOUS
    <3>3. Meant(m, a)'
      BY <1>2, <1>3, <3>2, MeantStays
    <3>4. QED
      BY <1>4, <3>2, <3>3 DEF Meant
  <2>2. QED
    BY <1>4, <2>1 DEF AskedInv, Meant
<1>5. ASSUME NEW name \in Names, NEW stamp \in Stamps, NEW len \in Lens,
             RecorderWrite(name, stamp, len), accepted' # accepted
      PROVE  AskedInv'
  <2>1. PICK m : /\ accepted' = Append(accepted, m) /\ m.ch = channel_ids[name]
    BY <1>5 DEF RecorderWrite, Write
  <2>2. PICK a : /\ asked' = Append(asked, a) /\ a = [channel |-> name, schema |-> bound[name]]
    BY <1>5 DEF RecorderWrite
  <2>3. UNCHANGED <<schemas, channels>>
    BY <1>5 DEF RecorderWrite, Write, registry
  <2>4. PICK c \in 1..Len(channels), s \in 1..Len(schemas) :
          /\ channels[c].id = channel_ids[name] /\ channels[c].name = name
          /\ schemas[s].id = channels[c].schema_id
          /\ schemas[s].key = bound[name]
    BY <1>5 DEF RecorderWrite, KnownName, IInv, Inv, IdsLeadBack
  <2>5. Meant(m, a)
    BY <2>1, <2>2, <2>4 DEF Meant
  <2>6. schemas[s] \in Schema
    BY <1>1 DEF TypeOK
  <2>7. a \in [channel : Names, schema : SchemaKeys]
    BY <2>2, <2>4, <2>6 DEF Schema
  <2>8. /\ Len(accepted') = Len(accepted) + 1
        /\ accepted'[Len(accepted) + 1] = m
        /\ \A i \in 1..Len(accepted) : accepted'[i] = accepted[i]
    BY <1>1, <2>1
  <2>9. /\ Len(asked') = Len(accepted) + 1 /\ asked' \in Seq([channel : Names, schema : SchemaKeys])
        /\ asked'[Len(accepted) + 1] = a
        /\ \A i \in 1..Len(accepted) : asked'[i] = asked[i]
    BY <1>1, <2>2, <2>7 DEF AskedInv
  <2>10. \A i \in 1..Len(accepted') : Meant(accepted'[i], asked'[i])
    <3>1. SUFFICES ASSUME NEW i \in 1..Len(accepted) + 1 PROVE Meant(accepted'[i], asked'[i])
      BY <2>8
    <3>2. CASE i = Len(accepted) + 1
      BY <2>5, <2>8, <2>9, <3>2
    <3>3. CASE i # Len(accepted) + 1
      <4>1. i \in 1..Len(accepted)
        BY <1>1, <3>3
      <4>2. QED
        BY <1>3, <2>8, <2>9, <4>1
    <3>4. QED
      BY <3>2, <3>3
  <2>11. QED
    BY <2>3, <2>8, <2>9, <2>10 DEF AskedInv, Meant
<1>6. CASE Writes
  <2>1. PICK name \in Names, stamp \in Stamps, len \in Lens : RecorderWrite(name, stamp, len)
    BY <1>6 DEF Writes
  <2>2. accepted' = accepted => asked' = asked
    BY <2>1 DEF RecorderWrite
  <2>3. QED
    BY <1>4, <1>5, <2>1, <2>2
<1>7. CASE UNCHANGED recorderVars
  BY <1>4, <1>7 DEF recorderVars, vars
<1>8. CASE Registers \/ RecorderFinish \/ RecorderDrop
  BY <1>4, <1>8 DEF Registers, RegisterSchema, AddChannelSchema, AddChannelChannel,
     AddChannelAtOnce, NewSchema, NewChannel, AddSchema, AddChannel,
     RecorderFinish, RecorderDrop, Finish, Drop, FinishBody
<1>9. QED
  BY <1>6, <1>7, <1>8 DEF RecorderNext

LEMMA FilledEffect ==
  ASSUME FilledInv, NEW msgs, Effect(msgs)
  PROVE  FilledInv'
<1>1. TypeOK /\ msgs \in Seq(Message)
  BY DEF Effect, Call, Offered
<1>2. /\ Len(chunk_index) \in Nat /\ Len(chunk_index') \in Nat
      /\ \A i \in 1..Len(chunk_index) : chunk_index'[i] = chunk_index[i]
  BY EffectIndex
<1>3. CASE chunk_index' = chunk_index
  BY <1>3 DEF FilledInv
<1>4. CASE /\ msgs # <<>>
           /\ Len(chunk_index') = Len(chunk_index) + 1
           /\ chunk_index'[Len(chunk_index) + 1] = IndexEntry(msgs)
  <2>1. IndexEntry(msgs).msg_count = Len(msgs)
    BY <1>1, <1>4, NewEntry
  <2>2. Len(msgs) >= 1
    BY <1>1, <1>4
  <2>3. ASSUME NEW i \in 1..Len(chunk_index') PROVE chunk_index'[i].msg_count >= 1
    <3>1. CASE i = Len(chunk_index) + 1
      BY <1>4, <2>1, <2>2, <3>1
    <3>2. CASE i # Len(chunk_index) + 1
      <4>1. i \in 1..Len(chunk_index)
        BY <1>2, <1>4, <3>2
      <4>2. QED
        BY <1>2, <4>1 DEF FilledInv
    <3>3. QED
      BY <3>1, <3>2
  <2>4. QED
    BY <2>3 DEF FilledInv
<1>5. QED
  BY <1>3, <1>4, EffectIndex

\* No step of the recorder makes a chunk without a message.
LEMMA FilledStep ==
  ASSUME FullInv, FilledInv, [Next]_vars
  PROVE  FilledInv'
<1>1. FullInv' /\ TypeOK /\ TypeOK'
  BY StepFull DEF FullInv
<1>2. CASE UNCHANGED chunk_index
  BY <1>2 DEF FilledInv
<1>3. CASE WriteAny
  <2>1. PICK i \in 1..Len(channels), stamp \in Stamps, len \in Lens :
          Write(channels[i].id, stamp, len)
    BY <1>3 DEF WriteAny
  <2>2. channels[i] \in Channel
    <3>1. channels \in Seq(Channel)
      BY <1>1 DEF TypeOK
    <3>2. QED
      BY <3>1
  <2>3. channels[i].id \in Nat
    BY <2>2 DEF Channel
  <2>4. PICK msgs : Effect(msgs)
    BY <1>1, <2>1, <2>3, WriteEffect
  <2>5. QED
    BY <2>4, FilledEffect
<1>4. CASE FinishBody
  <2>1. Effect(pending)
    BY <1>1, <1>4, FinishEffect
  <2>2. QED
    BY <2>1, FilledEffect
<1>5. QED
  BY <1>2, <1>3, <1>4 DEF Next, Register, AddSchema, AddChannel, Finish, Drop, vars, chunkVars

------------------------------------------------------------------------------
(* FlattenSeq *)

\* FlattenSeq joins the sequences from the first to the last.
LEMMA FlattenIs ==
  ASSUME NEW M, NEW s \in Seq(Seq(M))
  PROVE  \E f \in [0..Len(s) -> Seq(M)] :
           Joins(f, s) /\ Reader!FlattenSeq(s) = f[Len(s)]
<1>1. Reader!FlattenSeq(s) = JoinedUp(s)
  BY DEF Reader!FlattenSeq, JoinedUp
<1>2. QED
  BY <1>1, JoinsAll

LEMMA FlattenNone == Reader!FlattenSeq(<<>>) = <<>>
  BY DEF Reader!FlattenSeq

LEMMA FlattenType ==
  ASSUME NEW M, NEW s \in Seq(Seq(M))
  PROVE  Reader!FlattenSeq(s) \in Seq(M)
<1>1. Len(s) \in 0..Len(s)
  OBVIOUS
<1>2. QED
  BY <1>1, FlattenIs

\* One more sequence is put behind the others.
LEMMA FlattenNext ==
  ASSUME NEW M, NEW s \in Seq(Seq(M)), NEW t \in Seq(Seq(M)),
         Len(t) = Len(s) + 1, \A i \in 1..Len(s) : t[i] = s[i]
  PROVE  Reader!FlattenSeq(t) = Reader!FlattenSeq(s) \o t[Len(t)]
<1>1. Len(s) \in Nat /\ Len(t) \in 1..Len(t) /\ Len(t) - 1 = Len(s)
  OBVIOUS
<1>2. PICK f \in [0..Len(s) -> Seq(M)] :
             Joins(f, s) /\ Reader!FlattenSeq(s) = f[Len(s)]
  BY FlattenIs
<1>3. PICK g \in [0..Len(t) -> Seq(M)] :
             Joins(g, t) /\ Reader!FlattenSeq(t) = g[Len(t)]
  BY FlattenIs
<1>4. \A i \in 0..Len(s) : f[i] = g[i]
  <2>1. f[0] = g[0]
    BY <1>2, <1>3 DEF Joins
  <2>2. ASSUME NEW i \in 1..Len(s), f[i - 1] = g[i - 1]
        PROVE  f[i] = g[i]
    <3>1. i \in 1..Len(t) /\ t[i] = s[i]
      BY <1>1
    <3>2. QED
      BY <1>2, <1>3, <2>2, <3>1 DEF Joins
  <2>3. Agree(f, g, Len(s))
    BY <2>1, <2>2 DEF Agree
  <2>4. QED
    BY <1>1, <2>3, StepByStep, SMTT(30)
<1>5. g[Len(t)] = g[Len(s)] \o t[Len(t)]
  BY <1>1, <1>3 DEF Joins
<1>6. g[Len(s)] = f[Len(s)]
  BY <1>1, <1>4
<1>7. QED
  BY <1>2, <1>3, <1>5, <1>6

------------------------------------------------------------------------------
(* scan_v2_chunks, step by step *)

\* What a scan may find.
Found(M, E) == [ok : BOOLEAN, msgs : Seq(M), index : Seq(E)]

Leaf(ok) == [ok |-> ok, msgs |-> <<>>, index |-> <<>>]

\* A chunk found, and what the scan finds behind it.
Node(msgs, entry, rest) ==
  [ok |-> rest.ok, msgs |-> msgs \o rest.msgs, index |-> <<entry>> \o rest.index]

LEMMA NodeType ==
  ASSUME NEW M, NEW E, NEW msgs \in Seq(M), NEW entry \in E, NEW rest \in Found(M, E)
  PROVE  Node(msgs, entry, rest) \in Found(M, E)
<1>1. rest.ok \in BOOLEAN /\ rest.msgs \in Seq(M) /\ rest.index \in Seq(E)
  BY DEF Found
<1>2. msgs \o rest.msgs \in Seq(M)
  BY <1>1
<1>3. <<entry>> \in Seq(E)
  OBVIOUS
<1>4. <<entry>> \o rest.index \in Seq(E)
  BY <1>1, <1>3
<1>5. QED
  BY <1>1, <1>2, <1>4 DEF Node, Found

\* Positions, the last of them before n, and what a scan does at each.
Scannable(M, E, n, Ends, Readable, msgs, entry, next) ==
  /\ n \in Nat /\ Ends \in SUBSET Nat /\ Readable \in SUBSET Nat
  /\ msgs \in [Nat -> Seq(M)] /\ entry \in [Nat -> E] /\ next \in [Nat -> Nat]
  /\ \A p \in Nat : p \notin Ends => p < n
  /\ \A p \in Nat : p \notin Ends /\ p \in Readable => p < next[p]

Scans(M, E, Ends, Readable, msgs, entry, next, f) ==
  /\ f \in [Nat -> Found(M, E)]
  /\ \A p \in Nat :
       /\ p \in Ends => f[p] = Leaf(TRUE)
       /\ p \notin Ends /\ p \notin Readable => f[p] = Leaf(FALSE)
       /\ p \notin Ends /\ p \in Readable =>
            f[p] = Node(msgs[p], entry[p], f[next[p]])

LEMMA ScanExists ==
  ASSUME NEW M, NEW E, NEW n, NEW Ends, NEW Readable, NEW msgs, NEW entry, NEW next,
         Scannable(M, E, n, Ends, Readable, msgs, entry, next)
  PROVE  \E f : Scans(M, E, Ends, Readable, msgs, entry, next, f)
<1> USE DEF Scannable, Scans
<1> DEFINE T == Found(M, E)
           rank == [p \in Nat |-> IF p <= n THEN n - p ELSE 0]
           value(p, g) == IF p \in Ends THEN Leaf(TRUE)
                          ELSE IF p \notin Readable THEN Leaf(FALSE)
                          ELSE Node(msgs[p], entry[p], g[next[p]])
           F == [p \in Nat |-> [g \in [Nat -> T] |-> value(p, g)]]
<1>1. rank \in [Nat -> 0..n]
  OBVIOUS
<1>2. Leaf(TRUE) \in T /\ Leaf(FALSE) \in T
  BY DEF Leaf, Found
<1>3. ASSUME NEW p \in Nat, NEW g \in [Nat -> T] PROVE value(p, g) \in T
  <2>1. CASE p \in Ends \/ p \notin Readable
    BY <1>2, <2>1
  <2>2. CASE p \notin Ends /\ p \in Readable
    <3>1. msgs[p] \in Seq(M) /\ entry[p] \in E /\ next[p] \in Nat
      OBVIOUS
    <3>2. g[next[p]] \in T
      BY <3>1
    <3>3. Node(msgs[p], entry[p], g[next[p]]) \in T
      BY <3>1, <3>2, NodeType
    <3>4. QED
      BY <2>2, <3>3
  <2>3. QED
    BY <2>1, <2>2
<1>4. F \in [Nat -> [[Nat -> T] -> T]]
  <2> HIDE DEF T, value
  <2>1. QED
    BY <1>3
<1>5. \A p \in Nat, g \in [Nat -> T] : F[p][g] = value(p, g)
  OBVIOUS
<1>6. ASSUME NEW p \in Nat, NEW g \in [Nat -> T], NEW h \in [Nat -> T],
             \A e \in Nat : rank[e] < rank[p] => g[e] = h[e]
      PROVE  F[p][g] = F[p][h]
  <2>1. CASE p \in Ends \/ p \notin Readable
    <3>1. value(p, g) = value(p, h)
      BY <2>1
    <3>2. QED
      BY <1>5, <3>1
  <2>2. CASE p \notin Ends /\ p \in Readable
    <3>1. p < n /\ p < next[p] /\ next[p] \in Nat
      BY <2>2
    <3>2. rank[next[p]] < rank[p]
      <4>1. PICK q \in Nat : q = next[p]
        BY <3>1
      <4>2. rank[p] = n - p /\ rank[q] = IF q <= n THEN n - q ELSE 0
        BY <3>1
      <4>3. n \in Nat /\ p < n /\ p < q
        BY <3>1, <4>1
      <4> HIDE DEF rank
      <4>4. rank[q] < rank[p]
        BY ONLY p \in Nat, q \in Nat, <4>2, <4>3
      <4>5. QED
        BY ONLY <4>1, <4>4
    <3>3. g[next[p]] = h[next[p]]
      BY <1>6, <3>1, <3>2
    <3>4. value(p, g) = value(p, h)
      BY <3>3
    <3>5. QED
      BY <1>5, <3>4
  <2>3. QED
    BY <2>1, <2>2
<1>7. \E f \in [Nat -> T] : \A p \in Nat : f[p] = F[p][f]
  <2> HIDE DEF T, F, rank
  <2>1. PICK t \in T : t = Leaf(TRUE)
    BY <1>2
  <2>2. Descends(Nat, T, n, rank, t, F)
    BY <1>1, <1>4, <1>6 DEF Descends
  <2>3. \E f : Computes(Nat, T, F, f)
    BY <2>2, RecursionExists
  <2>4. QED
    BY <2>3 DEF Computes
<1>8. QED
  <2> HIDE DEF F, T, value
  <2>1. PICK f \in [Nat -> T] : \A p \in Nat : f[p] = F[p][f]
    BY <1>7
  <2>2. \A p \in Nat : f[p] = value(p, f)
    BY <1>5, <2>1
  <2> USE DEF T, value
  <2>3. QED
    BY <2>2

LEMMA FieldsInFile ==
  ASSUME NEW img \in Seq(Cell), NEW r, NEW p \in Nat, Reader!ChunkReadable(r, img, p)
  PROVE  /\ p + 2 <= Len(img) /\ p + 1 \in 1..Len(img) /\ p + 2 \in 1..Len(img)
         /\ img[p + 2].size \in Nat /\ img[p + 2].msg_count \in Nat
         /\ img[p + 2] \in Cell /\ img[p + 2].kind = "cfields"
<1>1. Len(img) \in Nat
  OBVIOUS
<1>2. p + 2 <= Len(img) /\ img[p + 2].kind = "cfields"
  BY DEF Reader!ChunkReadable, Reader!ChunkHeaderLen
<1>3. p + 1 \in 1..Len(img) /\ p + 2 \in 1..Len(img)
  BY <1>1, <1>2
<1>4. img[p + 2] \in Cell
  BY <1>3
<1>5. QED
  BY <1>2, <1>3, <1>4 DEF Cell

\* What the scan finds from each position on.
Unfolds(r, img, scan) ==
  /\ \A p \in Nat : Reader!ScanFrom(r, img, p) = scan[p]
  /\ \A p \in Nat : Reader!ScanEnds(img, p) => scan[p] = Leaf(TRUE)
  /\ \A p \in Nat :
       ~Reader!ScanEnds(img, p) /\ ~Reader!ChunkReadable(r, img, p)
       => scan[p] = Leaf(FALSE)
  /\ \A p \in Nat :
       ~Reader!ScanEnds(img, p) /\ Reader!ChunkReadable(r, img, p)
       => scan[p] = Node(Reader!ChunkAt(r, img, p),
                         Reader!ScannedEntry(Reader!ChunkAt(r, img, p), p),
                         scan[p + 2 + img[p + 2].size])

\* The scan from p is the chunk at p and the scan behind it.
LEMMA ScanUnfolds ==
  ASSUME NEW r, NEW img \in Seq(Cell)
  PROVE  \E scan : Unfolds(r, img, scan)
<1> DEFINE M == {Reader!Parsed(r, img[p + 2].crc[k]) : p \in Nat, k \in Nat}
           E == {Reader!ScannedEntry(Reader!ChunkAt(r, img, p), p) : p \in Nat}
           n == Len(img)
           Ends == {p \in Nat : Reader!ScanEnds(img, p)}
           Readable == {p \in Nat : Reader!ChunkReadable(r, img, p)}
           msgs == [p \in Nat |-> IF p \in Readable THEN Reader!ChunkAt(r, img, p) ELSE <<>>]
           entry == [p \in Nat |-> Reader!ScannedEntry(Reader!ChunkAt(r, img, p), p)]
           next == [p \in Nat |-> IF p \in Readable THEN p + 2 + img[p + 2].size ELSE 0]
           Body(f) == [p \in Nat |->
             IF Reader!ScanEnds(img, p) THEN [ok |-> TRUE, msgs |-> <<>>, index |-> <<>>]
             ELSE IF ~Reader!ChunkReadable(r, img, p)
             THEN [ok |-> FALSE, msgs |-> <<>>, index |-> <<>>]
             ELSE [ok |-> f[p + Reader!ChunkHeaderLen + img[p + 2].size].ok,
                   msgs |-> Reader!ChunkAt(r, img, p)
                              \o f[p + Reader!ChunkHeaderLen + img[p + 2].size].msgs,
                   index |-> <<Reader!ScannedEntry(Reader!ChunkAt(r, img, p), p)>>
                               \o f[p + Reader!ChunkHeaderLen + img[p + 2].size].index]]
           scan == CHOOSE f : f = Body(f)
<1>1. n \in Nat
  OBVIOUS
<1>2. Ends \in SUBSET Nat /\ Readable \in SUBSET Nat
  OBVIOUS
<1>3. msgs \in [Nat -> Seq(M)]
  <2>1. ASSUME NEW p \in Nat, p \in Readable PROVE Reader!ChunkAt(r, img, p) \in Seq(M)
    <3>1. Reader!ChunkReadable(r, img, p)
      BY <2>1
    <3>2. img[p + 2].msg_count \in Nat
      BY <3>1, FieldsInFile
    <3>3. Reader!ChunkAt(r, img, p) =
            [k \in 1..img[p + 2].msg_count |-> Reader!Parsed(r, img[p + 2].crc[k])]
      BY DEF Reader!ChunkAt
    <3>4. \A k \in 1..img[p + 2].msg_count : Reader!Parsed(r, img[p + 2].crc[k]) \in M
      BY <3>2
    <3> HIDE DEF M
    <3>5. QED
      BY <3>2, <3>3, <3>4
  <2>2. <<>> \in Seq(M)
    OBVIOUS
  <2> HIDE DEF M, Readable
  <2>3. QED
    BY <2>1, <2>2
<1>4. entry \in [Nat -> E]
  OBVIOUS
<1>5. next \in [Nat -> Nat] /\ \A p \in Nat : p \in Readable => p < next[p]
  <2>1. ASSUME NEW p \in Nat, p \in Readable PROVE img[p + 2].size \in Nat
    BY <2>1, FieldsInFile
  <2> HIDE DEF Readable
  <2>2. QED
    BY <2>1
<1>6. \A p \in Nat : p \notin Ends => p < n
  <2>1. ASSUME NEW p \in Nat, p \notin Ends PROVE p < Len(img)
    <3>1. ~Reader!ScanEnds(img, p)
      BY <2>1
    <3>2. ~(p + 2 > Len(img))
      BY <3>1 DEF Reader!ScanEnds, Reader!ChunkHeaderLen
    <3>3. QED
      BY <1>1, <3>2
  <2>2. QED
    BY <2>1
<1>7. PICK f : Scans(M, E, Ends, Readable, msgs, entry, next, f)
  <2> HIDE DEF M, E, n, Ends, Readable, msgs, entry, next
  <2>1. Scannable(M, E, n, Ends, Readable, msgs, entry, next)
    BY <1>1, <1>2, <1>3, <1>4, <1>5, <1>6 DEF Scannable
  <2>2. QED
    BY <2>1, ScanExists
<1>8. \A p \in Nat : f[p] = Body(f)[p]
  <2>1. SUFFICES ASSUME NEW p \in Nat PROVE f[p] = Body(f)[p]
    OBVIOUS
  <2>2. CASE Reader!ScanEnds(img, p)
    BY <1>7, <2>2 DEF Scans, Leaf
  <2>3. CASE ~Reader!ScanEnds(img, p) /\ ~Reader!ChunkReadable(r, img, p)
    BY <1>7, <2>3 DEF Scans, Leaf
  <2>4. CASE ~Reader!ScanEnds(img, p) /\ Reader!ChunkReadable(r, img, p)
    <3>1. f[p] = Node(msgs[p], entry[p], f[next[p]])
      <4>1. p \in Nat /\ p \notin Ends /\ p \in Readable
        BY <2>4
      <4> HIDE DEF M, E, n, Ends, Readable, msgs, entry, next, Body, scan
      <4>2. QED
        BY ONLY <1>7, <4>1 DEF Scans
    <3>2. /\ msgs[p] = Reader!ChunkAt(r, img, p)
          /\ entry[p] = Reader!ScannedEntry(Reader!ChunkAt(r, img, p), p)
          /\ next[p] = p + Reader!ChunkHeaderLen + img[p + 2].size
      BY <2>4 DEF Reader!ChunkHeaderLen
    <3> HIDE DEF msgs, entry, next, Ends, Readable
    <3>3. f[p] = [ok |-> f[next[p]].ok, msgs |-> msgs[p] \o f[next[p]].msgs,
                  index |-> <<entry[p]>> \o f[next[p]].index]
      BY <3>1 DEF Node
    <3>4. QED
      BY <2>4, <3>2, <3>3
  <2>5. QED
    BY <2>2, <2>3, <2>4
<1>9. f = Body(f)
  <2>1. f = [p \in Nat |-> f[p]]
    BY <1>7 DEF Scans
  <2> HIDE DEF M, E, n, Ends, Readable, msgs, entry, next
  <2>2. QED
    BY <1>8, <2>1
<1>10. scan = Body(scan)
  <2> HIDE DEF M, E, n, Ends, Readable, msgs, entry, next
  <2>1. QED
    BY <1>9, Zenon
<1>11. \A p \in Nat : Reader!ScanFrom(r, img, p) = scan[p]
  BY DEF Reader!ScanFrom
<1> HIDE DEF scan, M, E, n, Ends, Readable, msgs, entry, next
<1>12. \A p \in Nat : scan[p] = Body(scan)[p]
  BY <1>10
<1>13. \A p \in Nat : Reader!ScanEnds(img, p) => scan[p] = Leaf(TRUE)
  BY <1>12 DEF Leaf
<1>14. \A p \in Nat :
         ~Reader!ScanEnds(img, p) /\ ~Reader!ChunkReadable(r, img, p) => scan[p] = Leaf(FALSE)
  BY <1>12 DEF Leaf
<1>15. ASSUME NEW p \in Nat, ~Reader!ScanEnds(img, p), Reader!ChunkReadable(r, img, p)
       PROVE  scan[p] = Node(Reader!ChunkAt(r, img, p),
                             Reader!ScannedEntry(Reader!ChunkAt(r, img, p), p),
                             scan[p + 2 + img[p + 2].size])
  <2>1. p + Reader!ChunkHeaderLen + img[p + 2].size = p + 2 + img[p + 2].size
    BY DEF Reader!ChunkHeaderLen
  <2>2. QED
    BY <1>12, <1>15, <2>1 DEF Node
<1>16. QED
  BY <1>11, <1>13, <1>14, <1>15 DEF Unfolds

------------------------------------------------------------------------------
(* The cells of a file that was cut off *)

\* What is known of the writer's side.
FileInv == FullInv /\ ShapeInv /\ FilledInv

\* The image is the first n cells of the file.
Cut(n) == n \in 0..Len(file) /\ image = SubSeq(file, 1, n)

LEMMA CutCells ==
  ASSUME FileInv, NEW n, Cut(n)
  PROVE  /\ n \in Nat /\ Len(file) \in Nat /\ n <= Len(file)
         /\ image \in Seq(Cell) /\ Len(image) = n
         /\ \A k \in 1..n : image[k] = file[k]
         /\ file \in Seq(Cell)
<1>1. file \in Seq(Cell) /\ n \in 0..Len(file) /\ image = SubSeq(file, 1, n)
  BY DEF FileInv, FullInv, TypeOK, Cut
<1>2. Len(file) \in Nat
  BY <1>1
<1>3. image \in Seq(Cell) /\ Len(image) = n
  BY <1>1, PrefixProperties
<1>4. \A k \in 1..n : image[k] = file[k]
  BY <1>1
<1>5. QED
  BY <1>1, <1>2, <1>3, <1>4

LEMMA HeaderSeen ==
  ASSUME FileInv, NEW n, Cut(n), Reader!HeaderValid(image)
  PROVE  /\ header_written /\ parted # 0 /\ data_offset = 2
         /\ n >= 2 /\ image[1] = MagicCell /\ image[2] = file[2]
         /\ Declares(image[2])
<1>1. /\ n \in Nat /\ Len(file) \in Nat /\ n <= Len(file)
      /\ Len(image) = n /\ \A k \in 1..n : image[k] = file[k]
  BY CutCells
<1>2. n >= 2 /\ image[2].kind = "decl"
  BY <1>1 DEF Reader!HeaderValid
<1>3. image[1] = file[1] /\ image[2] = file[2] /\ Len(file) >= 2
  BY <1>1, <1>2
<1>4. HeadInv /\ BoundInv /\ PartInv /\ ChunksTile /\ parted \in Nat \cup {-1}
  BY DEF FileInv, FullInv, ShapeInv, ContentInv, AccountsInv, TypeOK
<1>5. parted # 0
  <2>1. MagicCell.kind # "decl"
    BY DEF MagicCell
  <2>2. QED
    BY <1>2, <1>3, <1>4, <2>1 DEF HeadInv
<1>6. header_written
  <2>1. CASE parted = -1
    <3>1. Len(file) = pos
      BY <1>4, <2>1 DEF PartInv
    <3>2. QED
      BY <1>3, <1>4, <3>1 DEF ChunksTile
  <2>2. CASE parted # -1
    BY <1>4, <1>5, <2>2 DEF BoundInv
  <2>3. QED
    BY <2>1, <2>2
<1>7. QED
  BY <1>2, <1>3, <1>4, <1>5, <1>6 DEF HeadInv

\* The entries of the index, one behind the other.
LEMMA EntriesFollow ==
  ASSUME FileInv, header_written, data_offset \in Nat
  PROVE  /\ Len(chunk_index) \in Nat
         /\ \A i \in 1..Len(chunk_index) :
              /\ chunk_index[i] \in ChunkIndex
              /\ chunk_index[i].offset \in Nat /\ chunk_index[i].msg_count \in Nat
              /\ chunk_index[i].msg_count >= 1
              /\ chunk_index[i].offset = EndOf(i - 1)
              /\ EndOf(i) = chunk_index[i].offset + 2 + chunk_index[i].msg_count
         /\ \A i \in 0..Len(chunk_index) : EndOf(i) \in Nat
         /\ EndOf(Len(chunk_index)) = pos
<1>1. chunk_index \in Seq(ChunkIndex) /\ FilledInv
      /\ Tiles(chunk_index, data_offset, pos, message_count)
  BY DEF FileInv, FullInv, AccountsInv, TypeOK, ChunksTile
<1>2. Len(chunk_index) \in Nat
  BY <1>1
<1>3. ASSUME NEW i \in 1..Len(chunk_index)
      PROVE  /\ chunk_index[i] \in ChunkIndex
             /\ chunk_index[i].offset \in Nat /\ chunk_index[i].msg_count \in Nat
             /\ EndOf(i) = chunk_index[i].offset + 2 + chunk_index[i].msg_count
             /\ EndOf(i) \in Nat
  <2>1. chunk_index[i] \in ChunkIndex
    BY <1>1
  <2>2. chunk_index[i].offset \in Nat /\ chunk_index[i].msg_count \in Nat
    BY <2>1 DEF ChunkIndex
  <2>3. EndOf(i) = chunk_index[i].offset + 2 + chunk_index[i].msg_count
    BY <1>2 DEF EndOf, EntryEnd, ChunkHeaderLen
  <2>4. QED
    BY <2>1, <2>2, <2>3
<1>4. ASSUME NEW i \in 1..Len(chunk_index)
      PROVE  chunk_index[i].offset = EndOf(i - 1)
  <2>1. CASE i = 1
    <3>1. chunk_index[1].offset = data_offset
      BY <1>1, <1>2 DEF Tiles
    <3>2. QED
      BY <2>1, <3>1 DEF EndOf
  <2>2. CASE i # 1
    <3>1. i - 1 \in 1..Len(chunk_index) - 1 /\ i - 1 + 1 = i /\ i - 1 # 0
      BY <1>2, <2>2
    <3>2. chunk_index[i - 1 + 1].offset = EntryEnd(chunk_index[i - 1])
      BY <1>1, <3>1 DEF Tiles
    <3>3. QED
      BY <3>1, <3>2 DEF EndOf
  <2>3. QED
    BY <2>1, <2>2
<1>5. EndOf(0) \in Nat
  BY DEF EndOf
<1>6. EndOf(Len(chunk_index)) = pos
  <2>1. CASE Len(chunk_index) = 0
    <3>1. message_count = 0 /\ pos = data_offset + ChunkHeaderLen * 0 + message_count
      BY <1>1, <2>1 DEF Tiles
    <3>2. QED
      BY <2>1, <3>1 DEF EndOf, ChunkHeaderLen
  <2>2. CASE Len(chunk_index) # 0
    BY <1>1, <1>2, <2>2 DEF Tiles, EndOf
  <2>3. QED
    BY <2>1, <2>2
<1>7. QED
  BY <1>1, <1>2, <1>3, <1>4, <1>5, <1>6 DEF FilledInv

\* Chunks 1 to k are where the index has them, and no other.
Whole(k) ==
  /\ k \in 0..Len(chunk_index)
  /\ \A i \in 1..Len(chunk_index) : Intact(i) <=> i <= k
  /\ EndOf(k) = IF parted = -1 THEN Len(file) ELSE parted

LEMMA WholePrefix ==
  ASSUME FileInv, header_written, data_offset \in Nat, parted # 0
  PROVE  \E k : Whole(k)
<1>1. /\ Len(chunk_index) \in Nat
      /\ \A i \in 1..Len(chunk_index) :
           /\ chunk_index[i].offset \in Nat /\ chunk_index[i].msg_count \in Nat
           /\ chunk_index[i].offset = EndOf(i - 1)
           /\ EndOf(i) = chunk_index[i].offset + 2 + chunk_index[i].msg_count
      /\ \A i \in 0..Len(chunk_index) : EndOf(i) \in Nat
      /\ EndOf(Len(chunk_index)) = pos
  BY EntriesFollow
<1>2. /\ PartInv /\ BoundInv /\ parted \in Nat \cup {-1} /\ pos \in Nat
      /\ chunk_index \in Seq(ChunkIndex) /\ message_count \in Nat
      /\ Tiles(chunk_index, data_offset, pos, message_count)
  BY DEF FileInv, FullInv, ShapeInv, ContentInv, AccountsInv, ChunksTile, TypeOK
<1> DEFINE K == {i \in 1..Len(chunk_index) : Intact(i)}
           k == Cardinality(K)
<1>3. CASE parted = -1
  <2>1. \A i \in 1..Len(chunk_index) : Intact(i)
    BY <1>3 DEF Intact
  <2>2. Len(file) = pos
    BY <1>2, <1>3 DEF PartInv
  <2>3. Len(chunk_index) \in 0..Len(chunk_index)
    BY <1>1
  <2>4. \A i \in 1..Len(chunk_index) : i <= Len(chunk_index)
    BY <1>1
  <2>5. Whole(Len(chunk_index))
    BY <1>1, <1>3, <2>1, <2>2, <2>3, <2>4 DEF Whole
  <2>6. QED
    BY <2>5
<1>4. CASE parted # -1
  <2>1. ASSUME NEW i \in K, NEW j \in 1..Len(chunk_index), j <= i PROVE j \in K
    <3>1. CASE j = i
      BY <3>1
    <3>2. CASE j # i
      <4>1. i \in 1..Len(chunk_index) /\ j < i /\ i \in 2..Len(chunk_index)
        BY <1>1, <2>1, <3>2
      <4>2. chunk_index[j].offset <= chunk_index[i].offset
        <5>1. EntryEnd(chunk_index[j]) <= chunk_index[i].offset
          BY <1>2, <4>1, ChunksFollow
        <5>2. chunk_index[j] \in ChunkIndex /\ chunk_index[i].offset \in Nat
          BY <1>1, <1>2, <4>1
        <5>3. /\ chunk_index[j].offset \in Nat /\ EntryEnd(chunk_index[j]) \in Nat
              /\ chunk_index[j].offset <= EntryEnd(chunk_index[j])
          BY <5>2, EntrySpan
        <5>4. QED
          BY <5>1, <5>2, <5>3
      <4>3. chunk_index[i].offset < parted
        BY <1>4, <2>1 DEF Intact
      <4>4. chunk_index[j].offset < parted
        <5>1. PICK x \in Nat, y \in Nat : x = chunk_index[j].offset /\ y = chunk_index[i].offset
          BY <1>1, <4>1
        <5>2. x <= y /\ y < parted
          BY <4>2, <4>3, <5>1
        <5>3. x < parted
          BY <1>2, <5>2
        <5>4. QED
          BY <5>1, <5>3
      <4>5. QED
        BY <4>4 DEF Intact
    <3>3. QED
      BY <3>1, <3>2
  <2>2. k \in 0..Len(chunk_index) /\ K = 1..k
    <3>1. K \in SUBSET (1..Len(chunk_index))
      OBVIOUS
    <3> HIDE DEF K
    <3>2. QED
      BY <1>1, <2>1, <3>1, PrefixSet
  <2> HIDE DEF k
  <2>3. \A i \in 1..Len(chunk_index) : Intact(i) <=> i <= k
    <3>1. \A i \in 1..Len(chunk_index) : Intact(i) <=> i \in K
      OBVIOUS
    <3>2. k \in Nat
      BY <1>1, <2>2
    <3> HIDE DEF K
    <3>3. \A i \in 1..Len(chunk_index) : i \in 1..k <=> i <= k
      BY <1>1, <3>2
    <3>4. QED
      BY <2>2, <3>1, <3>3
  <2>4. EndOf(k) <= parted
    <3>1. CASE k = 0
      BY <1>2, <1>4, <3>1 DEF BoundInv, EndOf
    <3>2. CASE k # 0
      <4>1. k \in 1..Len(chunk_index) /\ Intact(k)
        BY <1>1, <2>2, <2>3, <3>2
      <4>2. EntryEnd(chunk_index[k]) <= parted
        BY <1>2, <1>4, <4>1 DEF BoundInv
      <4>3. QED
        BY <3>2, <4>2 DEF EndOf
    <3>3. QED
      BY <3>1, <3>2
  <2>5. parted <= EndOf(k)
    <3>1. CASE k = Len(chunk_index)
      BY <1>1, <1>2, <1>4, <3>1 DEF PartInv
    <3>2. CASE k # Len(chunk_index)
      <4>1. k + 1 \in 1..Len(chunk_index) /\ ~Intact(k + 1) /\ k + 1 - 1 = k
        BY <1>1, <2>2, <2>3, <3>2
      <4>2. ~(chunk_index[k + 1].offset < parted)
        BY <1>4, <4>1 DEF Intact
      <4>3. chunk_index[k + 1].offset = EndOf(k)
        <5>1. PICK i \in 1..Len(chunk_index) : i = k + 1 /\ i - 1 = k
          BY <1>1, <2>2, <4>1
        <5>2. chunk_index[i].offset = EndOf(i - 1)
          BY <1>1
        <5>3. QED
          BY <5>1, <5>2
      <4>4. EndOf(k) \in Nat
        BY <1>1, <2>2
      <4>5. QED
        BY <1>2, <4>2, <4>3, <4>4
    <3>3. QED
      BY <3>1, <3>2
  <2>6. EndOf(k) = parted
    BY <1>1, <1>2, <2>2, <2>4, <2>5
  <2>7. QED
    BY <1>4, <2>2, <2>3, <2>6 DEF Whole
<1>5. QED
  BY <1>3, <1>4

------------------------------------------------------------------------------
(* A chunk as a reader sees it *)

LEMMA SameCells ==
  /\ Reader!ChunkMagicCell = ChunkMagicCell /\ Reader!MagicCell = MagicCell
  /\ Reader!LinearMagicCell = LinearMagicCell
  /\ Reader!ChunkHeaderLen = 2 /\ ChunkHeaderLen = 2
  /\ \A m : Reader!BodyCell(m) = BodyCell(m)
  BY DEF Reader!ChunkMagicCell, ChunkMagicCell, Reader!MagicCell, MagicCell,
     Reader!LinearMagicCell, LinearMagicCell, Reader!ChunkHeaderLen, ChunkHeaderLen,
     Reader!BodyCell, BodyCell

\* The cells of a chunk that is where the index has it.
InFile(e, ms, begin) ==
  /\ e \in ChunkIndex /\ e.offset \in Nat /\ e.msg_count \in Nat
  /\ e.msg_count >= 1 /\ EntryEnd(e) = e.offset + 2 + e.msg_count
  /\ EntryEnd(e) <= Len(file)
  /\ ms \in Seq(Message) /\ Len(ms) = e.msg_count
  /\ file[e.offset + 1] = ChunkMagicCell
  /\ file[e.offset + 2] = FieldsCell(ms, begin)
  /\ \A k \in 1..e.msg_count : file[e.offset + 2 + k] = BodyCell(ms[k])
  /\ e.start_stamp = ms[1].stamp /\ e.end_stamp = ms[e.msg_count].stamp

LEMMA ChunkInFile ==
  ASSUME FileInv, NEW i \in 1..Len(chunk_index), Intact(i)
  PROVE  InFile(chunk_index[i], MsgsAt(file, chunk_index[i]), Begin(i))
<1>0. PICK e, ms : e = chunk_index[i] /\ ms = MsgsAt(file, e)
  OBVIOUS
<1>1. /\ chunk_index \in Seq(ChunkIndex) /\ FilledInv /\ file \in Seq(Cell)
      /\ ChunksInv
  BY DEF FileInv, FullInv, ContentInv, TypeOK
<1>2. /\ e \in ChunkIndex /\ e.msg_count >= 1
  BY <1>0, <1>1 DEF FilledInv
<1>3. /\ e.offset \in Nat /\ e.msg_count \in Nat
      /\ EntryEnd(e) = e.offset + 2 + e.msg_count
  BY <1>2, EntryFields
<1>4. Sound(file, e, Begin(i))
  BY <1>0, <1>1 DEF ChunksInv
<1>5. /\ EntryEnd(e) <= Len(file)
      /\ \A k \in 1..e.msg_count : file[e.offset + 2 + k].kind = "body"
      /\ \A j \in 1..2 + e.msg_count : file[e.offset + j] = ChunkCells(ms, Begin(i))[j]
      /\ e.start_stamp = ms[1].stamp /\ e.end_stamp = ms[e.msg_count].stamp
  BY <1>0, <1>4, SameCells DEF Sound, Located
<1>6. ms \in Seq(Message) /\ Len(ms) = e.msg_count
  <2>1. ASSUME NEW k \in 1..e.msg_count PROVE file[e.offset + 2 + k].msg \in Message
    <3>1. e.offset + 2 + k \in 1..Len(file)
      BY <1>1, <1>3, <1>5
    <3>2. file[e.offset + 2 + k] \in Cell
      BY <1>1, <3>1
    <3>3. file[e.offset + 2 + k].kind = "body"
      BY <1>5
    <3>4. QED
      BY <3>2, <3>3 DEF Cell
  <2>2. ms = [k \in 1..e.msg_count |-> file[e.offset + 2 + k].msg]
    BY <1>0, SameCells DEF MsgsAt
  <2>3. QED
    BY <1>3, <2>1, <2>2, SMTT(30)
<1>7. \A j \in 1..2 + e.msg_count :
        ChunkCells(ms, Begin(i))[j] =
          IF j = 1 THEN ChunkMagicCell
          ELSE IF j = 2 THEN FieldsCell(ms, Begin(i)) ELSE BodyCell(ms[j - 2])
  BY <1>6 DEF ChunkCells, ChunkHeaderLen
<1>8. 1 \in 1..2 + e.msg_count /\ 2 \in 1..2 + e.msg_count
  BY <1>3
<1>9. ASSUME NEW k \in 1..e.msg_count
      PROVE  file[e.offset + 2 + k] = BodyCell(ms[k])
  <2>1. /\ 2 + k \in 1..2 + e.msg_count /\ e.offset + 2 + k = e.offset + (2 + k)
        /\ 2 + k # 1 /\ 2 + k # 2 /\ 2 + k - 2 = k
    BY <1>3, SMTT(30)
  <2>2. QED
    BY <1>5, <1>7, <2>1
<1>10. QED
  BY <1>0, <1>2, <1>3, <1>5, <1>6, <1>7, <1>8, <1>9 DEF InFile

\* What a reader makes of the chunk of an entry with these messages.
SeenAs(r, e, ms) ==
  /\ ~Reader!ScanEnds(image, e.offset)
  /\ image[e.offset + 2].size = e.msg_count
  /\ Reader!ChunkReadable(r, image, e.offset)
       <=> \A k \in 1..e.msg_count : Reader!KnownRecord(r, ms[k])
  /\ Reader!ChunkAt(r, image, e.offset) =
       [k \in 1..e.msg_count |-> Reader!Parsed(r, ms[k])]
  /\ Reader!ScannedEntry(Reader!ChunkAt(r, image, e.offset), e.offset) = e

\* A chunk the image holds completely.
LEMMA ChunkSeen ==
  ASSUME FileInv, NEW n, Cut(n), NEW r,
         NEW i \in 1..Len(chunk_index), Intact(i), EntryEnd(chunk_index[i]) <= n
  PROVE  SeenAs(r, chunk_index[i], MsgsAt(file, chunk_index[i]))
<1>0. PICK e, ms : e = chunk_index[i] /\ ms = MsgsAt(file, e)
  OBVIOUS
<1> DEFINE o == e.offset
           c == e.msg_count
<1>1. /\ e \in ChunkIndex /\ o \in Nat /\ c \in Nat /\ c >= 1
      /\ EntryEnd(e) = o + 2 + c
      /\ ms \in Seq(Message) /\ Len(ms) = c
      /\ file[o + 1] = ChunkMagicCell
      /\ file[o + 2] = FieldsCell(ms, Begin(i))
      /\ \A k \in 1..c : file[o + 2 + k] = BodyCell(ms[k])
      /\ e.start_stamp = ms[1].stamp /\ e.end_stamp = ms[c].stamp
  BY <1>0, ChunkInFile DEF InFile
<1>2. n \in Nat /\ Len(image) = n /\ \A k \in 1..n : image[k] = file[k]
  BY CutCells
<1> HIDE DEF o, c
<1>3. o + 2 + c <= n
  BY <1>0, <1>1
<1>4. /\ o + 1 \in 1..n /\ o + 2 \in 1..n /\ \A k \in 1..c : o + 2 + k \in 1..n
      /\ o + 2 <= n
  BY <1>1, <1>2, <1>3, SMTT(30)
<1>5. /\ image[o + 1] = ChunkMagicCell /\ image[o + 2] = FieldsCell(ms, Begin(i))
      /\ \A k \in 1..c : image[o + 2 + k] = BodyCell(ms[k])
  BY <1>1, <1>2, <1>4
<1>6. /\ image[o + 2].kind = "cfields" /\ image[o + 2].size = c
      /\ image[o + 2].msg_count = c /\ image[o + 2].crc = ms
  BY <1>1, <1>5 DEF FieldsCell
<1>7. ~Reader!ScanEnds(image, o)
  <2>1. ~(o + 2 > Len(image))
    BY <1>1, <1>2, <1>4
  <2>2. QED
    BY <1>5, <2>1, SameCells DEF Reader!ScanEnds
<1>8. Reader!ChunkReadable(r, image, o)
        <=> \A k \in 1..c : Reader!KnownRecord(r, ms[k])
  BY <1>2, <1>3, <1>4, <1>5, <1>6, SameCells DEF Reader!ChunkReadable
<1>9. Reader!ChunkAt(r, image, o) = [k \in 1..c |-> Reader!Parsed(r, ms[k])]
  BY <1>6 DEF Reader!ChunkAt
<1>10. Reader!ScannedEntry(Reader!ChunkAt(r, image, o), o) = e
  <2> DEFINE x == Reader!ChunkAt(r, image, o)
  <2>1. Len(x) = c /\ 1 \in 1..c /\ c \in 1..c
    BY <1>1, <1>9
  <2>2. x[1] = Reader!Parsed(r, ms[1]) /\ x[c] = Reader!Parsed(r, ms[c])
    BY <1>9, <2>1
  <2>3. x[1].stamp = e.start_stamp /\ x[c].stamp = e.end_stamp
    <3>1. \A m : Reader!Parsed(r, m).stamp = m.stamp
      BY DEF Reader!Parsed
    <3> HIDE DEF x
    <3>2. QED
      BY <1>1, <2>2, <3>1
  <2> HIDE DEF x
  <2>4. Reader!ScannedEntry(x, o) = [offset |-> o, start_stamp |-> e.start_stamp,
                                     end_stamp |-> e.end_stamp, msg_count |-> c]
    BY <2>1, <2>3 DEF Reader!ScannedEntry
  <2>5. e = [offset |-> e.offset, start_stamp |-> e.start_stamp,
             end_stamp |-> e.end_stamp, msg_count |-> e.msg_count]
    BY <1>1 DEF ChunkIndex
  <2>6. QED
    BY <2>4, <2>5 DEF x, o, c
<1>11. QED
  BY <1>0, <1>6, <1>7, <1>8, <1>9, <1>10 DEF o, c, SeenAs

\* A chunk the image breaks off in.
LEMMA ChunkCut ==
  ASSUME FileInv, NEW n, Cut(n), NEW r,
         NEW i \in 1..Len(chunk_index), Intact(i), ~(EntryEnd(chunk_index[i]) <= n),
         NEW e, e = chunk_index[i]
  PROVE  /\ ~Reader!ChunkReadable(r, image, e.offset)
         /\ Reader!ScanEnds(image, e.offset) <=> e.offset + 2 > n
<1> DEFINE o == e.offset
           c == e.msg_count
           ms == MsgsAt(file, e)
<1>1. /\ o \in Nat /\ c \in Nat /\ c >= 1
      /\ EntryEnd(e) = o + 2 + c
      /\ Len(ms) = c
      /\ file[o + 1] = ChunkMagicCell
      /\ file[o + 2] = FieldsCell(ms, Begin(i))
  BY ChunkInFile DEF InFile
<1>2. n \in Nat /\ Len(image) = n /\ \A k \in 1..n : image[k] = file[k]
  BY CutCells
<1> HIDE DEF o, c, ms
<1>3. ~(o + 2 + c <= n)
  BY <1>1
<1>4. CASE o + 2 <= n
  <2>1. o + 1 \in 1..n /\ o + 2 \in 1..n /\ ~(o + 2 > n)
    BY <1>1, <1>2, <1>4
  <2>2. image[o + 1] = ChunkMagicCell /\ image[o + 2] = FieldsCell(ms, Begin(i))
    BY <1>1, <1>2, <2>1
  <2>3. image[o + 2].size = c
    BY <1>1, <2>2 DEF FieldsCell
  <2>4. ~Reader!ChunkReadable(r, image, o)
    BY <1>2, <1>3, <2>3, SameCells DEF Reader!ChunkReadable
  <2>5. ~Reader!ScanEnds(image, o)
    BY <1>2, <2>1, <2>2, SameCells DEF Reader!ScanEnds
  <2>6. QED
    BY <2>1, <2>4, <2>5 DEF o
<1>5. CASE ~(o + 2 <= n)
  <2>1. o + 2 > n
    BY <1>1, <1>2, <1>5
  <2>2. ~Reader!ChunkReadable(r, image, o)
    BY <1>2, <1>5, SameCells DEF Reader!ChunkReadable
  <2>3. Reader!ScanEnds(image, o)
    BY <1>2, <2>1, SameCells DEF Reader!ScanEnds
  <2>4. QED
    BY <2>1, <2>2, <2>3 DEF o
<1>6. QED
  BY <1>4, <1>5

\* Behind the chunks of the index no chunk is found.
LEMMA StopsThere ==
  ASSUME FileInv, NEW n, Cut(n), NEW r, NEW k, Whole(k), header_written,
         data_offset \in Nat, parted # 0
  PROVE  /\ ~Reader!ChunkReadable(r, image, EndOf(k))
         /\ parted = -1 => Reader!ScanEnds(image, EndOf(k))
<1>1. /\ n \in Nat /\ Len(file) \in Nat /\ n <= Len(file)
      /\ Len(image) = n /\ \A j \in 1..n : image[j] = file[j]
  BY CutCells
<1>2. CASE parted = -1
  <2>1. EndOf(k) = Len(file)
    BY <1>2 DEF Whole
  <2>2. Len(file) + 2 > n /\ ~(Len(file) + 2 <= n)
    BY <1>1
  <2>3. Reader!ScanEnds(image, Len(file)) /\ ~Reader!ChunkReadable(r, image, Len(file))
    BY <1>1, <2>2, SameCells DEF Reader!ScanEnds, Reader!ChunkReadable
  <2>4. QED
    BY <2>1, <2>3
<1>3. CASE parted # -1
  <2>1. EndOf(k) = parted
    BY <1>3 DEF Whole
  <2>2. parted \in Nat /\ parted > 0 /\ file \in Seq(Cell)
    <3>1. parted \in Nat \cup {-1} /\ file \in Seq(Cell)
      BY DEF FileInv, FullInv, TypeOK
    <3>2. QED
      BY <1>3, <3>1
  <2>3. Broken(file, parted) \/ Torn(file, parted)
    BY <2>2 DEF FileInv, ShapeInv, StuckInv
  <2>4. SUFFICES ASSUME Reader!ChunkReadable(r, image, parted) PROVE FALSE
    BY <1>3, <2>1
  <2>5. /\ parted + 2 <= n /\ image[parted + 1] = ChunkMagicCell
        /\ image[parted + 2].kind = "cfields"
        /\ parted + 2 + image[parted + 2].size <= n
        /\ \A j \in 1..image[parted + 2].size :
             image[parted + 2 + j] = BodyCell(image[parted + 2].crc[j])
    BY <1>1, <2>4, SameCells DEF Reader!ChunkReadable
  <2>6. parted + 1 \in 1..n /\ parted + 2 \in 1..n
    BY <1>1, <2>2, <2>5
  <2>7. /\ file[parted + 1] = ChunkMagicCell /\ file[parted + 2] = image[parted + 2]
        /\ parted + 2 \in 1..Len(file)
    BY <1>1, <2>5, <2>6
  <2>8. PICK f : f = file[parted + 2]
    OBVIOUS
  <2>9. f.size \in Nat
    <3>1. f \in Cell
      BY <2>2, <2>7, <2>8
    <3>2. QED
      BY <2>5, <2>7, <2>8, <3>1 DEF Cell
  <2>10. ASSUME NEW j \in 1..f.size PROVE file[parted + 2 + j] = BodyCell(f.crc[j])
    <3>1. parted + 2 + j \in 1..n
      <4>1. parted + 2 + f.size <= n
        BY <2>5, <2>7, <2>8
      <4>2. QED
        BY <1>1, <2>2, <2>9, <4>1
    <3>2. QED
      BY <1>1, <2>5, <2>7, <2>8, <3>1
  <2>11. ~Broken(file, parted)
    BY <2>5, <2>7, <2>8, <2>10 DEF Broken
  <2>12. ~Torn(file, parted)
    <3>1. parted + 2 <= Len(file) /\ parted + 2 + f.size <= Len(file)
      BY <1>1, <2>2, <2>5, <2>7, <2>8, <2>9
    <3>2. Len(file) # parted + 1 /\ ~(Len(file) < parted + 2 + f.size)
      BY <1>1, <2>2, <2>9, <3>1
    <3>3. QED
      BY <2>8, <3>2 DEF Torn
  <2>13. QED
    BY <2>3, <2>11, <2>12
<1>4. QED
  BY <1>2, <1>3

------------------------------------------------------------------------------
(* The chunks a scan finds *)

\* A reader looks at the first n cells of a file whose header is whole.
Seen(n) ==
  FileInv /\ Cut(n) /\ header_written /\ data_offset = 2 /\ parted # 0

ReadableBy(r, i) == Reader!ChunkReadable(r, image, chunk_index[i].offset)

\* The chunks up to k can be read, and the next one cannot.
ScannedBy(r, k) ==
  /\ k \in 0..Len(chunk_index)
  /\ \A i \in 1..k : ReadableBy(r, i)
  /\ k < Len(chunk_index) => ~ReadableBy(r, k + 1)

ChunkBy(r, i) == Reader!ChunkAt(r, image, chunk_index[i].offset)

ReadBy(r, k) == Reader!FlattenSeq([i \in 1..k |-> ChunkBy(r, i)])

ParsedBy(r) == {Reader!Parsed(r, m) : m \in Message}

\* The entries of the index, for a reader of the file.
LEMMA SeenEntries ==
  ASSUME NEW n, Seen(n)
  PROVE  /\ Len(chunk_index) \in Nat
         /\ \A i \in 1..Len(chunk_index) :
              /\ chunk_index[i] \in ChunkIndex
              /\ chunk_index[i].offset \in Nat /\ chunk_index[i].msg_count \in Nat
              /\ chunk_index[i].msg_count >= 1
              /\ chunk_index[i].offset = EndOf(i - 1)
              /\ EndOf(i) = chunk_index[i].offset + 2 + chunk_index[i].msg_count
         /\ \A i \in 0..Len(chunk_index) : EndOf(i) \in Nat
         /\ EndOf(Len(chunk_index)) = pos
<1>1. FileInv /\ header_written /\ data_offset \in Nat
  BY DEF Seen
<1>2. QED
  BY <1>1, EntriesFollow

\* What can be read is complete and where the index has it.
LEMMA ReadableIntact ==
  ASSUME NEW n, Seen(n), NEW r, NEW w, Whole(w), NEW k \in 0..Len(chunk_index),
         \A i \in 1..k : ReadableBy(r, i)
  PROVE  /\ k <= w
         /\ \A i \in 1..k : /\ i \in 1..Len(chunk_index)
                            /\ Intact(i) /\ EntryEnd(chunk_index[i]) <= n
<1>1. Len(chunk_index) \in Nat /\ w \in 0..Len(chunk_index)
  BY SeenEntries DEF Whole
<1>2. k <= w
  <2>1. SUFFICES ASSUME ~(k <= w) PROVE FALSE
    OBVIOUS
  <2>2. PICK i \in 1..Len(chunk_index) : i = w + 1 /\ i - 1 = w /\ i \in 1..k
    BY <1>1, <2>1
  <2>3. chunk_index[i].offset = EndOf(w)
    <3>1. chunk_index[i].offset = EndOf(i - 1)
      BY <2>2, SeenEntries
    <3>2. QED
      BY <2>2, <3>1
  <2>4. ~Reader!ChunkReadable(r, image, EndOf(w))
    <3>1. FileInv /\ Cut(n) /\ header_written /\ data_offset \in Nat /\ parted # 0
      BY DEF Seen
    <3>2. QED
      BY <3>1, StopsThere
  <2>5. QED
    BY <2>2, <2>3, <2>4 DEF ReadableBy
<1>3. ASSUME NEW i \in 1..k
      PROVE  i \in 1..Len(chunk_index) /\ Intact(i) /\ EntryEnd(chunk_index[i]) <= n
  <2>1. i \in 1..Len(chunk_index) /\ i <= w
    BY <1>1, <1>2
  <2>2. Intact(i)
    BY <2>1 DEF Whole
  <2>3. Reader!ChunkReadable(r, image, chunk_index[i].offset)
    BY DEF ReadableBy
  <2>4. EntryEnd(chunk_index[i]) <= n
    <3>1. FileInv /\ Cut(n)
      BY DEF Seen
    <3>2. QED
      BY <2>1, <2>2, <2>3, <3>1, ChunkCut
  <2>5. QED
    BY <2>1, <2>2, <2>4
<1>4. QED
  BY <1>2, <1>3

LEMMA ChunkByType ==
  ASSUME NEW n, Seen(n), NEW r, NEW i \in 1..Len(chunk_index), Intact(i),
         EntryEnd(chunk_index[i]) <= n
  PROVE  /\ ChunkBy(r, i) \in Seq(ParsedBy(r))
         /\ Len(ChunkBy(r, i)) = chunk_index[i].msg_count
         /\ ChunkBy(r, i) = [k \in 1..chunk_index[i].msg_count |->
                               Reader!Parsed(r, MsgsAt(file, chunk_index[i])[k])]
<1> DEFINE e == chunk_index[i]
           ms == MsgsAt(file, e)
<1>1. FileInv /\ Cut(n)
  BY DEF Seen
<1>2. ChunkBy(r, i) = [k \in 1..e.msg_count |-> Reader!Parsed(r, ms[k])]
  BY <1>1, ChunkSeen, ZenonT(30) DEF ChunkBy, SeenAs
<1>3. ms \in Seq(Message) /\ Len(ms) = e.msg_count /\ e.msg_count \in Nat
  BY <1>1, ChunkInFile DEF InFile
<1> HIDE DEF e, ms
<1>4. \A k \in 1..e.msg_count : Reader!Parsed(r, ms[k]) \in ParsedBy(r)
  <2>1. \A k \in 1..e.msg_count : ms[k] \in Message
    BY <1>3
  <2>2. QED
    BY <2>1 DEF ParsedBy
<1>5. QED
  BY <1>2, <1>3, <1>4 DEF e, ms

LEMMA ReadByNext ==
  ASSUME NEW n, Seen(n), NEW r, NEW w, Whole(w), NEW k \in 0..Len(chunk_index),
         \A i \in 1..k : ReadableBy(r, i)
  PROVE  /\ ReadBy(r, 0) = <<>>
         /\ \A j \in 0..k : ReadBy(r, j) \in Seq(ParsedBy(r))
         /\ \A j \in 1..k : ReadBy(r, j) = ReadBy(r, j - 1) \o ChunkBy(r, j)
<1>1. k \in Nat
  BY SeenEntries
<1>2. \A i \in 1..k : ChunkBy(r, i) \in Seq(ParsedBy(r))
  <2>1. \A i \in 1..k : /\ i \in 1..Len(chunk_index)
                        /\ Intact(i) /\ EntryEnd(chunk_index[i]) <= n
    BY ReadableIntact
  <2>2. QED
    BY <2>1, ChunkByType
<1> DEFINE part(j) == [i \in 1..j |-> ChunkBy(r, i)]
<1>3. ASSUME NEW j \in 0..k
      PROVE  part(j) \in Seq(Seq(ParsedBy(r))) /\ Len(part(j)) = j
  <2>1. j \in Nat /\ \A i \in 1..j : ChunkBy(r, i) \in Seq(ParsedBy(r))
    BY <1>1, <1>2
  <2>2. QED
    BY <2>1
<1>4. ReadBy(r, 0) = <<>>
  <2>1. part(0) = <<>>
    OBVIOUS
  <2>2. QED
    BY <2>1, FlattenNone DEF ReadBy
<1>5. ASSUME NEW j \in 0..k PROVE ReadBy(r, j) \in Seq(ParsedBy(r))
  BY <1>3, FlattenType DEF ReadBy
<1>6. ASSUME NEW j \in 1..k
      PROVE  ReadBy(r, j) = ReadBy(r, j - 1) \o ChunkBy(r, j)
  <2>1. j - 1 \in 0..k /\ j \in 0..k
    BY <1>1
  <2> DEFINE s == part(j - 1)
             t == part(j)
  <2>2. s \in Seq(Seq(ParsedBy(r))) /\ Len(s) = j - 1
    BY <1>3, <2>1
  <2>3. t \in Seq(Seq(ParsedBy(r))) /\ Len(t) = j
    BY <1>3, <2>1
  <2>4. \A i \in 1..j - 1 : t[i] = s[i]
    BY <1>1
  <2>5. t[j] = ChunkBy(r, j)
    BY <1>1
  <2>6. ReadBy(r, j) = Reader!FlattenSeq(t) /\ ReadBy(r, j - 1) = Reader!FlattenSeq(s)
    BY DEF ReadBy
  <2> HIDE DEF part, s, t
  <2>7. Len(t) = Len(s) + 1 /\ \A i \in 1..Len(s) : t[i] = s[i]
    BY <1>1, <2>2, <2>3, <2>4
  <2>8. Reader!FlattenSeq(t) = Reader!FlattenSeq(s) \o t[Len(t)]
    BY <2>2, <2>3, <2>7, FlattenNext
  <2>9. QED
    BY <2>3, <2>5, <2>6, <2>8
<1>7. QED
  BY <1>4, <1>5, <1>6

\* What the scan finds from the end of chunk j on.
Reaches(r, k, scan, j) ==
  \E t \in Seq(ParsedBy(r)), u \in Seq(ChunkIndex) :
    /\ scan[EndOf(j)] =
         [ok |-> Reader!ScanEnds(image, EndOf(k)), msgs |-> t, index |-> u]
    /\ ReadBy(r, j) \o t = ReadBy(r, k)
    /\ SubSeq(chunk_index, 1, j) \o u = SubSeq(chunk_index, 1, k)

LEMMA PrefixNext ==
  ASSUME NEW S, NEW s \in Seq(S), NEW j \in 1..Len(s)
  PROVE  SubSeq(s, 1, j) = SubSeq(s, 1, j - 1) \o <<s[j]>>
  OBVIOUS

LEMMA JoinThree ==
  ASSUME NEW S, NEW s \in Seq(S), NEW t \in Seq(S), NEW u \in Seq(S)
  PROVE  s \o (t \o u) = (s \o t) \o u /\ t \o u \in Seq(S)
  OBVIOUS

\* The scan finds the chunks in front of the first that cannot be read.
LEMMA ScanFinds ==
  ASSUME NEW n, Seen(n), NEW r, NEW w, Whole(w), NEW k, ScannedBy(r, k)
  PROVE  Reader!ScanFrom(r, image, 2) =
           [ok |-> Reader!ScanEnds(image, EndOf(k)), msgs |-> ReadBy(r, k),
            index |-> SubSeq(chunk_index, 1, k)]
<1>1. /\ k \in 0..Len(chunk_index) /\ Len(chunk_index) \in Nat /\ k \in Nat
      /\ chunk_index \in Seq(ChunkIndex)
  BY SeenEntries DEF ScannedBy, Seen, FileInv, FullInv, TypeOK
<1>2. image \in Seq(Cell)
  BY CutCells DEF Seen
<1>3. /\ \A i \in 0..k : EndOf(i) \in Nat
      /\ \A i \in 1..k : /\ chunk_index[i] \in ChunkIndex
                         /\ chunk_index[i].offset = EndOf(i - 1)
                         /\ EndOf(i) = chunk_index[i].offset + 2 + chunk_index[i].msg_count
  BY <1>1, SeenEntries
<1>4. /\ ReadBy(r, 0) = <<>>
      /\ \A j \in 0..k : ReadBy(r, j) \in Seq(ParsedBy(r))
      /\ \A j \in 1..k : ReadBy(r, j) = ReadBy(r, j - 1) \o ChunkBy(r, j)
  BY <1>1, ReadByNext DEF ScannedBy
<1>5. \A i \in 1..k : /\ i \in 1..Len(chunk_index)
                      /\ Intact(i) /\ EntryEnd(chunk_index[i]) <= n
  BY <1>1, ReadableIntact DEF ScannedBy
<1>6. PICK scan : Unfolds(r, image, scan)
  BY <1>2, ScanUnfolds
<1>7. ~Reader!ChunkReadable(r, image, EndOf(k))
  <2>1. CASE k < Len(chunk_index)
    <3>1. PICK i \in 1..Len(chunk_index) : i = k + 1 /\ i - 1 = k
      BY <1>1, <2>1
    <3>2. chunk_index[i].offset = EndOf(i - 1)
      BY <3>1, SeenEntries
    <3>3. ~ReadableBy(r, i)
      BY <2>1, <3>1 DEF ScannedBy
    <3>4. QED
      BY <3>1, <3>2, <3>3 DEF ReadableBy
  <2>2. CASE ~(k < Len(chunk_index))
    <3>1. k <= w /\ w \in 0..Len(chunk_index)
      BY <1>1, ReadableIntact DEF ScannedBy, Whole
    <3>2. w = k
      BY <1>1, <2>2, <3>1
    <3>3. FileInv /\ Cut(n) /\ header_written /\ data_offset \in Nat /\ parted # 0
      BY DEF Seen
    <3>4. QED
      BY <3>2, <3>3, StopsThere
  <2>3. QED
    BY <2>1, <2>2
<1>8. Reaches(r, k, scan, k)
  <2>1. EndOf(k) \in Nat
    BY <1>1, <1>3
  <2>2. scan[EndOf(k)] = [ok |-> Reader!ScanEnds(image, EndOf(k)), msgs |-> <<>>, index |-> <<>>]
    <3>1. CASE Reader!ScanEnds(image, EndOf(k))
      BY <1>6, <2>1, <3>1 DEF Unfolds, Leaf
    <3>2. CASE ~Reader!ScanEnds(image, EndOf(k))
      <4>1. scan[EndOf(k)] = Leaf(FALSE)
        BY <1>6, <1>7, <2>1, <3>2 DEF Unfolds
      <4>2. Reader!ScanEnds(image, EndOf(k)) = FALSE
        BY <3>2 DEF Reader!ScanEnds
      <4>3. QED
        BY <4>1, <4>2 DEF Leaf
    <3>3. QED
      BY <3>1, <3>2
  <2>3. ReadBy(r, k) \in Seq(ParsedBy(r)) /\ SubSeq(chunk_index, 1, k) \in Seq(ChunkIndex)
    BY <1>1, <1>4, PrefixProperties
  <2>4. /\ ReadBy(r, k) \o <<>> = ReadBy(r, k)
        /\ SubSeq(chunk_index, 1, k) \o <<>> = SubSeq(chunk_index, 1, k)
    BY <2>3
  <2>5. <<>> \in Seq(ParsedBy(r)) /\ <<>> \in Seq(ChunkIndex)
    OBVIOUS
  <2>6. QED
    BY <2>2, <2>4, <2>5 DEF Reaches
<1>9. ASSUME NEW j \in 1..k, Reaches(r, k, scan, j)
      PROVE  Reaches(r, k, scan, j - 1)
  <2>1. PICK t \in Seq(ParsedBy(r)), u \in Seq(ChunkIndex) :
    /\ scan[EndOf(j)] =
         [ok |-> Reader!ScanEnds(image, EndOf(k)), msgs |-> t, index |-> u]
    /\ ReadBy(r, j) \o t = ReadBy(r, k)
    /\ SubSeq(chunk_index, 1, j) \o u = SubSeq(chunk_index, 1, k)
    BY <1>9 DEF Reaches
  <2>2. /\ j \in 1..Len(chunk_index) /\ Intact(j) /\ EntryEnd(chunk_index[j]) <= n
        /\ j - 1 \in 0..k /\ chunk_index[j] \in ChunkIndex
        /\ j - 1 \in 0..Len(chunk_index)
    BY <1>1, <1>3, <1>5
  <2>3. PICK p \in Nat : p = EndOf(j - 1) /\ p = chunk_index[j].offset
    BY <1>3, <2>2
  <2>4. /\ ~Reader!ScanEnds(image, p)
        /\ image[p + 2].size = chunk_index[j].msg_count
        /\ Reader!ScannedEntry(Reader!ChunkAt(r, image, p), p) = chunk_index[j]
    <3>1. FileInv /\ Cut(n)
      BY DEF Seen
    <3>2. SeenAs(r, chunk_index[j], MsgsAt(file, chunk_index[j]))
      BY <2>2, <3>1, ChunkSeen
    <3>3. QED
      BY <2>3, <3>2 DEF SeenAs
  <2>5. Reader!ChunkReadable(r, image, p)
    BY <2>3 DEF ScannedBy, ReadableBy
  <2>6. p + 2 + image[p + 2].size = EndOf(j)
    BY <1>3, <2>3, <2>4
  <2>7. scan[p] = Node(ChunkBy(r, j), chunk_index[j], scan[EndOf(j)])
    BY <1>6, <2>3, <2>4, <2>5, <2>6 DEF ChunkBy, Unfolds
  <2>8. scan[p] = [ok |-> Reader!ScanEnds(image, EndOf(k)),
                   msgs |-> ChunkBy(r, j) \o t, index |-> <<chunk_index[j]>> \o u]
    BY <2>1, <2>7 DEF Node
  <2>9. ChunkBy(r, j) \in Seq(ParsedBy(r)) /\ ReadBy(r, j - 1) \in Seq(ParsedBy(r))
    BY <1>4, <2>2, ChunkByType
  <2>10. /\ ReadBy(r, j - 1) \o (ChunkBy(r, j) \o t) = ReadBy(r, k)
         /\ ChunkBy(r, j) \o t \in Seq(ParsedBy(r))
    <3>2. PICK a, b : a = ReadBy(r, j - 1) /\ b = ChunkBy(r, j)
      OBVIOUS
    <3>3. a \in Seq(ParsedBy(r)) /\ b \in Seq(ParsedBy(r))
      BY <2>9, <3>2
    <3>4. a \o (b \o t) = (a \o b) \o t /\ b \o t \in Seq(ParsedBy(r))
      BY <3>3, JoinThree, SMTT(30)
    <3>5. a \o b = ReadBy(r, j)
      BY <1>4, <3>2
    <3>6. QED
      BY <2>1, <3>2, <3>4, <3>5
  <2>11. <<chunk_index[j]>> \in Seq(ChunkIndex) /\ SubSeq(chunk_index, 1, j - 1) \in Seq(ChunkIndex)
    BY <1>1, <2>2, PrefixProperties
  <2>12. SubSeq(chunk_index, 1, j) = SubSeq(chunk_index, 1, j - 1) \o <<chunk_index[j]>>
    BY <1>1, <2>2, PrefixNext
  <2>13. /\ SubSeq(chunk_index, 1, j - 1) \o (<<chunk_index[j]>> \o u) = SubSeq(chunk_index, 1, k)
         /\ <<chunk_index[j]>> \o u \in Seq(ChunkIndex)
    <3>1. PICK a, b : a = SubSeq(chunk_index, 1, j - 1) /\ b = <<chunk_index[j]>>
      OBVIOUS
    <3>2. a \in Seq(ChunkIndex) /\ b \in Seq(ChunkIndex)
      BY <2>11, <3>1
    <3>3. a \o (b \o u) = (a \o b) \o u /\ b \o u \in Seq(ChunkIndex)
      BY <3>2, JoinThree
    <3>4. QED
      BY <2>1, <2>12, <3>1, <3>3
  <2>14. QED
    BY <2>3, <2>8, <2>10, <2>13 DEF Reaches
<1>10. Reaches(r, k, scan, 0)
  <2> DEFINE Far == {d \in 0..k : ~Reaches(r, k, scan, k - d)}
  <2>1. Far = {}
    <3>1. SUFFICES ASSUME Far # {} PROVE FALSE
      OBVIOUS
    <3>2. PICK d \in Far : \A x \in Far : d <= x
      <4>1. Far \subseteq Nat
        BY <1>1
      <4> HIDE DEF Far
      <4>2. QED
        BY <3>1, <4>1, Least
    <3>3. d # 0
      BY <1>1, <1>8, <3>2
    <3>4. d - 1 \in 0..k /\ ~(d <= d - 1) /\ k - (d - 1) \in 1..k
          /\ k - (d - 1) - 1 = k - d
      BY <1>1, <3>2, <3>3
    <3>5. Reaches(r, k, scan, k - (d - 1))
      BY <3>2, <3>4
    <3>6. Reaches(r, k, scan, k - (d - 1) - 1)
      BY <1>9, <3>4, <3>5
    <3>7. QED
      BY <3>2, <3>4, <3>6
  <2>2. k \in 0..k /\ k - k = 0
    BY <1>1
  <2>3. QED
    BY <2>1, <2>2
<1>11. PICK t \in Seq(ParsedBy(r)), u \in Seq(ChunkIndex) :
    /\ scan[EndOf(0)] =
         [ok |-> Reader!ScanEnds(image, EndOf(k)), msgs |-> t, index |-> u]
    /\ ReadBy(r, 0) \o t = ReadBy(r, k)
    /\ SubSeq(chunk_index, 1, 0) \o u = SubSeq(chunk_index, 1, k)
  BY <1>10 DEF Reaches
<1>12. t = ReadBy(r, k)
  BY <1>4, <1>11
<1>13. u = SubSeq(chunk_index, 1, k)
  <2>1. SubSeq(chunk_index, 1, 0) = <<>>
    BY <1>1
  <2>2. <<>> \o u = u
    OBVIOUS
  <2>3. QED
    BY <1>11, <2>1, <2>2
<1>14. EndOf(0) = 2
  BY DEF EndOf, Seen
<1>15. QED
  BY <1>6, <1>11, <1>12, <1>13, <1>14 DEF Unfolds

------------------------------------------------------------------------------
(* The chunks the footer names *)

LEMMA ScannedExists ==
  ASSUME NEW n, Seen(n), NEW r
  PROVE  \E k : ScannedBy(r, k)
<1> DEFINE K == {i \in 1..Len(chunk_index) : \A j \in 1..i : ReadableBy(r, j)}
           k == Cardinality(K)
<1>1. Len(chunk_index) \in Nat
  BY SeenEntries
<1>2. k \in 0..Len(chunk_index) /\ K = 1..k
  <2>1. K \in SUBSET (1..Len(chunk_index))
    OBVIOUS
  <2>2. \A i \in K : \A j \in 1..Len(chunk_index) : j <= i => j \in K
    <3>1. SUFFICES ASSUME NEW i \in K, NEW j \in 1..Len(chunk_index), j <= i PROVE j \in K
      OBVIOUS
    <3>2. \A x \in 1..j : x \in 1..i
      BY <1>1, <3>1
    <3>3. QED
      BY <3>2
  <2> HIDE DEF K
  <2>3. QED
    BY <1>1, <2>1, <2>2, PrefixSet
<1> HIDE DEF k
<1>3. k \in Nat
  BY <1>1, <1>2
<1>4. ASSUME NEW i \in 1..k PROVE ReadableBy(r, i)
  <2>1. i \in K /\ i \in 1..i
    BY <1>2, <1>3
  <2>2. QED
    BY <2>1
<1>5. ASSUME k < Len(chunk_index) PROVE ~ReadableBy(r, k + 1)
  <2>1. SUFFICES ASSUME ReadableBy(r, k + 1) PROVE FALSE
    OBVIOUS
  <2>2. k + 1 \in 1..Len(chunk_index) /\ k + 1 \notin 1..k
        /\ \A j \in 1..k + 1 : j \in 1..k \/ j = k + 1
    BY <1>1, <1>3, <1>5
  <2>3. \A j \in 1..k + 1 : ReadableBy(r, j)
    BY <1>4, <2>1, <2>2
  <2>4. k + 1 \in K
    BY <2>2, <2>3
  <2>5. QED
    BY <1>2, <2>2, <2>4
<1>6. QED
  BY <1>2, <1>4, <1>5 DEF ScannedBy

LEMMA ScannedOnce ==
  ASSUME NEW r, NEW k, ScannedBy(r, k), NEW l, ScannedBy(r, l), Len(chunk_index) \in Nat
  PROVE  k = l
<1>1. ASSUME NEW x, NEW y, ScannedBy(r, x), ScannedBy(r, y), x < y PROVE FALSE
  <2>1. x \in 0..Len(chunk_index) /\ y \in 0..Len(chunk_index)
    BY <1>1 DEF ScannedBy
  <2>2. x < Len(chunk_index) /\ x + 1 \in 1..y
    BY <1>1, <2>1
  <2>3. QED
    BY <1>1, <2>2 DEF ScannedBy
<1>2. k \in Int /\ l \in Int
  BY DEF ScannedBy
<1>3. ~(k < l) /\ ~(l < k)
  BY <1>1
<1>4. QED
  BY <1>2, <1>3

\* Readers with the same declarations read the same.
LEMMA SameDecls ==
  ASSUME NEW r, NEW s, r.schemas = s.schemas, r.channels = s.channels
  PROVE  /\ \A i : ReadableBy(r, i) <=> ReadableBy(s, i)
         /\ \A k : ReadBy(r, k) = ReadBy(s, k)
         /\ \A k : ScannedBy(r, k) <=> ScannedBy(s, k)
<1>1. \A m : Reader!KnownRecord(r, m) <=> Reader!KnownRecord(s, m)
  BY DEF Reader!KnownRecord
<1>2. \A m : Reader!Parsed(r, m) = Reader!Parsed(s, m)
  BY DEF Reader!Parsed
<1>3. \A i : ReadableBy(r, i) <=> ReadableBy(s, i)
  BY <1>1 DEF ReadableBy, Reader!ChunkReadable
<1>4. \A i : ChunkBy(r, i) = ChunkBy(s, i)
  BY <1>2 DEF ChunkBy, Reader!ChunkAt
<1>5. \A k : ReadBy(r, k) = ReadBy(s, k)
  BY <1>4 DEF ReadBy
<1>6. \A k : ScannedBy(r, k) <=> ScannedBy(s, k)
  BY <1>3 DEF ScannedBy
<1>7. QED
  BY <1>3, <1>5, <1>6

\* Reading through an index of the first c chunks reads these chunks.
LEMMA ByIndex ==
  ASSUME chunk_index \in Seq(ChunkIndex), NEW r, NEW c \in 0..Len(chunk_index),
         r.chunk_index = SubSeq(chunk_index, 1, c)
  PROVE  /\ (\A i \in 1..c : ReadableBy(r, i)) =>
              Reader!ReadByIndex(r, image) = Reader!Success(ReadBy(r, c))
         /\ ~(\A i \in 1..c : ReadableBy(r, i)) =>
              Reader!ReadByIndex(r, image) = Reader!Failure
<1>1. /\ Len(r.chunk_index) = c
      /\ \A i \in 1..c : r.chunk_index[i] = chunk_index[i]
  BY PrefixProperties
<1>2. \A i \in 1..c : ReadableBy(r, i) <=> Reader!ChunkReadable(r, image, r.chunk_index[i].offset)
  BY <1>1 DEF ReadableBy
<1>3. [i \in 1..c |-> ChunkBy(r, i)] =
        [i \in 1..Len(r.chunk_index) |-> Reader!ChunkAt(r, image, r.chunk_index[i].offset)]
  BY <1>1 DEF ChunkBy
<1>4. ReadBy(r, c) = Reader!FlattenSeq(
        [i \in 1..Len(r.chunk_index) |-> Reader!ChunkAt(r, image, r.chunk_index[i].offset)])
  BY <1>3 DEF ReadBy
<1>5. QED
  BY <1>1, <1>2, <1>4 DEF Reader!ReadByIndex

\* What a footer at the end of the image says.
LEMMA FooterSeen ==
  ASSUME NEW n, Seen(n), Reader!HasTrailer(image)
  PROVE  /\ n \in 1..Len(file) /\ file[n].kind = "trailer" /\ Footer(n)
         /\ Reader!Last(image) = file[n]
         /\ file[n].chunk_count \in 0..Len(chunk_index) /\ file[n].msg_count \in Nat
         /\ Reader!FooterIndex(image) = SubSeq(chunk_index, 1, file[n].chunk_count)
<1>1. /\ n \in Nat /\ Len(file) \in Nat /\ n <= Len(file) /\ file \in Seq(Cell)
      /\ Len(image) = n /\ \A k \in 1..n : image[k] = file[k]
  BY CutCells DEF Seen
<1>2. n > 0 /\ Reader!Last(image) = image[n] /\ image[n].kind = "trailer"
  BY <1>1 DEF Reader!HasTrailer, Reader!Last
<1>3. n \in 1..n /\ n \in 1..Len(file)
  BY <1>1, <1>2
<1>4. image[n] = file[n] /\ file[n] \in Cell
  BY <1>1, <1>3
<1>5. Footer(n)
  BY <1>2, <1>3, <1>4 DEF Seen, FileInv, ShapeInv, TrailerInv
<1>6. file[n].chunk_count \in Nat /\ file[n].msg_count \in Nat
  BY <1>2, <1>4, TrailerTyped
<1>7. PICK c \in Nat : c = file[n].chunk_count
  BY <1>6
<1>8. c <= Len(chunk_index) /\ c < n
      /\ \A i \in 1..c : file[n - 1 - c + i] = IndexCell(chunk_index[i])
  BY <1>5, <1>7 DEF Footer
<1>9. Len(chunk_index) \in Nat /\ chunk_index \in Seq(ChunkIndex)
  BY SeenEntries DEF Seen, FileInv, FullInv, TypeOK
<1>10. ASSUME NEW i \in 1..c
       PROVE  image[n - 1 - c + i].entry = chunk_index[i]
  <2>1. n - 1 - c + i \in 1..n
    BY <1>1, <1>8
  <2>2. image[n - 1 - c + i] = IndexCell(chunk_index[i])
    BY <1>1, <1>8, <2>1
  <2>3. QED
    BY <2>2 DEF IndexCell
<1>11. Reader!FooterIndex(image) = [i \in 1..c |-> image[n - 1 - c + i].entry]
  BY <1>1, <1>2, <1>4, <1>7 DEF Reader!FooterIndex
<1>12. [i \in 1..c |-> image[n - 1 - c + i].entry] = [i \in 1..c |-> chunk_index[i]]
  BY <1>10
<1>13. SubSeq(chunk_index, 1, c) = [i \in 1..c |-> chunk_index[i]]
  BY <1>7, <1>8, <1>9
<1>14. c \in 0..Len(chunk_index)
  BY <1>8, <1>9
<1>15. QED
  BY <1>2, <1>3, <1>4, <1>5, <1>6, <1>7, <1>11, <1>12, <1>13, <1>14

------------------------------------------------------------------------------
(* The names and schemas of the messages *)

\* Where the ids are the places.
LEMMA ByIdIs ==
  ASSUME NEW d, Len(d) \in Nat, \A i \in 1..Len(d) : d[i].id = i, NEW x
  PROVE  /\ x \in 1..Len(d) => Reader!ById(d, x) = x
         /\ x \notin 1..Len(d) => Reader!ById(d, x) = 0
<1> DEFINE I == {i \in 1..Len(d) : d[i].id = x}
<1>1. Reader!ById(d, x) = IF I # {} THEN Reader!Min(I) ELSE 0
  BY DEF Reader!ById, Reader!SelectInSeq
<1>2. CASE x \in 1..Len(d)
  <2>1. I = {x}
    BY <1>2
  <2> HIDE DEF I
  <2>2. Reader!Min(I) = x
    <3>1. \E y \in I : \A z \in I : y <= z
      BY <1>2, <2>1
    <3>2. Reader!Min(I) \in I
      BY <3>1 DEF Reader!Min
    <3>3. QED
      BY <2>1, <3>2
  <2>3. QED
    BY <1>1, <1>2, <2>1, <2>2
<1>3. CASE x \notin 1..Len(d)
  <2>1. I = {}
    BY <1>3
  <2>2. QED
    BY <1>1, <1>3, <2>1
<1>4. QED
  BY <1>2, <1>3

\* The first of the declarations with an id.
LEMMA ByIdFinds ==
  ASSUME NEW d, Len(d) \in Nat, NEW x
  PROVE  /\ (\E i \in 1..Len(d) : d[i].id = x) =>
              Reader!ById(d, x) \in 1..Len(d) /\ d[Reader!ById(d, x)].id = x
         /\ ~(\E i \in 1..Len(d) : d[i].id = x) => Reader!ById(d, x) = 0
<1> DEFINE I == {i \in 1..Len(d) : d[i].id = x}
<1>1. Reader!ById(d, x) = IF I # {} THEN Reader!Min(I) ELSE 0
  BY DEF Reader!ById, Reader!SelectInSeq
<1>2. CASE I = {}
  BY <1>1, <1>2
<1>3. CASE I # {}
  <2>1. I \subseteq Nat
    OBVIOUS
  <2>2. Reader!Min(I) \in I
    <3> HIDE DEF I
    <3>1. \E y \in I : \A z \in I : y <= z
      BY <1>3, <2>1, Least
    <3>2. QED
      BY <3>1 DEF Reader!Min
  <2>3. QED
    BY <1>1, <1>3, <2>2
<1>4. QED
  BY <1>2, <1>3

\* A reader with the declarations of the header.
Reads(r) == r.schemas = image[2].schemas /\ r.channels = image[2].channels

\* The reader's declarations are the first ones the writer has.
LEMMA HeaderDecls ==
  ASSUME NEW n, Seen(n), Reader!HeaderValid(image), NEW r, Reads(r)
  PROVE  /\ Len(r.schemas) \in Nat /\ Len(r.schemas) <= Len(schemas)
         /\ \A i \in 1..Len(r.schemas) : r.schemas[i] = schemas[i]
         /\ Len(r.channels) \in Nat /\ Len(r.channels) <= Len(channels)
         /\ \A i \in 1..Len(r.channels) : r.channels[i] = channels[i]
         /\ r.channels = file[2].channels
         /\ \A c \in 1..Len(r.channels) : \E s \in 1..Len(r.schemas) :
              r.schemas[s].id = r.channels[c].schema_id
<1>1. image[2] = file[2] /\ Declares(image[2])
  BY HeaderSeen DEF Seen
<1>2. PICK a \in 0..Len(schemas), b \in 0..Len(channels) :
    /\ image[2] = DeclCell(SubSeq(schemas, 1, a), SubSeq(channels, 1, b))
    /\ \A c \in 1..b : \E s \in 1..a : schemas[s].id = channels[c].schema_id
  BY <1>1 DEF Declares
<1>3. r.schemas = SubSeq(schemas, 1, a) /\ r.channels = SubSeq(channels, 1, b)
  BY <1>2 DEF Reads, DeclCell
<1>4. schemas \in Seq(Schema) /\ channels \in Seq(Channel)
  BY DEF Seen, FileInv, FullInv, TypeOK
<1>5. /\ Len(SubSeq(schemas, 1, a)) = a /\ a \in Nat /\ a <= Len(schemas)
      /\ \A i \in 1..a : SubSeq(schemas, 1, a)[i] = schemas[i]
  BY <1>4
<1>6. /\ Len(SubSeq(channels, 1, b)) = b /\ b \in Nat /\ b <= Len(channels)
      /\ \A i \in 1..b : SubSeq(channels, 1, b)[i] = channels[i]
  BY <1>4
<1>7. \A c \in 1..b : \E s \in 1..a : r.schemas[s].id = r.channels[c].schema_id
  BY <1>2, <1>3, <1>5, <1>6
<1>8. r.channels = file[2].channels
  BY <1>1 DEF Reads
<1>9. QED
  BY <1>3, <1>5, <1>6, <1>7, <1>8

\* A message is read as it was meant, if its channel is declared in the header.
LEMMA Recognised ==
  ASSUME NEW n, Seen(n), Reader!HeaderValid(image), NEW r, Reads(r),
         DeclInv, AskedInv, NEW m, FromWrites(m)
  PROVE  /\ Reader!KnownRecord(r, m) => Reader!Parsed(r, m) = AsWritten(m)
         /\ m.ch <= Len(file[2].channels) => Reader!KnownRecord(r, m)
<1>1. PICK i \in 1..Len(accepted) : accepted[i] = m
  BY DEF FromWrites
<1>2. m.id = i
  BY <1>1 DEF Seen, FileInv, ShapeInv, MessagesInv
<1>3. PICK c \in 1..Len(channels), s \in 1..Len(schemas) :
         /\ channels[c].id = m.ch
         /\ channels[c].name = asked[i].channel
         /\ schemas[s].id = channels[c].schema_id
         /\ schemas[s].key = asked[i].schema
  BY <1>1 DEF AskedInv
<1>4. m.ch = c /\ channels[c].schema_id = s
  BY <1>3 DEF DeclInv
<1>5. /\ Len(r.schemas) \in Nat /\ Len(r.schemas) <= Len(schemas)
      /\ \A j \in 1..Len(r.schemas) : r.schemas[j] = schemas[j]
      /\ Len(r.channels) \in Nat /\ Len(r.channels) <= Len(channels)
      /\ \A j \in 1..Len(r.channels) : r.channels[j] = channels[j]
      /\ r.channels = file[2].channels
      /\ \A x \in 1..Len(r.channels) : \E y \in 1..Len(r.schemas) :
           r.schemas[y].id = r.channels[x].schema_id
  BY HeaderDecls
<1>6. Len(schemas) \in Nat /\ Len(channels) \in Nat
  <2>1. schemas \in Seq(Schema) /\ channels \in Seq(Channel)
    BY DEF Seen, FileInv, FullInv, TypeOK
  <2>2. QED
    BY <2>1
<1>7. /\ \A j \in 1..Len(r.schemas) : r.schemas[j].id = j
      /\ \A j \in 1..Len(r.channels) : r.channels[j].id = j
  <2>1. PICK a \in Nat, b \in Nat : a = Len(r.schemas) /\ b = Len(schemas)
    BY <1>5, <1>6
  <2>2. PICK x \in Nat, y \in Nat : x = Len(r.channels) /\ y = Len(channels)
    BY <1>5, <1>6
  <2>3. a <= b /\ x <= y
    BY <1>5, <2>1, <2>2
  <2>4. (\A j \in 1..a : j \in 1..b) /\ \A j \in 1..x : j \in 1..y
    BY <2>3
  <2>5. /\ \A j \in 1..Len(r.schemas) : r.schemas[j] = schemas[j] /\ j \in 1..Len(schemas)
        /\ \A j \in 1..Len(r.channels) : r.channels[j] = channels[j] /\ j \in 1..Len(channels)
    BY <1>5, <2>1, <2>2, <2>4
  <2>6. QED
    BY <2>5 DEF DeclInv
<1>8. /\ c \in 1..Len(r.channels) => Reader!ById(r.channels, m.ch) = c
      /\ c \notin 1..Len(r.channels) => Reader!ById(r.channels, m.ch) = 0
  BY <1>4, <1>5, <1>7, ByIdIs
<1>9. /\ s \in 1..Len(r.schemas) => Reader!ById(r.schemas, s) = s
      /\ s \notin 1..Len(r.schemas) => Reader!ById(r.schemas, s) = 0
  BY <1>5, <1>7, ByIdIs
<1>10. c \in 1..Len(r.channels) => r.channels[c].schema_id = s /\ r.channels[c].name = asked[i].channel
  BY <1>3, <1>4, <1>5
<1>11. s \in 1..Len(r.schemas) => r.schemas[s].key = asked[i].schema
  BY <1>3, <1>5
<1>12. ASSUME Reader!KnownRecord(r, m) PROVE Reader!Parsed(r, m) = AsWritten(m)
  <2>1. Reader!ById(r.channels, m.ch) # 0
    BY <1>12 DEF Reader!KnownRecord
  <2>2. c \in 1..Len(r.channels) /\ Reader!ById(r.channels, m.ch) = c
    BY <1>8, <2>1
  <2>3. Reader!ById(r.schemas, s) # 0
    BY <1>10, <1>12, <2>2 DEF Reader!KnownRecord
  <2>4. s \in 1..Len(r.schemas) /\ Reader!ById(r.schemas, s) = s
    BY <1>9, <2>3
  <2>5. Reader!Parsed(r, m) = [id |-> m.id, stamp |-> m.stamp, channel |-> asked[i].channel,
                               schema |-> asked[i].schema]
    BY <1>10, <1>11, <2>2, <2>4 DEF Reader!Parsed
  <2>6. QED
    BY <1>2, <2>5 DEF AsWritten
<1>13. ASSUME m.ch <= Len(file[2].channels) PROVE Reader!KnownRecord(r, m)
  <2>1. c \in 1..Len(r.channels)
    BY <1>4, <1>5, <1>13
  <2>2. Reader!ById(r.channels, m.ch) = c /\ c # 0
    BY <1>8, <2>1
  <2>3. PICK y \in 1..Len(r.schemas) : r.schemas[y].id = r.channels[c].schema_id
    BY <1>5, <2>1
  <2>4. y = s
    BY <1>7, <1>10, <2>1, <2>3
  <2>5. Reader!ById(r.schemas, r.channels[c].schema_id) = s /\ s # 0
    BY <1>9, <1>10, <2>1, <2>3, <2>4
  <2>6. QED
    BY <2>2, <2>5 DEF Reader!KnownRecord
<1>14. QED
  BY <1>12, <1>13

\* Chunks that can be read are read as they were written.
LEMMA ReadIsWhole ==
  ASSUME NEW n, Seen(n), Reader!HeaderValid(image), NEW r, Reads(r),
         DeclInv, AskedInv, NEW k \in 0..Len(chunk_index),
         \A i \in 1..k : ReadableBy(r, i)
  PROVE  /\ ReadBy(r, k) = WholeChunks(k)
         /\ \A i \in 1..k : Intact(i)
<1>1. PICK w : Whole(w)
  <2>1. FileInv /\ header_written /\ data_offset \in Nat /\ parted # 0
    BY DEF Seen
  <2>2. QED
    BY <2>1, WholePrefix
<1>2. \A i \in 1..k : /\ i \in 1..Len(chunk_index)
                      /\ Intact(i) /\ EntryEnd(chunk_index[i]) <= n
  BY <1>1, ReadableIntact
<1>3. ASSUME NEW i \in 1..k
      PROVE  ChunkBy(r, i) = [j \in 1..chunk_index[i].msg_count |->
                                AsWritten(MsgsAt(file, chunk_index[i])[j])]
  <2>1. i \in 1..Len(chunk_index) /\ Intact(i) /\ EntryEnd(chunk_index[i]) <= n
    BY <1>2
  <2>2. ChunkBy(r, i) = [j \in 1..chunk_index[i].msg_count |->
                           Reader!Parsed(r, MsgsAt(file, chunk_index[i])[j])]
    BY <2>1, ChunkByType
  <2>3. SeenAs(r, chunk_index[i], MsgsAt(file, chunk_index[i]))
    BY <2>1, ChunkSeen DEF Seen
  <2>4. \A j \in 1..chunk_index[i].msg_count :
          Reader!KnownRecord(r, MsgsAt(file, chunk_index[i])[j])
    BY <2>3 DEF SeenAs, ReadableBy
  <2>5. \A j \in 1..chunk_index[i].msg_count :
          FromWrites(MsgsAt(file, chunk_index[i])[j])
    BY <2>1 DEF Seen, FileInv, ShapeInv, MessagesInv
  <2>6. \A j \in 1..chunk_index[i].msg_count :
          Reader!Parsed(r, MsgsAt(file, chunk_index[i])[j]) =
            AsWritten(MsgsAt(file, chunk_index[i])[j])
    BY <2>4, <2>5, Recognised
  <2>7. QED
    BY <2>2, <2>6
<1>4. ReadBy(r, k) = WholeChunks(k)
  BY <1>3 DEF ReadBy, WholeChunks
<1>5. QED
  BY <1>2, <1>4

\* If only declared channels were written to, what is complete can be read.
LEMMA CompleteReadable ==
  ASSUME NEW n, Seen(n), Reader!HeaderValid(image), NEW r, Reads(r),
         DeclInv, AskedInv, ContractKept, NEW i \in 1..Len(chunk_index),
         Intact(i), EntryEnd(chunk_index[i]) <= n
  PROVE  ReadableBy(r, i)
<1>1. SeenAs(r, chunk_index[i], MsgsAt(file, chunk_index[i]))
  BY ChunkSeen DEF Seen
<1>2. \A j \in 1..chunk_index[i].msg_count :
        FromWrites(MsgsAt(file, chunk_index[i])[j])
  BY DEF Seen, FileInv, ShapeInv, MessagesInv
<1>3. ASSUME NEW j \in 1..chunk_index[i].msg_count
      PROVE  Reader!KnownRecord(r, MsgsAt(file, chunk_index[i])[j])
  <2>1. PICK m : m = MsgsAt(file, chunk_index[i])[j] /\ FromWrites(m)
    BY <1>2
  <2>2. m.ch <= Len(file[2].channels)
    BY <2>1 DEF FromWrites, ContractKept
  <2>3. QED
    BY <2>1, <2>2, Recognised
<1>4. QED
  BY <1>1, <1>3 DEF SeenAs, ReadableBy

------------------------------------------------------------------------------
(* The invariant of writing, cutting off and reading *)

\* The reader as open leaves it.
Fresh == Reader!Opened(image)

\* The reader with another index.
ReaderWith(index, count) ==
  [state |-> "open", version |-> Fresh.version, schemas |-> Fresh.schemas,
   channels |-> Fresh.channels, data_offset |-> 2, chunk_index |-> index,
   msg_count |-> count]

\* The reader's index is that of the footer, or what a scan has filled in.
Indexed ==
  \E index, count :
    /\ reader = ReaderWith(index, count)
    /\ \/ index = Fresh.chunk_index
       \/ /\ Fresh.chunk_index = <<>> /\ answers # <<>>
          /\ \E k : ScannedBy(Fresh, k) /\ index = SubSeq(chunk_index, 1, k)

\* An answer of a reader without an index: what the scan finds, or an error.
ByScan(first, x) ==
  \E k :
    /\ ScannedBy(Fresh, k)
    /\ x = Reader!Success(ReadBy(Fresh, k)) \/ x = Reader!Failure
    /\ Reader!ScanEnds(image, EndOf(k)) => x.ok
    /\ first /\ x.ok => Reader!ScanEnds(image, EndOf(k))

\* The answer of a reader with an index of c chunks.
ByFooter(c, x) ==
  /\ (\A i \in 1..c : ReadableBy(Fresh, i)) => x = Reader!Success(ReadBy(Fresh, c))
  /\ ~(\A i \in 1..c : ReadableBy(Fresh, i)) => x = Reader!Failure

Answers(first, x) ==
  IF Fresh.chunk_index = <<>> THEN ByScan(first, x)
  ELSE ByFooter(Len(Fresh.chunk_index), x)

WriterInv == FileInv /\ IInv /\ AskedInv /\ (IdsSuffice => DeclInv)

ImageInv ==
  /\ image = None => reader = Reader!Closed /\ answers = <<>> /\ old = None
  /\ old # None => ~finished
  /\ image # None /\ old = None => ~open /\ \E n : Cut(n) /\ flushed <= n

ReaderInv ==
  /\ reader.state = "open" =>
       /\ image # None /\ Reader!HeaderValid(image)
       /\ old # None => reader = Fresh /\ Fresh.version = 1
       /\ old = None => Indexed
  /\ reader.state # "open" => answers = <<>>

AnswersInv ==
  /\ \E S : answers \in Seq(S)
  /\ \A a \in 1..Len(answers) :
       IF old # None THEN answers[a] = Reader!ReadLinear(Fresh, image)
       ELSE Answers(a = 1, answers[a])

ReadingInv == ImageInv /\ ReaderInv /\ AnswersInv

LEMMA AppendAny ==
  ASSUME NEW S, NEW s \in Seq(S), NEW e
  PROVE  /\ \E T : Append(s, e) \in Seq(T)
         /\ Len(s) \in Nat /\ Len(Append(s, e)) = Len(s) + 1
         /\ Append(s, e)[Len(s) + 1] = e
         /\ \A i \in 1..Len(s) : Append(s, e)[i] = s[i]
<1> DEFINE T == S \cup {e}
<1>1. s \in Seq(T)
  OBVIOUS
<1>2. e \in T
  OBVIOUS
<1> HIDE DEF T
<1>3. Append(s, e) \in Seq(T)
  BY <1>1, <1>2
<1>4. QED
  BY <1>1, <1>2, <1>3

LEMMA WriterKeeps ==
  ASSUME WriterInv, [RecorderNext]_recorderVars
  PROVE  WriterInv'
<1>1. FullInv /\ ShapeInv /\ FilledInv /\ IInv /\ AskedInv /\ (IdsSuffice => DeclInv)
  BY DEF WriterInv, FileInv
<1>2. [Next]_vars
  BY <1>1, UsesSteps
<1>3. FullInv'
  BY <1>1, <1>2, StepFull
<1>4. ShapeInv'
  BY <1>1, <1>2, StepShape
<1>5. FilledInv'
  BY <1>1, <1>2, FilledStep
<1>6. IInv'
  <2>1. Inv'
    BY <1>1, StepInv
  <2>2. QED
    BY <1>3, <2>1 DEF IInv, FullInv
<1>7. AskedInv'
  BY <1>1, AskedStep
<1>8. (IdsSuffice => DeclInv)'
  BY <1>1, DeclStep
<1>9. QED
  BY <1>3, <1>4, <1>5, <1>6, <1>7, <1>8 DEF WriterInv, FileInv

\* Everything of the writer but open.
Frozen ==
  UNCHANGED <<file, flushed, registry, pos, data_offset, header_written,
              finished, pending, pending_bytes, chunkVars, accepted,
              result, failures, parted, caches, asked>>

LEMMA WriterFrozen ==
  ASSUME WriterInv, Frozen, open' \in BOOLEAN
  PROVE  WriterInv'
<1>1. FullInv /\ ShapeInv /\ FilledInv /\ IInv /\ AskedInv /\ (IdsSuffice => DeclInv)
  BY DEF WriterInv, FileInv
<1>2. TypeOK'
  BY <1>1 DEF FullInv, TypeOK, Frozen, registry, chunkVars
<1>3. AccountsInv' /\ CountInv'
  BY <1>1 DEF FullInv, AccountsInv, CountInv, Frozen, registry, chunkVars, ChunksTile
<1>4. ContentInv'
  BY <1>1, ContentSame DEF FullInv, Frozen, registry, chunkVars
<1>5. FullInv'
  BY <1>2, <1>3, <1>4 DEF FullInv
<1>6. ShapeInv'
  BY <1>1, ShapeSame DEF ShapeVars, Frozen, registry, chunkVars
<1>7. FilledInv'
  BY <1>1 DEF FilledInv, Frozen, chunkVars
<1>8. IInv'
  BY <1>1, <1>2 DEF IInv, Inv, Frozen, registry, caches, SchemaIdsInv, AddingInv, IdsLeadBack, Declared, KnownSchema, KnownName
<1>9. AskedInv' /\ (IdsSuffice => DeclInv)'
  BY <1>1 DEF AskedInv, IdsSuffice, DeclInv, Frozen, registry
<1>10. QED
  BY <1>5, <1>6, <1>7, <1>8, <1>9 DEF WriterInv, FileInv

\* What is in the file does not change what a reader of the image sees.
LEMMA ReadingFrozen ==
  ASSUME ReadingInv, Frozen, open' = open, UNCHANGED readerVars
  PROVE  ReadingInv'
<1> USE DEF Frozen, readerVars, registry, chunkVars
<1>1. \A r, i : ReadableBy(r, i)' <=> ReadableBy(r, i)
  BY DEF ReadableBy
<1>2. \A r, k : ReadBy(r, k)' = ReadBy(r, k)
  BY DEF ReadBy, ChunkBy
<1>3. \A r, k : ScannedBy(r, k)' <=> ScannedBy(r, k)
  BY <1>1 DEF ScannedBy
<1>4. Fresh' = Fresh /\ \A k : EndOf(k)' = EndOf(k)
  BY DEF Fresh, EndOf
<1>5. ImageInv'
  BY DEF ReadingInv, ImageInv, Cut
<1>6. ReaderInv'
  BY <1>3, <1>4 DEF ReadingInv, ReaderInv, Indexed, ReaderWith
<1>7. \A first, x : Answers(first, x)' <=> Answers(first, x)
  BY <1>1, <1>2, <1>3, <1>4 DEF Answers, ByScan, ByFooter
<1>8. AnswersInv'
  BY <1>4, <1>7 DEF ReadingInv, AnswersInv
<1>9. QED
  BY <1>5, <1>6, <1>8 DEF ReadingInv

LEMMA NotNone ==
  ASSUME NEW img, img \in Seq(Cell) \/ img \in Seq(LinearCell)
  PROVE  img # None
<1>1. img \in Seq(Cell \cup LinearCell)
  OBVIOUS
<1>2. QED
  BY <1>1, NoneAssumption

LEMMA ClosedReads ==
  ASSUME answers = <<>>, reader.state # "open"
  PROVE  ReaderInv /\ AnswersInv
  BY DEF ReaderInv, AnswersInv

\* While the writer writes, nothing has been read.
LEMMA WriterReads ==
  ASSUME WriterInv, ReadingInv, WriterStep
  PROVE  WriterInv' /\ ReadingInv'
<1>1. WriterInv'
  BY WriterKeeps DEF WriterStep
<1>2. image = None /\ UNCHANGED <<image, reader, answers, old>>
  BY DEF WriterStep, readerVars
<1>3. reader = Reader!Closed /\ answers = <<>> /\ old = None
  BY <1>2 DEF ReadingInv, ImageInv
<1>4. ImageInv'
  BY <1>2, <1>3 DEF ImageInv
<1>5. answers' = <<>> /\ (reader.state # "open")'
  BY <1>2, <1>3 DEF Reader!Closed
<1>6. ReaderInv'
  BY <1>5 DEF ReaderInv
<1>7. AnswersInv'
  BY <1>5 DEF AnswersInv
<1>8. QED
  BY <1>1, <1>4, <1>6, <1>7 DEF ReadingInv

\* The cut leaves an image, and nothing has been read of it.
LEMMA CutKeeps ==
  ASSUME WriterInv, ReadingInv, CutOff
  PROVE  WriterInv' /\ ReadingInv'
<1>1. Frozen
  BY DEF CutOff, Frozen
<1>2. WriterInv'
  BY <1>1, WriterFrozen DEF CutOff
<1>3. PICK n \in flushed..Len(file) : image' = SubSeq(file, 1, n)
  BY DEF CutOff
<1>4. /\ image = None /\ UNCHANGED <<reader, answers, old, file, flushed>> /\ ~open'
  BY DEF CutOff
<1>5. reader = Reader!Closed /\ answers = <<>> /\ old = None
  BY <1>4 DEF ReadingInv, ImageInv
<1>6. file \in Seq(Cell) /\ flushed \in 0..Len(file)
  BY DEF WriterInv, FileInv, FullInv, TypeOK
<1>7. n \in 0..Len(file) /\ flushed <= n
  BY <1>3, <1>6
<1>8. image' \in Seq(Cell)
  BY <1>3, <1>6, <1>7, PrefixProperties
<1>9. image' # None
  BY <1>8, NotNone
<1>10. ImageInv'
  BY <1>3, <1>4, <1>5, <1>7, <1>9 DEF ImageInv, Cut
<1>11. answers' = <<>> /\ (reader.state # "open")'
  BY <1>4, <1>5 DEF Reader!Closed
<1>12. ReaderInv'
  BY <1>11 DEF ReaderInv
<1>13. AnswersInv'
  BY <1>11 DEF AnswersInv
<1>14. QED
  BY <1>2, <1>10, <1>12, <1>13 DEF ReadingInv

\* The image of a file of this version.
LEMMA ImageSeen ==
  ASSUME WriterInv, ImageInv, image # None, old = None, Reader!HeaderValid(image)
  PROVE  /\ \E n : Seen(n) /\ flushed <= n
         /\ Fresh.version = 2 /\ ~open
<1>1. PICK n : Cut(n) /\ flushed <= n /\ ~open
  BY DEF ImageInv
<1>2. FileInv
  BY DEF WriterInv
<1>3. /\ header_written /\ parted # 0 /\ data_offset = 2 /\ image[1] = MagicCell
  BY <1>1, <1>2, HeaderSeen
<1>4. Seen(n)
  BY <1>1, <1>2, <1>3 DEF Seen
<1>5. MagicCell # LinearMagicCell
  BY DEF MagicCell, LinearMagicCell
<1>6. Fresh.version = 2
  BY <1>3, <1>5, SameCells DEF Fresh, Reader!Opened
<1>7. QED
  BY <1>1, <1>4, <1>6

LEMMA FreshIs ==
  /\ Fresh = ReaderWith(Fresh.chunk_index, Fresh.msg_count)
  /\ Fresh.state = "open" /\ Fresh.data_offset = 2
  /\ Reads(Fresh)
  BY DEF Fresh, ReaderWith, Reader!Opened, Reads

\* open gives the reader the image calls for.
LEMMA OpenKeeps ==
  ASSUME WriterInv, ReadingInv, Reader!Open, UNCHANGED <<recorderVars, old>>,
         old # None /\ Reader!HeaderValid(image) => image[1] = LinearMagicCell
  PROVE  WriterInv' /\ ReadingInv'
<1>1. /\ reader = Reader!Closed /\ image # None /\ UNCHANGED <<image, answers, old>>
      /\ reader' = IF Reader!HeaderValid(image) THEN Fresh ELSE Reader!OpenFailed
  BY DEF Reader!Open, Fresh
<1>2. answers = <<>>
  BY <1>1 DEF ReadingInv, ReaderInv, Reader!Closed
<1>3. WriterInv'
  BY WriterFrozen DEF recorderVars, vars, Frozen, WriterInv, FileInv, FullInv, TypeOK
<1>4. ImageInv'
  BY <1>1 DEF ReadingInv, ImageInv, recorderVars, vars, Cut
<1>5. AnswersInv'
  BY <1>1, <1>2 DEF AnswersInv
<1>6. ReaderInv'
  <2>1. CASE Reader!HeaderValid(image)
    <3>1. reader' = Fresh /\ Fresh' = Fresh
      BY <1>1, <2>1 DEF Fresh
    <3>2. old # None => Fresh.version = 1
      BY <2>1, SameCells DEF Fresh, Reader!Opened
    <3>3. Fresh = ReaderWith(Fresh.chunk_index, Fresh.msg_count)
      BY FreshIs
    <3>4. reader' = ReaderWith(Fresh.chunk_index, Fresh.msg_count)'
      BY <3>1, <3>3 DEF ReaderWith
    <3>5. Indexed'
      BY <3>1, <3>4 DEF Indexed
    <3>6. QED
      BY <1>1, <1>2, <2>1, <3>1, <3>2, <3>5 DEF ReaderInv
  <2>2. CASE ~Reader!HeaderValid(image)
    BY <1>1, <1>2, <2>2 DEF ReaderInv, Reader!OpenFailed
  <2>3. QED
    BY <2>1, <2>2
<1>7. QED
  BY <1>3, <1>4, <1>5, <1>6 DEF ReadingInv

\* The index a reader found in the footer.
LEMMA FreshIndex ==
  ASSUME NEW n, Seen(n), Fresh.chunk_index # <<>>
  PROVE  /\ Reader!HasTrailer(image)
         /\ \E c \in 0..Len(chunk_index) :
              /\ c = file[n].chunk_count
              /\ Fresh.chunk_index = SubSeq(chunk_index, 1, c)
              /\ Len(Fresh.chunk_index) = c
<1>1. Fresh.chunk_index = IF Reader!HasTrailer(image) THEN Reader!FooterIndex(image) ELSE <<>>
  BY DEF Fresh, Reader!Opened
<1>2. Reader!HasTrailer(image)
  BY <1>1
<1>3. PICK c \in 0..Len(chunk_index) :
        c = file[n].chunk_count /\ Reader!FooterIndex(image) = SubSeq(chunk_index, 1, c)
  BY <1>2, FooterSeen
<1>4. chunk_index \in Seq(ChunkIndex)
  BY DEF Seen, FileInv, FullInv, TypeOK
<1>5. Len(SubSeq(chunk_index, 1, c)) = c
  BY <1>3, <1>4, PrefixProperties
<1>6. QED
  BY <1>1, <1>2, <1>3, <1>5

\* A reader with the index of a footer answers what that index leads to.
LEMMA FooterAnswer ==
  ASSUME NEW n, Seen(n), Fresh.chunk_index # <<>>, NEW r,
         r.schemas = Fresh.schemas, r.channels = Fresh.channels,
         r.chunk_index = Fresh.chunk_index, NEW first
  PROVE  Answers(first, Reader!ReadByIndex(r, image))
<1>1. PICK c \in 0..Len(chunk_index) :
              /\ Fresh.chunk_index = SubSeq(chunk_index, 1, c)
              /\ Len(Fresh.chunk_index) = c
  BY FreshIndex
<1>2. chunk_index \in Seq(ChunkIndex)
  BY DEF Seen, FileInv, FullInv, TypeOK
<1>3. r.chunk_index = SubSeq(chunk_index, 1, c)
  BY <1>1
<1>4. /\ (\A i \in 1..c : ReadableBy(r, i)) =>
              Reader!ReadByIndex(r, image) = Reader!Success(ReadBy(r, c))
      /\ ~(\A i \in 1..c : ReadableBy(r, i)) =>
              Reader!ReadByIndex(r, image) = Reader!Failure
  BY <1>2, <1>3, ByIndex
<1>5. /\ \A i : ReadableBy(r, i) <=> ReadableBy(Fresh, i)
      /\ ReadBy(r, c) = ReadBy(Fresh, c)
  BY SameDecls
<1>6. ByFooter(c, Reader!ReadByIndex(r, image))
  BY <1>4, <1>5 DEF ByFooter
<1>7. QED
  BY <1>1, <1>6 DEF Answers

\* A reader whose index a scan has filled in answers the same through it.
LEMMA RereadAnswer ==
  ASSUME NEW n, Seen(n), Fresh.chunk_index = <<>>, NEW r,
         r.schemas = Fresh.schemas, r.channels = Fresh.channels,
         NEW k, ScannedBy(Fresh, k), r.chunk_index = SubSeq(chunk_index, 1, k)
  PROVE  Answers(FALSE, Reader!ReadByIndex(r, image))
<1>1. chunk_index \in Seq(ChunkIndex)
  BY DEF Seen, FileInv, FullInv, TypeOK
<1>2. k \in 0..Len(chunk_index) /\ \A i \in 1..k : ReadableBy(Fresh, i)
  BY DEF ScannedBy
<1>3. /\ \A i : ReadableBy(r, i) <=> ReadableBy(Fresh, i)
      /\ ReadBy(r, k) = ReadBy(Fresh, k)
  BY SameDecls
<1>4. (\A i \in 1..k : ReadableBy(r, i)) =>
              Reader!ReadByIndex(r, image) = Reader!Success(ReadBy(r, k))
  BY <1>1, <1>2, ByIndex
<1>5. Reader!ReadByIndex(r, image) = Reader!Success(ReadBy(Fresh, k))
  BY <1>2, <1>3, <1>4
<1>6. Reader!ReadByIndex(r, image).ok
  BY <1>5 DEF Reader!Success
<1>7. ByScan(FALSE, Reader!ReadByIndex(r, image))
  BY <1>5, <1>6 DEF ByScan
<1>8. QED
  BY <1>7 DEF Answers

\* A reader without an index answers what the scan finds.
LEMMA ScanAnswer ==
  ASSUME NEW n, Seen(n), Fresh.chunk_index = <<>>, NEW r,
         r.schemas = Fresh.schemas, r.channels = Fresh.channels, NEW first
  PROVE  LET s == Reader!ScanFrom(r, image, 2)
         IN  /\ Answers(first, IF s.ok THEN Reader!Success(s.msgs) ELSE Reader!Failure)
             /\ \E k : ScannedBy(Fresh, k) /\ s.index = SubSeq(chunk_index, 1, k)
<1> DEFINE s == Reader!ScanFrom(r, image, 2)
           x == IF s.ok THEN Reader!Success(s.msgs) ELSE Reader!Failure
<1>1. PICK k : ScannedBy(Fresh, k)
  BY ScannedExists
<1>2. /\ ScannedBy(r, k) /\ ReadBy(r, k) = ReadBy(Fresh, k)
  BY <1>1, SameDecls
<1>3. PICK w : Whole(w)
  <2>1. FileInv /\ header_written /\ data_offset \in Nat /\ parted # 0
    BY DEF Seen
  <2>2. QED
    BY <2>1, WholePrefix
<1>4. s = [ok |-> Reader!ScanEnds(image, EndOf(k)), msgs |-> ReadBy(Fresh, k),
            index |-> SubSeq(chunk_index, 1, k)]
  BY <1>2, <1>3, ScanFinds
<1>5. /\ s.ok = Reader!ScanEnds(image, EndOf(k)) /\ s.msgs = ReadBy(Fresh, k)
      /\ s.index = SubSeq(chunk_index, 1, k)
  BY <1>4
<1> HIDE DEF s
<1>6. CASE Reader!ScanEnds(image, EndOf(k))
  <2>1. s.ok
    BY <1>5, <1>6
  <2>2. x = Reader!Success(ReadBy(Fresh, k))
    BY <1>5, <2>1
  <2>3. x.ok
    BY <2>2 DEF Reader!Success
  <2> HIDE DEF x
  <2>4. ByScan(first, x)
    BY <1>1, <1>6, <2>2, <2>3 DEF ByScan
  <2>5. QED
    BY <1>1, <1>5, <2>4 DEF Answers, s, x
<1>7. CASE ~Reader!ScanEnds(image, EndOf(k))
  <2>1. ~s.ok
    BY <1>5, <1>7
  <2>2. x = Reader!Failure
    BY <2>1
  <2>3. ~x.ok
    BY <2>2 DEF Reader!Failure
  <2> HIDE DEF x
  <2>4. ByScan(first, x)
    BY <1>1, <1>7, <2>2, <2>3 DEF ByScan
  <2>5. QED
    BY <1>1, <1>5, <2>4 DEF Answers, s, x
<1>8. QED
  BY <1>6, <1>7

\* One more answer.
LEMMA NextAnswer ==
  ASSUME AnswersInv, NEW x, answers' = Append(answers, x),
         IF old # None THEN x = Reader!ReadLinear(Fresh, image)
         ELSE Answers(Len(answers) = 0, x),
         old' = old, Fresh' = Fresh, image' = image,
         \A first, y : Answers(first, y)' <=> Answers(first, y)
  PROVE  AnswersInv' /\ answers' # <<>>
<1>1. PICK S : answers \in Seq(S)
  BY DEF AnswersInv
<1>2. /\ \E T : answers' \in Seq(T)
      /\ Len(answers) \in Nat /\ Len(answers') = Len(answers) + 1
      /\ answers'[Len(answers) + 1] = x
      /\ \A i \in 1..Len(answers) : answers'[i] = answers[i]
  <2>1. /\ \E T : Append(answers, x) \in Seq(T)
        /\ Len(answers) \in Nat /\ Len(Append(answers, x)) = Len(answers) + 1
        /\ Append(answers, x)[Len(answers) + 1] = x
        /\ \A i \in 1..Len(answers) : Append(answers, x)[i] = answers[i]
    BY <1>1, AppendAny
  <2>2. QED
    BY <2>1
<1>3. ASSUME NEW a \in 1..Len(answers')
      PROVE  IF old # None THEN answers'[a] = Reader!ReadLinear(Fresh, image)
             ELSE Answers(a = 1, answers'[a])
  <2>1. CASE a = Len(answers) + 1
    <3>1. (a = 1) = (Len(answers) = 0)
      BY <1>2, <2>1
    <3>2. QED
      BY <1>2, <2>1, <3>1
  <2>2. CASE a # Len(answers) + 1
    <3>1. a \in 1..Len(answers)
      BY <1>2, <2>2
    <3>2. QED
      BY <1>2, <3>1 DEF AnswersInv
  <2>3. QED
    BY <2>1, <2>2
<1>4. AnswersInv'
  BY <1>2, <1>3 DEF AnswersInv
<1>5. answers' # <<>>
  BY <1>2
<1>6. QED
  BY <1>4, <1>5

\* A call of read_all gives an answer the invariant allows.
LEMMA ReadKeeps ==
  ASSUME WriterInv, ReadingInv, Reader!ReadAll, UNCHANGED <<recorderVars, old>>
  PROVE  WriterInv' /\ ReadingInv'
<1>1. /\ reader.state = "open" /\ image' = image /\ old' = old
  BY DEF Reader!ReadAll
<1>2. ImageInv /\ ReaderInv /\ AnswersInv
  BY DEF ReadingInv
<1>3. image # None /\ Reader!HeaderValid(image)
  BY <1>1, <1>2 DEF ReaderInv
<1>4. Frozen /\ open' = open /\ UNCHANGED <<file, chunk_index, data_offset, flushed, finished>>
  BY DEF recorderVars, vars, Frozen, chunkVars
<1>5. WriterInv'
  BY <1>4, WriterFrozen DEF WriterInv, FileInv, FullInv, TypeOK
<1>6. Fresh' = Fresh
  BY <1>1 DEF Fresh
<1>7. /\ \A r, i : ReadableBy(r, i)' <=> ReadableBy(r, i)
      /\ \A r, k : ReadBy(r, k)' = ReadBy(r, k)
      /\ \A k : EndOf(k)' = EndOf(k)
  BY <1>1, <1>4 DEF ReadableBy, ReadBy, ChunkBy, EndOf
<1>8. \A r, k : ScannedBy(r, k)' <=> ScannedBy(r, k)
  BY <1>4, <1>7 DEF ScannedBy
<1>9. \A first, y : Answers(first, y)' <=> Answers(first, y)
  BY <1>1, <1>6, <1>7, <1>8 DEF Answers, ByScan, ByFooter
<1>10. CASE old # None
  <2>1. reader = Fresh /\ reader.version = 1
    BY <1>1, <1>2, <1>10 DEF ReaderInv
  <2>2. answers' = Append(answers, Reader!ReadLinear(Fresh, image)) /\ reader' = reader
    BY <2>1 DEF Reader!ReadAll
  <2>3. AnswersInv'
    BY <1>1, <1>2, <1>6, <1>9, <1>10, <2>2, NextAnswer
  <2>4. ImageInv'
    BY <1>1, <1>2, <1>3, <1>4, <1>10 DEF ImageInv
  <2>5. ReaderInv'
    BY <1>1, <1>2, <1>3, <1>6, <1>10, <2>1, <2>2 DEF ReaderInv
  <2>6. QED
    BY <1>5, <2>3, <2>4, <2>5 DEF ReadingInv
<1>11. CASE old = None
  <2>1. PICK n : Seen(n) /\ flushed <= n
    BY <1>2, <1>3, <1>11, ImageSeen DEF WriterInv
  <2>2. Fresh.version = 2
    BY <1>2, <1>3, <1>11, ImageSeen
  <2>3. PICK index, count :
          /\ reader = ReaderWith(index, count)
          /\ \/ index = Fresh.chunk_index
             \/ /\ Fresh.chunk_index = <<>> /\ answers # <<>>
                /\ \E k : ScannedBy(Fresh, k) /\ index = SubSeq(chunk_index, 1, k)
    BY <1>1, <1>2, <1>11 DEF ReaderInv, Indexed
  <2>4. /\ reader.version = 2 /\ reader.data_offset = 2 /\ reader.chunk_index = index
        /\ reader.schemas = Fresh.schemas /\ reader.channels = Fresh.channels
    BY <2>2, <2>3 DEF ReaderWith
  <2>5. ImageInv'
    <3>1. ~open /\ \E m : Cut(m) /\ flushed <= m
      BY <1>2, <1>3, <1>11 DEF ImageInv
    <3>2. ~open' /\ \E m : Cut(m)' /\ flushed' <= m
      BY <1>1, <1>4, <3>1 DEF Cut
    <3>3. QED
      BY <1>1, <1>3, <1>11, <3>2 DEF ImageInv
  <2>6. ASSUME NEW x, answers' = Append(answers, x), Answers(Len(answers) = 0, x),
               NEW j, NEW c, reader' = ReaderWith(j, c),
               \/ j = Fresh.chunk_index
               \/ /\ Fresh.chunk_index = <<>>
                  /\ \E k : ScannedBy(Fresh, k) /\ j = SubSeq(chunk_index, 1, k)
        PROVE  ReaderInv' /\ AnswersInv'
    <3>1. AnswersInv' /\ answers' # <<>>
      BY <1>1, <1>2, <1>6, <1>9, <1>11, <2>6, NextAnswer
    <3>2. Indexed'
      <4>1. reader' = ReaderWith(j, c)'
        BY <1>6, <2>6 DEF ReaderWith
      <4>2. j = Fresh'.chunk_index \/
              (Fresh'.chunk_index = <<>> /\ \E k : ScannedBy(Fresh, k)' /\ j = SubSeq(chunk_index', 1, k))
        <5>1. \A k : ScannedBy(Fresh, k)' <=> ScannedBy(Fresh, k)
          BY <1>6, <1>8
        <5>2. QED
          BY <1>4, <1>6, <2>6, <5>1
      <4>3. QED
        BY <3>1, <4>1, <4>2 DEF Indexed
    <3>3. reader'.state = "open"
      BY <2>6 DEF ReaderWith
    <3>4. ReaderInv'
      BY <1>1, <1>3, <1>11, <3>2, <3>3 DEF ReaderInv
    <3>5. QED
      BY <3>1, <3>4
  <2>7. CASE index # <<>>
    <3>1. answers' = Append(answers, Reader!ReadByIndex(reader, image)) /\ reader' = reader
      BY <2>4, <2>7 DEF Reader!ReadAll
    <3>2. Answers(Len(answers) = 0, Reader!ReadByIndex(reader, image))
      <4>1. CASE index = Fresh.chunk_index
        BY <2>1, <2>4, <2>7, <4>1, FooterAnswer
      <4>2. CASE index # Fresh.chunk_index
        <5>1. PICK k : ScannedBy(Fresh, k) /\ index = SubSeq(chunk_index, 1, k)
          BY <2>3, <4>2
        <5>2. Fresh.chunk_index = <<>> /\ answers # <<>>
          BY <2>3, <4>2
        <5>3. Answers(FALSE, Reader!ReadByIndex(reader, image))
          BY <2>1, <2>4, <5>1, <5>2, RereadAnswer
        <5>4. (Len(answers) = 0) = FALSE
          BY <1>2, <5>2 DEF AnswersInv
        <5>5. QED
          BY <5>3, <5>4
      <4>3. QED
        BY <4>1, <4>2
    <3>3. ReaderInv' /\ AnswersInv'
      BY <2>3, <2>6, <3>1, <3>2
    <3>4. QED
      BY <1>5, <2>5, <3>3 DEF ReadingInv
  <2>8. CASE index = <<>>
    <3> DEFINE s == Reader!ScanFrom(reader, image, 2)
               x == IF s.ok THEN Reader!Success(s.msgs) ELSE Reader!Failure
    <3>1. /\ answers' = Append(answers, x)
          /\ reader' = [reader EXCEPT !.chunk_index = s.index,
                                      !.msg_count = IF s.ok THEN Len(s.msgs) ELSE @]
      BY <2>4, <2>8 DEF Reader!ReadAll
    <3>2. PICK c : c = IF s.ok THEN Len(s.msgs) ELSE count
      OBVIOUS
    <3>3. reader' = ReaderWith(s.index, c)
      BY <2>3, <3>1, <3>2 DEF ReaderWith
    <3>4. Fresh.chunk_index = <<>>
      BY <2>3, <2>8
    <3>5. /\ Answers(Len(answers) = 0, x)
          /\ \E k : ScannedBy(Fresh, k) /\ s.index = SubSeq(chunk_index, 1, k)
      BY <2>1, <2>4, <3>4, ScanAnswer
    <3> HIDE DEF s, x
    <3>6. ReaderInv' /\ AnswersInv'
      BY <2>6, <3>1, <3>3, <3>4, <3>5
    <3>7. QED
      BY <1>5, <2>5, <3>6 DEF ReadingInv
  <2>9. QED
    BY <2>7, <2>8
<1>12. QED
  BY <1>10, <1>11

------------------------------------------------------------------------------
(* Files of the linear format *)

\* The image of a linear file.
OldImage(name, schema, msgs, n) ==
  /\ n \in 0..Len(OldFile(name, schema, msgs))
  /\ image = SubSeq(OldFile(name, schema, msgs), 1, n)
  /\ old = [i \in 1..Len(msgs) |->
              [id |-> i, stamp |-> msgs[i].stamp, channel |-> name, schema |-> schema,
               end |-> OldEnd(msgs, i)]]

OldInv ==
  old # None =>
    \E name \in Names, schema \in SchemaKeys, msgs \in OldMessages, n \in Nat :
      OldImage(name, schema, msgs, n)

RecordingInv == WriterInv /\ ReadingInv /\ OldInv

LEMMA OldMessageTypes ==
  ASSUME NEW msgs \in OldMessages
  PROVE  /\ msgs \in Seq(Message)
         /\ \A i \in 1..Len(msgs) : msgs[i].id = i /\ msgs[i].ch = 1
<1>1. PICK n \in 0..MaxMessages : \E stamps \in [1..n -> Stamps], lens \in [1..n -> Lens \cup {0}] :
        msgs = [i \in 1..n |-> [id |-> i, ch |-> 1, stamp |-> stamps[i], len |-> lens[i]]]
  BY SMTT(30) DEF OldMessages
<1>2. PICK stamps \in [1..n -> Stamps], lens \in [1..n -> Lens \cup {0}] :
        msgs = [i \in 1..n |-> [id |-> i, ch |-> 1, stamp |-> stamps[i], len |-> lens[i]]]
  BY <1>1
<1>3. n \in Nat
  BY <1>1, WriterAssumption
<1>4. ASSUME NEW i \in 1..n
      PROVE  /\ [id |-> i, ch |-> 1, stamp |-> stamps[i], len |-> lens[i]] \in Message
             /\ msgs[i] = [id |-> i, ch |-> 1, stamp |-> stamps[i], len |-> lens[i]]
  <2>1. stamps[i] \in Stamps /\ lens[i] \in Lens \cup {0}
    OBVIOUS
  <2>2. stamps[i] \in Nat /\ lens[i] \in Nat /\ i \in Nat
    <3>1. Stamps \subseteq Nat /\ Lens \subseteq Nat /\ 0 \in Nat
      BY WriterAssumption
    <3>2. i \in Nat
      BY <1>3
    <3>3. QED
      BY <2>1, <3>1, <3>2
  <2>3. QED
    BY <1>2, <2>2 DEF Message
<1>5. Len(msgs) = n
  BY <1>2, <1>3
<1>6. msgs \in Seq(Message)
  BY <1>2, <1>3, <1>4
<1>7. ASSUME NEW i \in 1..Len(msgs) PROVE msgs[i].id = i /\ msgs[i].ch = 1
  <2>1. i \in 1..n
    BY <1>5
  <2>2. msgs[i] = [id |-> i, ch |-> 1, stamp |-> stamps[i], len |-> lens[i]]
    BY <1>4, <2>1
  <2>3. QED
    BY <2>2
<1>8. QED
  BY <1>6, <1>7

LEMMA OldFileType ==
  ASSUME NEW name \in Names, NEW schema \in SchemaKeys, NEW msgs \in OldMessages
  PROVE  /\ OldHeader(name, schema) \in Seq(LinearCell) /\ Len(OldHeader(name, schema)) = 2
         /\ [i \in 1..Len(msgs) |-> RecordCells(msgs[i])] \in Seq(Seq(LinearCell))
         /\ <<LinearEndCell, LinearCountCell(Len(msgs))>> \in Seq(LinearCell)
         /\ OldFile(name, schema, msgs) \in Seq(LinearCell)
         /\ OldHeader(name, schema)[1] = LinearMagicCell
<1>1. LinearMagicCell \in LinearCell /\ LinearEndCell \in LinearCell
  BY DEF LinearMagicCell, LinearEndCell, LinearCell
<1>2. DeclCell(<<[id |-> 1, key |-> schema]>>,
               <<[id |-> 1, name |-> name, schema_id |-> 1]>>) \in LinearCell
  <2>1. [id |-> 1, key |-> schema] \in Schema /\ [id |-> 1, name |-> name, schema_id |-> 1] \in Channel
    BY DEF Schema, Channel
  <2>2. <<[id |-> 1, key |-> schema]>> \in Seq(Schema)
        /\ <<[id |-> 1, name |-> name, schema_id |-> 1]>> \in Seq(Channel)
    BY <2>1
  <2>3. QED
    BY <2>2 DEF DeclCell, LinearCell
<1>3. /\ OldHeader(name, schema) \in Seq(LinearCell) /\ Len(OldHeader(name, schema)) = 2
      /\ OldHeader(name, schema)[1] = LinearMagicCell
  BY <1>1, <1>2 DEF OldHeader
<1>4. msgs \in Seq(Message) /\ Len(msgs) \in Nat
  BY OldMessageTypes
<1>5. \A i \in 1..Len(msgs) : RecordCells(msgs[i]) \in Seq(LinearCell)
  <2>1. ASSUME NEW m \in Message PROVE RecordCells(m) \in Seq(LinearCell)
    <3>1. [kind |-> "record", msg |-> m] \in LinearCell /\ [kind |-> "payload", msg |-> m] \in LinearCell
      BY DEF LinearCell
    <3>2. QED
      BY <3>1 DEF RecordCells
  <2>2. QED
    BY <1>4, <2>1
<1>6. [i \in 1..Len(msgs) |-> RecordCells(msgs[i])] \in Seq(Seq(LinearCell))
  BY <1>4, <1>5
<1>7. LinearCountCell(Len(msgs)) \in LinearCell
  BY <1>4 DEF LinearCountCell, LinearCell
<1>8. <<LinearEndCell, LinearCountCell(Len(msgs))>> \in Seq(LinearCell)
  BY <1>1, <1>7
<1>9. Reader!FlattenSeq([i \in 1..Len(msgs) |-> RecordCells(msgs[i])]) \in Seq(LinearCell)
  BY <1>6, FlattenType
<1>10. OldFile(name, schema, msgs) \in Seq(LinearCell)
  BY <1>3, <1>8, <1>9 DEF OldFile
<1>11. QED
  BY <1>3, <1>6, <1>8, <1>10

LEMMA ConcatKeeps ==
  ASSUME NEW S, NEW s \in Seq(S), NEW t \in Seq(S)
  PROVE  /\ s \o t \in Seq(S) /\ Len(s \o t) = Len(s) + Len(t)
         /\ \A k \in 1..Len(s) : (s \o t)[k] = s[k]
         /\ \A k \in 1..Len(t) : (s \o t)[Len(s) + k] = t[k]
  OBVIOUS

LEMMA OldFront ==
  ASSUME NEW name \in Names, NEW schema \in SchemaKeys, NEW msgs \in OldMessages
  PROVE  /\ Len(OldFile(name, schema, msgs)) >= 2
         /\ OldFile(name, schema, msgs)[1] = LinearMagicCell
         /\ OldFile(name, schema, msgs)[2] = OldHeader(name, schema)[2]
<1>1. PICK h, m, t : /\ h = OldHeader(name, schema)
                     /\ m = Reader!FlattenSeq([i \in 1..Len(msgs) |-> RecordCells(msgs[i])])
                     /\ t = <<LinearEndCell, LinearCountCell(Len(msgs))>>
  OBVIOUS
<1>2. h \in Seq(LinearCell) /\ Len(h) = 2 /\ t \in Seq(LinearCell) /\ h[1] = LinearMagicCell
  BY <1>1, OldFileType
<1>3. m \in Seq(LinearCell)
  BY <1>1, OldFileType, FlattenType
<1>4. OldFile(name, schema, msgs) = h \o m \o t
  BY <1>1 DEF OldFile
<1>5. Len(h \o m \o t) >= 2 /\ (h \o m \o t)[1] = h[1] /\ (h \o m \o t)[2] = h[2]
  <2>1. h \o m \in Seq(LinearCell) /\ Len(h \o m) = Len(h) + Len(m)
        /\ \A k \in 1..Len(h) : (h \o m)[k] = h[k]
    BY <1>2, <1>3, ConcatKeeps, ZenonT(30)
  <2>2. PICK hm \in Seq(LinearCell) : hm = h \o m
    BY <2>1
  <2>3. /\ Len(hm \o t) = Len(hm) + Len(t)
        /\ \A k \in 1..Len(hm) : (hm \o t)[k] = hm[k]
    BY <1>2, ConcatKeeps
  <2>4. Len(m) \in Nat /\ Len(t) \in Nat /\ Len(hm) \in Nat
    BY <1>2, <1>3
  <2>5. Len(hm) >= 2 /\ hm[1] = h[1] /\ hm[2] = h[2]
    BY <1>2, <2>1, <2>2, <2>4
  <2>6. QED
    BY <2>2, <2>3, <2>4, <2>5
<1>6. QED
  BY <1>1, <1>2, <1>4, <1>5

LEMMA OldIsLinear ==
  ASSUME OldInv, old # None, Reader!HeaderValid(image)
  PROVE  image[1] = LinearMagicCell
<1>1. PICK name \in Names, schema \in SchemaKeys, msgs \in OldMessages, n \in Nat :
        OldImage(name, schema, msgs, n)
  BY DEF OldInv
<1>2. PICK whole \in Seq(LinearCell) : /\ whole = OldFile(name, schema, msgs)
                                    /\ whole[1] = LinearMagicCell
  BY OldFileType, OldFront
<1>3. n \in 0..Len(whole) /\ image = SubSeq(whole, 1, n)
  BY <1>1, <1>2 DEF OldImage
<1>4. Len(image) = n /\ \A k \in 1..n : image[k] = whole[k]
  BY <1>3
<1>5. n >= 2
  BY <1>4 DEF Reader!HeaderValid
<1>6. QED
  BY <1>2, <1>4, <1>5

LEMMA WriterStarts ==
  ASSUME RecorderInit
  PROVE  WriterInv
<1>1. Init /\ Inv
  BY InitInv DEF RecorderInit
<1>2. FullInv /\ ShapeInv
  BY <1>1, InitFull, InitShape
<1>3. FilledInv
  BY <1>1 DEF Init, FilledInv
<1>4. IInv
  BY <1>1, <1>2 DEF IInv, FullInv
<1>5. AskedInv
  BY DEF RecorderInit, Init, AskedInv
<1>6. DeclInv
  BY DEF RecorderInit, Init, DeclInv
<1>7. QED
  BY <1>2, <1>3, <1>4, <1>5, <1>6 DEF WriterInv, FileInv

LEMMA OldStarts ==
  ASSUME OldInit
  PROVE  OldInv /\ image # None /\ old # None /\ RecorderInit
         /\ reader = Reader!Closed /\ answers = <<>>
<1>1. PICK name \in Names, schema \in SchemaKeys, msgs \in OldMessages :
       LET whole == OldFile(name, schema, msgs)
       IN  /\ \E n \in 0..Len(whole) : image = SubSeq(whole, 1, n)
           /\ old = [i \in 1..Len(msgs) |->
                       [id |-> i, stamp |-> msgs[i].stamp,
                        channel |-> name, schema |-> schema,
                        end |-> OldEnd(msgs, i)]]
  BY DEF OldInit
<1>2. PICK whole \in Seq(LinearCell) : whole = OldFile(name, schema, msgs)
  BY OldFileType
<1>3. PICK n \in 0..Len(whole) : image = SubSeq(whole, 1, n)
  BY <1>1, <1>2
<1>4. n \in Nat
  BY <1>2
<1>5. OldImage(name, schema, msgs, n)
  BY <1>1, <1>2, <1>3 DEF OldImage
<1>6. OldInv
  BY <1>4, <1>5 DEF OldInv
<1>7. image \in Seq(LinearCell)
  BY <1>2, <1>3, PrefixProperties
<1>8. image # None
  BY <1>7, NotNone DEF LinearCell
<1>9. old # None
  <2>1. msgs \in Seq(Message) /\ Len(msgs) \in Nat
    BY OldMessageTypes
  <2>2. ASSUME NEW i \in 1..Len(msgs)
        PROVE  [id |-> i, stamp |-> msgs[i].stamp, channel |-> name, schema |-> schema,
                end |-> OldEnd(msgs, i)] \in OldEntry
    <3>1. i \in Nat /\ msgs[i].stamp \in Nat
      <4>1. msgs[i] \in Message
        BY <2>1
      <4>2. i \in Nat
        BY <2>1
      <4>3. QED
        BY <4>1, <4>2, WriterAssumption DEF Message
    <3>2. OldEnd(msgs, i) \in Nat
      <4>1. IsFiniteSet(1..i)
        BY <3>1, FS_Interval
      <4>2. {j \in 1..i : msgs[j].len # 0} \subseteq 1..i
        OBVIOUS
      <4>3. Cardinality({j \in 1..i : msgs[j].len # 0}) \in Nat
        BY <4>1, <4>2, FS_Subset, FS_CardinalityType
      <4>4. QED
        BY <3>1, <4>3 DEF OldEnd
    <3>3. QED
      BY <3>1, <3>2 DEF OldEntry
  <2>3. old \in Seq(OldEntry)
    BY <1>1, <2>1, <2>2
  <2>4. QED
    BY <2>3, NoneAssumption
<1>10. QED
  BY <1>6, <1>8, <1>9 DEF OldInit

\* The invariant holds of a new recording and of an old linear file.
LEMMA RecordingStarts ==
  ASSUME RecordingInit
  PROVE  RecordingInv
<1>1. RecorderInit /\ reader = Reader!Closed /\ answers = <<>> /\ OldInv
      /\ (old = None <=> image = None)
  <2>1. CASE RecorderInit /\ Reader!Init /\ old = None
    BY <2>1 DEF Reader!Init, OldInv
  <2>2. CASE OldInit
    BY <2>2, OldStarts
  <2>3. QED
    BY <2>1, <2>2 DEF RecordingInit
<1>2. WriterInv
  BY <1>1, WriterStarts
<1>3. reader.state # "open"
  BY <1>1 DEF Reader!Closed
<1>4. ReaderInv /\ AnswersInv
  BY <1>1, <1>3, ClosedReads
<1>5. ImageInv
  BY <1>1 DEF ImageInv, RecorderInit, Init
<1>6. QED
  BY <1>1, <1>2, <1>4, <1>5 DEF RecordingInv, ReadingInv

\* Every step of the writer, the cut and the reader keeps it.
LEMMA RecordingSteps ==
  ASSUME RecordingInv, [RecordingNext]_recordingVars
  PROVE  RecordingInv'
<1>1. WriterInv /\ ReadingInv /\ OldInv
  BY DEF RecordingInv
<1>2. CASE WriterStep
  <2>1. old' = None
    BY <1>1, <1>2 DEF WriterStep, readerVars, ReadingInv, ImageInv
  <2>2. QED
    BY <1>1, <1>2, <2>1, WriterReads DEF RecordingInv, OldInv
<1>3. CASE CutOff
  <2>1. old' = None
    BY <1>1, <1>3 DEF CutOff, ReadingInv, ImageInv
  <2>2. QED
    BY <1>1, <1>3, <2>1, CutKeeps DEF RecordingInv, OldInv
<1>4. ASSUME image' = image, old' = old PROVE OldInv'
  BY <1>1, <1>4 DEF OldInv, OldImage
<1>5. CASE Reader!Open /\ UNCHANGED <<recorderVars, old>>
  <2>1. OldInv'
    BY <1>4, <1>5 DEF Reader!Open
  <2>2. WriterInv' /\ ReadingInv'
    BY <1>1, <1>5, OldIsLinear, OpenKeeps
  <2>3. QED
    BY <2>1, <2>2 DEF RecordingInv
<1>6. CASE Reader!ReadAll /\ UNCHANGED <<recorderVars, old>>
  <2>1. OldInv'
    BY <1>4, <1>6 DEF Reader!ReadAll
  <2>2. WriterInv' /\ ReadingInv'
    BY <1>1, <1>6, ReadKeeps
  <2>3. QED
    BY <2>1, <2>2 DEF RecordingInv
<1>7. CASE UNCHANGED recordingVars
  <2>1. UNCHANGED <<recorderVars, image, reader, answers, old>>
    BY <1>7 DEF recordingVars, readerVars
  <2>2. Frozen /\ open' = open /\ UNCHANGED readerVars
    BY <2>1 DEF recorderVars, vars, Frozen, readerVars
  <2>3. WriterInv'
    BY <1>1, <2>2, WriterFrozen DEF WriterInv, FileInv, FullInv, TypeOK
  <2>4. ReadingInv'
    BY <1>1, <2>2, ReadingFrozen
  <2>5. QED
    BY <1>4, <2>1, <2>3, <2>4 DEF RecordingInv
<1>8. QED
  BY <1>2, <1>3, <1>5, <1>6, <1>7 DEF RecordingNext, ReaderStep

\* So it always holds.
LEMMA RecordingAlways == RecordingSpec => []RecordingInv
<1>1. RecordingInit => RecordingInv
  BY RecordingStarts
<1>2. RecordingInv /\ [RecordingNext]_recordingVars => RecordingInv'
  BY RecordingSteps
<1>3. QED
  BY <1>1, <1>2, PTL DEF RecordingSpec

------------------------------------------------------------------------------
(* What was read is honest, and is read again *)

\* What is known when a file of this version is open.
FileOpened(n) ==
  /\ Seen(n) /\ flushed <= n /\ Reader!HeaderValid(image)
  /\ Reads(Fresh) /\ Fresh.version = 2 /\ FileInv /\ IInv /\ AskedInv
  /\ IdsSuffice => DeclInv

LEMMA WhenOpen ==
  ASSUME RecordingInv, old = None, reader.state = "open"
  PROVE  /\ \E n : FileOpened(n)
         /\ \A a \in 1..Len(answers) : Answers(a = 1, answers[a])
<1>1. WriterInv /\ ImageInv /\ ReaderInv /\ AnswersInv
  BY DEF RecordingInv, ReadingInv
<1>2. image # None /\ Reader!HeaderValid(image)
  BY <1>1 DEF ReaderInv
<1>3. /\ \E n : Seen(n) /\ flushed <= n
      /\ Fresh.version = 2
  BY <1>1, <1>2, ImageSeen
<1>4. Reads(Fresh)
  BY FreshIs
<1>5. \E n : FileOpened(n)
  BY <1>1, <1>2, <1>3, <1>4 DEF FileOpened, WriterInv
<1>6. \A a \in 1..Len(answers) : Answers(a = 1, answers[a])
  BY <1>1 DEF AnswersInv
<1>7. QED
  BY <1>5, <1>6

LEMMA AnsweredOpen ==
  ASSUME RecordingInv, answers # <<>> \/ \E a \in 1..Len(answers) : TRUE
  PROVE  reader.state = "open" /\ image # None
<1>1. answers # <<>>
  OBVIOUS
<1>2. QED
  BY <1>1 DEF RecordingInv, ReadingInv, ReaderInv

\* Every answer that is a success is the messages of the first so many chunks,
\* all of which can be read.
LEMMA AnswerIs ==
  ASSUME NEW n, FileOpened(n), NEW first, NEW x, Answers(first, x), x.ok
  PROVE  \E k \in 0..Len(chunk_index) :
           /\ \A i \in 1..k : ReadableBy(Fresh, i)
           /\ x = Reader!Success(ReadBy(Fresh, k))
<1>1. ~Reader!Failure.ok
  BY DEF Reader!Failure
<1>2. CASE Fresh.chunk_index = <<>>
  <2>1. PICK k : ScannedBy(Fresh, k) /\ (x = Reader!Success(ReadBy(Fresh, k)) \/ x = Reader!Failure)
    BY <1>2 DEF Answers, ByScan
  <2>2. QED
    BY <1>1, <2>1 DEF ScannedBy
<1>3. CASE Fresh.chunk_index # <<>>
  <2>1. Seen(n)
    BY DEF FileOpened
  <2>2. PICK c \in 0..Len(chunk_index) : Len(Fresh.chunk_index) = c
    BY <1>3, <2>1, FreshIndex
  <2>3. ByFooter(c, x)
    BY <1>3, <2>2 DEF Answers
  <2>4. QED
    BY <1>1, <2>2, <2>3 DEF ByFooter
<1>4. QED
  BY <1>2, <1>3

LEMMA HonestReads ==
  ASSUME RecordingInv, IdsSuffice
  PROVE  ReadsAreHonest
<1> SUFFICES ASSUME NEW a \in 1..Len(answers), old = None, answers[a].ok
             PROVE  \E k \in 0..Len(chunk_index) :
                      /\ \A i \in 1..k : Intact(i)
                      /\ answers[a].msgs = WholeChunks(k)
  BY DEF ReadsAreHonest
<1>1. reader.state = "open"
  BY AnsweredOpen
<1>2. PICK n : FileOpened(n)
  BY <1>1, WhenOpen
<1>3. Answers(a = 1, answers[a])
  BY <1>1, WhenOpen
<1>4. PICK k \in 0..Len(chunk_index) :
           /\ \A i \in 1..k : ReadableBy(Fresh, i)
           /\ answers[a] = Reader!Success(ReadBy(Fresh, k))
  BY <1>2, <1>3, AnswerIs
<1>5. DeclInv /\ AskedInv /\ Seen(n) /\ Reader!HeaderValid(image) /\ Reads(Fresh)
  BY <1>2 DEF FileOpened
<1>6. ReadBy(Fresh, k) = WholeChunks(k) /\ \A i \in 1..k : Intact(i)
  BY <1>4, <1>5, ReadIsWhole
<1>7. answers[a].msgs = WholeChunks(k)
  BY <1>4, <1>6 DEF Reader!Success
<1>8. QED
  BY <1>6, <1>7

\* As long as no u16 id has wrapped: what read_all returns are the messages of
\* the first so many chunks as they were written, each under the name it was
\* written to (read_all, scan_v2_chunks, parse_record), wherever the file was
\* cut off and whatever write_all left of a failed chunk.
THEOREM ReadsHonestly == RecordingSpec => [](IdsSuffice => ReadsAreHonest)
<1>1. RecordingInv => (IdsSuffice => ReadsAreHonest)
  BY HonestReads
<1>2. QED
  BY <1>1, RecordingAlways, PTL

\* A reader that answered answers the same again.
LEMMA SameAgain ==
  ASSUME RecordingInv
  PROVE  RereadAgrees
<1> SUFFICES ASSUME Len(answers) = 2, answers[1].ok
             PROVE  answers[2] = answers[1]
  BY DEF RereadAgrees
<1>1. 1 \in 1..Len(answers) /\ 2 \in 1..Len(answers)
  OBVIOUS
<1>2. reader.state = "open"
  BY <1>1, AnsweredOpen
<1>3. CASE old # None
  BY <1>1, <1>3 DEF RecordingInv, ReadingInv, AnswersInv
<1>4. CASE old = None
  <2>1. Answers(1 = 1, answers[1]) /\ Answers(2 = 1, answers[2])
    BY <1>1, <1>2, <1>4, WhenOpen
  <2>2. PICK n : FileOpened(n)
    BY <1>2, <1>4, WhenOpen
  <2>3. ~Reader!Failure.ok
    BY DEF Reader!Failure
  <2>4. CASE Fresh.chunk_index # <<>>
    <3>1. ByFooter(Len(Fresh.chunk_index), answers[1]) /\ ByFooter(Len(Fresh.chunk_index), answers[2])
      BY <2>1, <2>4 DEF Answers
    <3>2. QED
      BY <3>1 DEF ByFooter
  <2>5. CASE Fresh.chunk_index = <<>>
    <3>1. ByScan(1 = 1, answers[1]) /\ ByScan(2 = 1, answers[2])
      BY <2>1, <2>5 DEF Answers
    <3>2. PICK k : /\ ScannedBy(Fresh, k)
                   /\ answers[1] = Reader!Success(ReadBy(Fresh, k)) \/ answers[1] = Reader!Failure
                   /\ Reader!ScanEnds(image, EndOf(k))
      BY <3>1 DEF ByScan
    <3>3. PICK l : /\ ScannedBy(Fresh, l)
                   /\ answers[2] = Reader!Success(ReadBy(Fresh, l)) \/ answers[2] = Reader!Failure
                   /\ Reader!ScanEnds(image, EndOf(l)) => answers[2].ok
      BY <3>1 DEF ByScan
    <3>4. Len(chunk_index) \in Nat
      BY <2>2, SeenEntries DEF FileOpened
    <3>5. k = l
      BY <3>2, <3>3, <3>4, ScannedOnce
    <3>6. QED
      BY <2>3, <3>2, <3>3, <3>5
  <2>6. QED
    BY <2>4, <2>5
<1>5. QED
  BY <1>3, <1>4

\* A second read_all returns what the first one returned, although the first
\* may have filled the index in (scan_v2_chunks), for files of both formats.
THEOREM RereadsAgree == RecordingSpec => []RereadAgrees
<1>1. RecordingInv => RereadAgrees
  BY SameAgain
<1>2. QED
  BY <1>1, RecordingAlways, PTL

------------------------------------------------------------------------------
(* Where a file is cut off and can be read *)

\* The facts about the file that the proofs below use.
FileFacts(n) ==
  /\ n \in Nat /\ Len(file) \in Nat /\ n <= Len(file) /\ Len(image) = n
  /\ \A j \in 1..n : image[j] = file[j]
  /\ Len(chunk_index) \in Nat
  /\ \A i \in 1..Len(chunk_index) :
       /\ chunk_index[i].offset \in Nat /\ chunk_index[i].offset = EndOf(i - 1)
       /\ EntryEnd(chunk_index[i]) \in Nat /\ EndOf(i) = EntryEnd(chunk_index[i])
       /\ chunk_index[i].offset <= EntryEnd(chunk_index[i])
  /\ \A i, j \in 1..Len(chunk_index) :
       i <= j => EntryEnd(chunk_index[i]) <= EntryEnd(chunk_index[j])
  /\ \A i \in 0..Len(chunk_index) : EndOf(i) \in Nat
  /\ parted \in Nat \cup {-1} /\ parted # 0
  /\ header_written /\ data_offset = 2
  /\ \E w : Whole(w)

\* They hold of every file a reader has opened.
LEMMA FileIs ==
  ASSUME NEW n, Seen(n)
  PROVE  FileFacts(n)
<1>1. /\ FileInv /\ Cut(n) /\ header_written /\ data_offset = 2 /\ parted # 0
  BY DEF Seen
<1>2. n \in Nat /\ Len(file) \in Nat /\ n <= Len(file) /\ Len(image) = n
      /\ \A j \in 1..n : image[j] = file[j]
  BY <1>1, CutCells
<1>3. /\ Len(chunk_index) \in Nat
      /\ \A i \in 1..Len(chunk_index) :
              /\ chunk_index[i] \in ChunkIndex
              /\ chunk_index[i].offset \in Nat
              /\ chunk_index[i].offset = EndOf(i - 1)
      /\ \A i \in 0..Len(chunk_index) : EndOf(i) \in Nat
  BY SeenEntries
<1>4. \A i \in 1..Len(chunk_index) : EndOf(i) = EntryEnd(chunk_index[i])
  BY <1>3 DEF EndOf
<1>5. \A i \in 1..Len(chunk_index) : /\ EntryEnd(chunk_index[i]) \in Nat
                                     /\ chunk_index[i].offset <= EntryEnd(chunk_index[i])
  BY <1>3, EntrySpan
<1>6. parted \in Nat \cup {-1} /\ chunk_index \in Seq(ChunkIndex)
      /\ pos \in Nat /\ message_count \in Nat
      /\ Tiles(chunk_index, data_offset, pos, message_count)
  BY <1>1 DEF FileInv, FullInv, TypeOK, AccountsInv, ChunksTile
<1>7. ASSUME NEW i \in 1..Len(chunk_index), NEW j \in 1..Len(chunk_index), i <= j
      PROVE  EntryEnd(chunk_index[i]) <= EntryEnd(chunk_index[j])
  <2>1. CASE i = j
    BY <1>5, <2>1
  <2>2. CASE i # j
    <3>1. i < j
      BY <1>3, <1>7, <2>2
    <3>2. EntryEnd(chunk_index[i]) <= chunk_index[j].offset
      BY <1>1, <1>6, <3>1, ChunksFollow
    <3>3. PICK x \in Nat, y \in Nat, z \in Nat :
            /\ x = EntryEnd(chunk_index[i]) /\ y = chunk_index[j].offset
            /\ z = EntryEnd(chunk_index[j])
      BY <1>3, <1>5
    <3>4. x <= y /\ y <= z
      BY <1>5, <3>2, <3>3
    <3>5. x <= z
      BY <3>4
    <3>6. QED
      BY <3>3, <3>5
  <2>3. QED
    BY <2>1, <2>2
<1>8. \E w : Whole(w)
  BY <1>1, WholePrefix
<1>9. QED
  BY <1>1, <1>2, <1>3, <1>4, <1>5, <1>6, <1>7, <1>8 DEF FileFacts

\* If only declared channels were written to, what can be read in front is
\* what is complete.
LEMMA CompleteIs ==
  ASSUME NEW n, FileOpened(n), DeclInv, ContractKept, NEW k, ScannedBy(Fresh, k)
  PROVE  /\ CompleteChunks = 1..k /\ Cardinality(CompleteChunks) = k
         /\ k < Len(chunk_index) => ~(Intact(k + 1) /\ EntryEnd(chunk_index[k + 1]) <= n)
         /\ \A w : Whole(w) => k <= w
<1>1. FileFacts(n) /\ Seen(n)
  BY FileIs DEF FileOpened
<1>2. /\ n \in Nat /\ Len(image) = n /\ Len(chunk_index) \in Nat
      /\ \A i \in 1..Len(chunk_index) : EntryEnd(chunk_index[i]) \in Nat
      /\ \A i, j \in 1..Len(chunk_index) :
           i <= j => EntryEnd(chunk_index[i]) <= EntryEnd(chunk_index[j])
  BY <1>1 DEF FileFacts
<1>3. PICK w : Whole(w)
  BY <1>1 DEF FileFacts
<1>4. k \in 0..Len(chunk_index) /\ \A i \in 1..k : ReadableBy(Fresh, i)
  BY DEF ScannedBy
<1>5. \A i \in 1..k : /\ i \in 1..Len(chunk_index)
                      /\ Intact(i) /\ EntryEnd(chunk_index[i]) <= n
  BY <1>1, <1>3, <1>4, ReadableIntact
<1>6. ASSUME k < Len(chunk_index), Intact(k + 1), EntryEnd(chunk_index[k + 1]) <= n
      PROVE  FALSE
  <2>1. k + 1 \in 1..Len(chunk_index)
    BY <1>2, <1>4, <1>6
  <2>2. ReadableBy(Fresh, k + 1)
    BY <1>1, <1>6, <2>1, CompleteReadable DEF FileOpened
  <2>3. QED
    BY <1>6, <2>2 DEF ScannedBy
<1>7. ASSUME NEW i \in 1..Len(chunk_index), ~(i \in 1..k), Intact(i),
             EntryEnd(chunk_index[i]) <= n
      PROVE  FALSE
  <2>1. k < Len(chunk_index) /\ k + 1 \in 1..Len(chunk_index) /\ k + 1 <= i
    BY <1>2, <1>4, <1>7
  <2>2. i <= w /\ w \in 0..Len(chunk_index)
    BY <1>3, <1>7 DEF Whole
  <2>3. Intact(k + 1)
    <3>1. k + 1 <= w
      BY <2>1, <2>2
    <3>2. QED
      BY <1>3, <2>1, <3>1 DEF Whole
  <2>4. EntryEnd(chunk_index[k + 1]) <= EntryEnd(chunk_index[i])
    BY <1>2, <2>1
  <2>5. PICK x \in Nat, y \in Nat : /\ x = EntryEnd(chunk_index[k + 1])
                                    /\ y = EntryEnd(chunk_index[i])
    BY <1>2, <2>1
  <2>6. x <= n
    BY <1>2, <1>7, <2>4, <2>5
  <2>7. QED
    BY <1>6, <2>1, <2>3, <2>5, <2>6
<1>8. CompleteChunks = 1..k
  BY <1>2, <1>5, <1>7 DEF CompleteChunks
<1>9. Cardinality(CompleteChunks) = k
  <2>1. k \in Nat
    BY <1>4
  <2>2. Cardinality(1..k) = k
    BY <2>1, FS_Interval
  <2>3. QED
    BY <1>8, <2>2
<1>10. ASSUME NEW v, Whole(v) PROVE k <= v
  BY <1>1, <1>4, <1>10, ReadableIntact
<1>11. QED
  BY <1>6, <1>8, <1>9, <1>10

\* Where no chunk follows in an undamaged file, the scan ends.
LEMMA UndamagedEnds ==
  ASSUME NEW n, FileOpened(n), Undamaged, NEW w, Whole(w)
  PROVE  Reader!ScanEnds(image, EndOf(w))
<1>1. FileFacts(n) /\ Seen(n) /\ FileInv /\ Cut(n)
  BY FileIs DEF FileOpened, Seen
<1>2. header_written /\ data_offset \in Nat /\ parted # 0 /\ parted \in Nat \cup {-1}
  BY <1>1 DEF FileFacts
<1>3. CASE parted = -1
  BY <1>1, <1>2, <1>3, StopsThere
<1>4. CASE parted # -1
  <2>1. parted > 0 /\ EndOf(w) = parted
    BY <1>2, <1>4 DEF Whole
  <2>2. file[parted + 1] # ChunkMagicCell
    BY <1>1, <1>4, <2>1 DEF FileInv, ShapeInv, CleanInv, Undamaged
  <2>3. CASE parted + 2 > n
    <3>1. parted + Reader!ChunkHeaderLen > Len(image)
      BY <1>1, <2>3, SameCells DEF FileFacts
    <3>2. QED
      BY <2>1, <3>1 DEF Reader!ScanEnds
  <2>4. CASE ~(parted + 2 > n)
    <3>1. parted + 1 \in 1..n
      BY <1>1, <1>2, <2>1, <2>4 DEF FileFacts
    <3>2. image[parted + 1] = file[parted + 1]
      BY <1>1, <3>1 DEF FileFacts
    <3>3. image[parted + 1] # Reader!ChunkMagicCell
      BY <2>2, <3>2, SameCells
    <3>4. QED
      BY <2>1, <3>3 DEF Reader!ScanEnds
  <2>5. QED
    BY <2>3, <2>4
<1>5. QED
  BY <1>3, <1>4

\* Where such a file breaks off between chunks, the scan ends without an error.
LEMMA CutOffEnds ==
  ASSUME NEW n, FileOpened(n), DeclInv, ContractKept, NEW k, ScannedBy(Fresh, k),
         Undamaged, ~EndsInBody
  PROVE  Reader!ScanEnds(image, EndOf(k))
<1>1. FileFacts(n) /\ Seen(n) /\ FileInv /\ Cut(n)
  BY FileIs DEF FileOpened, Seen
<1>2. PICK w : Whole(w) /\ k <= w
  BY <1>1, CompleteIs DEF FileFacts
<1>3. k \in 0..Len(chunk_index) /\ w \in 0..Len(chunk_index) /\ Len(chunk_index) \in Nat
  BY <1>1, <1>2 DEF FileFacts, Whole, ScannedBy
<1>4. CASE k = w
  BY <1>2, <1>4, UndamagedEnds
<1>5. CASE k # w
  <2>1. k + 1 <= w /\ k < Len(chunk_index) /\ k + 1 \in 1..Len(chunk_index)
    BY <1>2, <1>3, <1>5
  <2>2. Intact(k + 1)
    BY <1>2, <2>1 DEF Whole
  <2>3. ~(EntryEnd(chunk_index[k + 1]) <= n)
    BY <2>1, <2>2, CompleteIs
  <2>4. PICK e : e = chunk_index[k + 1]
    OBVIOUS
  <2>5. Reader!ScanEnds(image, e.offset) <=> e.offset + 2 > n
    BY <1>1, <2>1, <2>2, <2>3, <2>4, ChunkCut
  <2>6. e.offset \in Nat /\ EntryEnd(e) \in Nat /\ n \in Nat /\ Len(image) = n
        /\ e.offset = EndOf(k)
    <3>1. PICK j \in 1..Len(chunk_index) : j = k + 1 /\ j - 1 = k
      BY <1>3, <2>1
    <3>2. /\ chunk_index[j].offset \in Nat /\ EntryEnd(chunk_index[j]) \in Nat
          /\ chunk_index[j].offset = EndOf(j - 1)
      BY <1>1 DEF FileFacts
    <3>3. n \in Nat /\ Len(image) = n
      BY <1>1 DEF FileFacts
    <3>4. QED
      BY <2>4, <3>1, <3>2, <3>3
  <2>7. n < EntryEnd(e)
    BY <2>3, <2>4, <2>6
  <2>8. ~(e.offset + 2 <= n)
    BY <2>1, <2>2, <2>4, <2>6, <2>7 DEF EndsInBody, ChunkHeaderLen
  <2>9. QED
    BY <2>5, <2>6, <2>8
<1>6. QED
  BY <1>4, <1>5

\* With a footer at the end of the image of an undamaged file, all the chunks
\* of the footer can be read, and no other is complete.
LEMMA FooterComplete ==
  ASSUME NEW n, FileOpened(n), DeclInv, ContractKept, Undamaged, Fresh.chunk_index # <<>>
  PROVE  /\ \A i \in 1..Len(Fresh.chunk_index) : ReadableBy(Fresh, i)
         /\ Cardinality(CompleteChunks) = Len(Fresh.chunk_index)
<1>1. FileFacts(n) /\ Seen(n) /\ FileInv
  BY FileIs DEF FileOpened, Seen
<1>2. PICK c \in 0..Len(chunk_index) :
        c = file[n].chunk_count /\ Len(Fresh.chunk_index) = c
  BY <1>1, FreshIndex
<1>3. /\ n \in 1..Len(file) /\ file[n].kind = "trailer" /\ Footer(n)
  BY <1>1, FreshIndex, FooterSeen
<1>4. /\ parted # -1
      /\ \A i \in 1..c : Intact(i) => EntryEnd(chunk_index[i]) <= n
      /\ \A i \in c + 1..Len(chunk_index) : ~Intact(i)
  BY <1>2, <1>3 DEF Footer
<1>5. Len(chunk_index) \in Nat /\ n \in Nat /\ Len(file) \in Nat
  BY <1>1 DEF FileFacts
<1>6. \A i \in 1..c : i \in 1..Len(chunk_index)
  BY <1>2, <1>5
<1>7. \A i \in 1..c : Intact(i)
  <2>1. CASE failures = 0
    <3>1. finished /\ \A i \in 1..file[flushed].chunk_count : Intact(i)
      BY <1>1, <1>4, <2>1 DEF FileInv, ShapeInv, CleanInv
    <3>2. flushed \in 1..Len(file) /\ \A m \in flushed + 1..Len(file) : file[m].kind # "trailer"
      BY <1>1, <3>1 DEF FileInv, ShapeInv, FinishInv
    <3>3. flushed <= n
      BY DEF FileOpened
    <3>4. n \notin flushed + 1..Len(file)
      BY <1>3, <3>2
    <3>5. n = flushed
      BY <1>3, <1>5, <3>2, <3>3, <3>4
    <3>6. QED
      BY <1>2, <3>1, <3>5
  <2>2. CASE finished /\ AllIntact
    BY <1>6, <2>2 DEF AllIntact
  <2>3. QED
    BY <1>4, <2>1, <2>2 DEF Undamaged
<1>8. ASSUME NEW i \in 1..c PROVE ReadableBy(Fresh, i)
  BY <1>1, <1>4, <1>6, <1>7, CompleteReadable DEF FileOpened
<1>9. c < Len(chunk_index) => ~ReadableBy(Fresh, c + 1)
  <2>1. SUFFICES ASSUME c < Len(chunk_index), ReadableBy(Fresh, c + 1) PROVE FALSE
    OBVIOUS
  <2>2. c + 1 \in 0..Len(chunk_index) /\ c + 1 \in c + 1..Len(chunk_index) /\ c + 1 \in 1..c + 1
        /\ \A i \in 1..c + 1 : i \in 1..c \/ i = c + 1
    BY <1>2, <1>5, <2>1
  <2>3. \A i \in 1..c + 1 : ReadableBy(Fresh, i)
    BY <1>8, <2>1, <2>2
  <2>4. PICK w : Whole(w)
    BY <1>1 DEF FileFacts
  <2>5. Intact(c + 1)
    BY <1>1, <2>2, <2>3, <2>4, ReadableIntact
  <2>6. QED
    BY <1>4, <2>2, <2>5
<1>10. ScannedBy(Fresh, c)
  BY <1>2, <1>8, <1>9 DEF ScannedBy
<1>11. Cardinality(CompleteChunks) = c
  BY <1>10, CompleteIs
<1>12. QED
  BY <1>2, <1>8, <1>11

LEMMA WholeAnswer ==
  ASSUME NEW n, FileOpened(n), DeclInv, NEW k, k \in 0..Len(chunk_index),
         \A i \in 1..k : ReadableBy(Fresh, i)
  PROVE  ReadBy(Fresh, k) = WholeChunks(k)
  BY ReadIsWhole DEF FileOpened

LEMMA ReadsBack ==
  ASSUME RecordingInv, IdsSuffice
  PROVE  CutOffReadsBack
<1> SUFFICES ASSUME old = None, Undamaged, reader.state = "open", ContractKept,
                    ~EndsInBody, NEW a \in 1..Len(answers)
             PROVE  answers[a] = Reader!Success(WholeChunks(Cardinality(CompleteChunks)))
  BY DEF CutOffReadsBack, AnswersAreWhole
<1>1. PICK n : FileOpened(n)
  BY WhenOpen
<1>2. Answers(a = 1, answers[a])
  BY WhenOpen
<1>3. DeclInv /\ Seen(n)
  BY <1>1 DEF FileOpened
<1>4. CASE Fresh.chunk_index = <<>>
  <2>1. PICK k : /\ ScannedBy(Fresh, k)
                 /\ answers[a] = Reader!Success(ReadBy(Fresh, k)) \/ answers[a] = Reader!Failure
                 /\ Reader!ScanEnds(image, EndOf(k)) => answers[a].ok
    BY <1>2, <1>4 DEF Answers, ByScan
  <2>2. Reader!ScanEnds(image, EndOf(k))
    BY <1>1, <1>3, <2>1, CutOffEnds
  <2>3. answers[a] = Reader!Success(ReadBy(Fresh, k))
    BY <2>1, <2>2 DEF Reader!Failure
  <2>4. ReadBy(Fresh, k) = WholeChunks(k)
    BY <1>1, <1>3, <2>1, WholeAnswer DEF ScannedBy
  <2>5. Cardinality(CompleteChunks) = k
    BY <1>1, <1>3, <2>1, CompleteIs
  <2>6. QED
    BY <2>3, <2>4, <2>5
<1>5. CASE Fresh.chunk_index # <<>>
  <2>1. PICK c \in 0..Len(chunk_index) : Len(Fresh.chunk_index) = c
    BY <1>3, <1>5, FreshIndex
  <2>2. /\ \A i \in 1..c : ReadableBy(Fresh, i)
        /\ Cardinality(CompleteChunks) = c
    BY <1>1, <1>3, <1>5, <2>1, FooterComplete
  <2>3. answers[a] = Reader!Success(ReadBy(Fresh, c))
    BY <1>2, <1>5, <2>1, <2>2 DEF Answers, ByFooter
  <2>4. ReadBy(Fresh, c) = WholeChunks(c)
    BY <1>1, <1>3, <2>1, <2>2, WholeAnswer
  <2>5. QED
    BY <2>2, <2>3, <2>4
<1>6. QED
  BY <1>4, <1>5

\* As long as no u16 id has wrapped: an undamaged file that breaks off anywhere
\* but in the body of a chunk is read back to its last complete chunk (open,
\* read_all), through the footer or by the scan.
THEOREM CutOffFilesReadBack == RecordingSpec => [](IdsSuffice => CutOffReadsBack)
<1>1. RecordingInv => (IdsSuffice => CutOffReadsBack)
  BY ReadsBack
<1>2. QED
  BY <1>1, RecordingAlways, PTL

------------------------------------------------------------------------------
(* What finish promises *)

\* Where the element j of the sequence i is, when f joins the sequences.
Placed(f, s, flat) ==
  /\ \A i \in 0..Len(s) : Len(f[i]) \in Nat /\ Len(f[i]) <= Len(flat)
  /\ \A i \in 1..Len(s) :
       /\ Len(f[i]) = Len(f[i - 1]) + Len(s[i])
       /\ \A j \in 1..Len(s[i]) : flat[Len(f[i - 1]) + j] = s[i][j]
  /\ \A p \in 1..Len(flat) : \E i \in 1..Len(s) : \E j \in 1..Len(s[i]) :
       p = Len(f[i - 1]) + j

LEMMA ConcatGrown ==
  ASSUME NEW M, NEW s \in Seq(M), NEW t \in Seq(M)
  PROVE  Grown(s, s \o t)
<1>1. Len(s) \in Nat /\ Len(s \o t) >= Len(s) /\ \A k \in 1..Len(s) : (s \o t)[k] = s[k]
  <2>1. Len(s \o t) = Len(s) + Len(t) /\ Len(s) \in Nat /\ Len(t) \in Nat
    OBVIOUS
  <2>2. \A k \in 1..Len(s) : (s \o t)[k] = s[k]
    OBVIOUS
  <2>3. QED
    BY <2>1, <2>2
<1>2. Len(s \o t) \in Nat
  OBVIOUS
<1>3. QED
  BY <1>1, <1>2 DEF Grown

LEMMA GrownOn ==
  ASSUME NEW M, NEW s \in Seq(M), NEW t \in Seq(M), NEW u \in Seq(M),
         Grown(s, t), Grown(t, u)
  PROVE  Grown(s, u)
<1>1. Len(s) \in Nat /\ Len(t) \in Nat /\ Len(u) \in Nat
  OBVIOUS
<1>2. QED
  BY <1>1 DEF Grown

LEMMA PlaceInside ==
  ASSUME NEW a \in Nat, NEW b \in Nat, NEW p \in Nat, ~(p <= a), p <= a + b
  PROVE  p - a \in 1..b /\ p = a + (p - a)
  OBVIOUS

LEMMA PlaceBefore ==
  ASSUME NEW a \in Nat, NEW b \in Nat, NEW l \in Nat, NEW j \in 1..b,
         NEW c \in Nat, c = a + b, c <= l
  PROVE  a + j \in 1..l
  OBVIOUS

\* Each element of the sequences has a place in the joined one, and each place
\* an element.
LEMMA FlattenPlaces ==
  ASSUME NEW M, NEW s \in Seq(Seq(M)), NEW f \in [0..Len(s) -> Seq(M)], Joins(f, s),
         NEW flat, flat = f[Len(s)]
  PROVE  Placed(f, s, flat)
<1>1. PICK n \in Nat : n = Len(s)
  OBVIOUS
<1>2. /\ \A i \in 0..n : f[i] \in Seq(M)
      /\ \A i \in 1..n : i - 1 \in 0..n /\ f[i - 1] \in Seq(M) /\ s[i] \in Seq(M)
      /\ f[n] \in Seq(M) /\ flat \in Seq(M) /\ n \in 0..n
  <2>1. \A i \in 0..n : f[i] \in Seq(M)
    BY <1>1
  <2>2. n \in 0..n /\ \A i \in 1..n : i - 1 \in 0..n
    BY <1>1
  <2>3. \A i \in 1..n : s[i] \in Seq(M)
    BY <1>1
  <2>4. QED
    BY <1>1, <2>1, <2>2, <2>3
<1>3. /\ f[0] = <<>>
      /\ \A i \in 1..n : f[i] = f[i - 1] \o s[i]
  BY <1>1 DEF Joins
<1>4. \A i \in 1..n : Grown(f[i - 1], f[i])
  BY <1>2, <1>3, ConcatGrown
<1>5. \A i \in 0..n : Grown(f[i], f[n])
  <2> DEFINE Bad == {d \in 0..n : ~Grown(f[n - d], f[n])}
  <2>1. SUFFICES Bad = {}
    <3>1. ASSUME Bad = {}, NEW i \in 0..n PROVE Grown(f[i], f[n])
      <4>1. n - i \in 0..n /\ n - (n - i) = i
        OBVIOUS
      <4>2. QED
        BY <3>1, <4>1
    <3>2. QED
      BY <3>1
  <2>2. SUFFICES ASSUME Bad # {} PROVE FALSE
    OBVIOUS
  <2>3. PICK d \in Bad : \A e \in Bad : d <= e
    <3>1. Bad \subseteq Nat
      OBVIOUS
    <3> HIDE DEF Bad
    <3>2. QED
      BY <2>2, <3>1, Least
  <2>4. d # 0
    <3>1. Grown(f[n], f[n])
      BY <1>2 DEF Grown
    <3>2. n - 0 = n
      OBVIOUS
    <3>3. QED
      BY <2>3, <3>1, <3>2
  <2>5. /\ d - 1 \in 0..n /\ n - d \in 0..n /\ n - (d - 1) \in 1..n
        /\ n - (d - 1) - 1 = n - d /\ ~(d <= d - 1)
    BY <2>4
  <2>6. Grown(f[n - (d - 1)], f[n])
    BY <2>3, <2>5
  <2>7. Grown(f[n - d], f[n - (d - 1)])
    BY <1>4, <2>5
  <2>8. Grown(f[n - d], f[n])
    <3>1. PICK a \in Seq(M), b \in Seq(M), c \in Seq(M) :
            a = f[n - d] /\ b = f[n - (d - 1)] /\ c = f[n]
      BY <1>2, <2>5, SMTT(30)
    <3>2. Grown(a, c)
      BY <2>6, <2>7, <3>1, GrownOn
    <3>3. QED
      BY <3>1, <3>2
  <2>9. QED
    BY <2>3, <2>8
<1>6. \A i \in 0..n : Len(f[i]) \in Nat /\ Len(f[i]) <= Len(flat)
  BY <1>1, <1>2, <1>5 DEF Grown
<1>7. \A i \in 1..n : Len(f[i]) = Len(f[i - 1]) + Len(s[i])
  <2>1. ASSUME NEW i \in 1..n PROVE Len(f[i]) = Len(f[i - 1]) + Len(s[i])
    <3>1. f[i - 1] \in Seq(M) /\ s[i] \in Seq(M) /\ f[i] = f[i - 1] \o s[i]
      BY <1>2, <1>3
    <3>2. QED
      BY <3>1
  <2>2. QED
    BY <2>1
<1>8. ASSUME NEW i \in 1..n, NEW j \in 1..Len(s[i])
      PROVE  f[n][Len(f[i - 1]) + j] = s[i][j]
  <2>1. PICK u \in Seq(M), v \in Seq(M) : u = f[i - 1] /\ v = s[i]
    BY <1>2
  <2>2. f[i] = u \o v /\ i \in 0..n
    <3>1. f[i] = f[i - 1] \o s[i]
      BY <1>3
    <3>2. i \in 0..n
      BY <1>1
    <3>3. QED
      BY <2>1, <3>1, <3>2
  <2>3. (u \o v)[Len(u) + j] = v[j] /\ Len(u) + j \in 1..Len(u \o v)
    <3>1. j \in 1..Len(v) /\ Len(u) \in Nat /\ Len(v) \in Nat /\ Len(u \o v) = Len(u) + Len(v)
      BY <2>1
    <3>2. (u \o v)[Len(u) + j] = v[j]
      BY <3>1
    <3>3. Len(u) + j \in 1..Len(u \o v)
      BY <3>1
    <3>4. QED
      BY <3>2, <3>3
  <2>4. f[n][Len(u) + j] = f[i][Len(u) + j]
    BY <1>5, <2>2, <2>3 DEF Grown
  <2>5. QED
    BY <2>1, <2>2, <2>3, <2>4
<1>9. ASSUME NEW p \in 1..Len(flat)
      PROVE  \E i \in 1..n : \E j \in 1..Len(s[i]) : p = Len(f[i - 1]) + j
  <2> DEFINE In == {i \in 0..n : p <= Len(f[i])}
  <2>1. In # {}
    <3>1. Len(flat) \in Nat /\ p <= Len(flat)
      BY <1>2
    <3>2. n \in In
      BY <1>1, <1>2, <3>1
    <3>3. QED
      BY <3>2
  <2>2. PICK i \in In : \A k \in In : i <= k
    <3>1. In \subseteq Nat
      OBVIOUS
    <3> HIDE DEF In
    <3>2. QED
      BY <2>1, <3>1, Least
  <2>3. i # 0
    <3>1. Len(f[0]) = 0 /\ p >= 1
      BY <1>2, <1>3
    <3>2. QED
      BY <2>2, <3>1
  <2>4. i \in 1..n /\ i - 1 \in 0..n /\ ~(i <= i - 1)
    BY <2>3
  <2>5. ~(p <= Len(f[i - 1])) /\ p <= Len(f[i])
    BY <2>2, <2>4
  <2>6. PICK a \in Nat, b \in Nat : a = Len(f[i - 1]) /\ b = Len(s[i]) /\ Len(f[i]) = a + b
    <3>1. f[i - 1] \in Seq(M) /\ s[i] \in Seq(M)
      BY <1>2, <2>4
    <3>2. Len(f[i - 1]) \in Nat /\ Len(s[i]) \in Nat
      BY <3>1
    <3>3. QED
      BY <1>7, <2>4, <3>2
  <2>7. p \in Nat
    BY <1>2
  <2>8. p - a \in 1..b /\ p = a + (p - a)
    <3>1. ~(p <= a) /\ p <= a + b
      BY <2>5, <2>6
    <3>2. QED
      BY <2>6, <2>7, <3>1, PlaceInside
  <2>9. QED
    BY <2>4, <2>6, <2>8
<1>10. QED
  BY <1>1, <1>6, <1>7, <1>8, <1>9 DEF Placed

\* What is in the sequences, and nothing else.
HasAll(flat, s) ==
  /\ \A p \in 1..Len(flat) : \E i \in 1..Len(s) : \E j \in 1..Len(s[i]) : flat[p] = s[i][j]
  /\ \A i \in 1..Len(s) : \A j \in 1..Len(s[i]) : \E p \in 1..Len(flat) : flat[p] = s[i][j]

\* The joined sequence has the elements of all the sequences.
LEMMA FlattenHas ==
  ASSUME NEW M, NEW s \in Seq(Seq(M)), NEW flat, flat = Reader!FlattenSeq(s)
  PROVE  HasAll(flat, s)
<1>1. PICK f \in [0..Len(s) -> Seq(M)] : Joins(f, s) /\ flat = f[Len(s)]
  BY FlattenIs
<1>2. Placed(f, s, flat)
  BY <1>1, FlattenPlaces
<1>3. flat \in Seq(M) /\ Len(flat) \in Nat
  BY FlattenType
<1>4. ASSUME NEW p \in 1..Len(flat)
      PROVE  \E i \in 1..Len(s) : \E j \in 1..Len(s[i]) : flat[p] = s[i][j]
  BY <1>2 DEF Placed
<1>5. ASSUME NEW i \in 1..Len(s), NEW j \in 1..Len(s[i])
      PROVE  \E p \in 1..Len(flat) : flat[p] = s[i][j]
  <2>1. i - 1 \in 0..Len(s) /\ i \in 0..Len(s) /\ s[i] \in Seq(M)
    OBVIOUS
  <2>2. PICK a \in Nat, b \in Nat, c \in Nat :
          a = Len(f[i - 1]) /\ b = Len(s[i]) /\ c = Len(f[i]) /\ c = a + b /\ c <= Len(flat)
    <3>1. Len(f[i - 1]) \in Nat /\ Len(f[i]) \in Nat /\ Len(f[i]) <= Len(flat)
      BY <1>2, <2>1 DEF Placed
    <3>2. Len(f[i]) = Len(f[i - 1]) + Len(s[i])
      BY <1>2 DEF Placed
    <3>3. Len(s[i]) \in Nat
      BY <2>1
    <3>4. QED
      BY <3>1, <3>2, <3>3
  <2>3. a + j \in 1..Len(flat)
    <3>1. j \in 1..b
      BY <2>2
    <3>2. PICK l \in Nat : l = Len(flat) /\ c <= l
      BY <1>3, <2>2
    <3>3. a + j \in 1..l
      BY <2>2, <3>1, <3>2, PlaceBefore
    <3>4. QED
      BY <3>2, <3>3
  <2>4. flat[a + j] = s[i][j]
    BY <1>2, <2>2 DEF Placed
  <2>5. QED
    BY <2>3, <2>4
<1>6. QED
  BY <1>4, <1>5 DEF HasAll

LEMMA ListOf ==
  ASSUME NEW M, NEW c \in Nat, NEW t, t = [j \in 1..c |-> t[j]], \A j \in 1..c : t[j] \in M
  PROVE  t \in Seq(M) /\ Len(t) = c
<1>1. [j \in 1..c |-> t[j]] \in Seq(M) /\ Len([j \in 1..c |-> t[j]]) = c
  OBVIOUS
<1>2. QED
  BY <1>1

\* WholeChunks has the messages the file has in those chunks.
LEMMA WholeHas ==
  ASSUME FileInv, AllIntact,
         NEW flat, flat = WholeChunks(Len(chunk_index))
  PROVE  /\ \A p \in 1..Len(flat) :
              \E i \in 1..Len(chunk_index) : \E k \in 1..chunk_index[i].msg_count :
                flat[p] = AsWritten(MsgsAt(file, chunk_index[i])[k])
         /\ \A i \in 1..Len(chunk_index) : \A k \in 1..chunk_index[i].msg_count :
              \E p \in 1..Len(flat) : flat[p] = AsWritten(MsgsAt(file, chunk_index[i])[k])
<1> DEFINE s == [i \in 1..Len(chunk_index) |->
                   [j \in 1..chunk_index[i].msg_count |->
                      AsWritten(MsgsAt(file, chunk_index[i])[j])]]
           M == {s[i][j] : i \in 1..Len(chunk_index), j \in Nat}
<1>1. Len(chunk_index) \in Nat /\ \A i \in 1..Len(chunk_index) : chunk_index[i] \in ChunkIndex
  BY DEF FileInv, FullInv, TypeOK
<1>2. \A i \in 1..Len(chunk_index) : chunk_index[i].msg_count \in Nat
  BY <1>1, EntryFields
<1>3. s \in Seq(Seq(M)) /\ Len(s) = Len(chunk_index)
  <2>1. ASSUME NEW i \in 1..Len(chunk_index) PROVE s[i] \in Seq(M)
    <3>1. \A j \in 1..chunk_index[i].msg_count : s[i][j] \in M
      BY <1>2
    <3>2. PICK c \in Nat : c = chunk_index[i].msg_count
      BY <1>2
    <3>3. s[i] = [j \in 1..c |-> s[i][j]]
      BY <3>2
    <3> HIDE DEF M, s
    <3>4. QED
      BY <3>1, <3>2, <3>3, ListOf
  <2>2. Len(s) = Len(chunk_index)
    BY <1>1
  <2> HIDE DEF M
  <2>3. QED
    BY <1>1, <2>1, <2>2
<1>4. flat = Reader!FlattenSeq(s)
  BY DEF WholeChunks
<1>5. ASSUME NEW i \in 1..Len(chunk_index)
      PROVE  /\ Len(s[i]) = chunk_index[i].msg_count
             /\ \A j \in 1..chunk_index[i].msg_count :
                  s[i][j] = AsWritten(MsgsAt(file, chunk_index[i])[j])
  BY <1>2
<1> HIDE DEF M, s
<1>6. HasAll(flat, s)
  BY <1>3, <1>4, FlattenHas
<1>7. ASSUME NEW p \in 1..Len(flat)
      PROVE  \E i \in 1..Len(chunk_index) : \E k \in 1..chunk_index[i].msg_count :
               flat[p] = AsWritten(MsgsAt(file, chunk_index[i])[k])
  <2>1. PICK i \in 1..Len(s) : \E j \in 1..Len(s[i]) : flat[p] = s[i][j]
    BY <1>6 DEF HasAll
  <2>2. PICK j \in 1..Len(s[i]) : flat[p] = s[i][j]
    BY <2>1
  <2>3. i \in 1..Len(chunk_index)
    BY <1>3
  <2>4. j \in 1..chunk_index[i].msg_count
    BY <1>5, <2>3
  <2>5. QED
    BY <1>5, <2>2, <2>3, <2>4
<1>8. ASSUME NEW i \in 1..Len(chunk_index), NEW k \in 1..chunk_index[i].msg_count
      PROVE  \E p \in 1..Len(flat) : flat[p] = AsWritten(MsgsAt(file, chunk_index[i])[k])
  <2>1. i \in 1..Len(s) /\ k \in 1..Len(s[i])
    BY <1>3, <1>5
  <2>2. \E p \in 1..Len(flat) : flat[p] = s[i][k]
    BY <1>6, <2>1 DEF HasAll
  <2>3. QED
    BY <1>5, <2>2
<1>9. QED
  BY <1>7, <1>8

\* If the footer of the last finish is in the image, every accepted message is
\* in a chunk it lists.
LEMMA KeepsAll ==
  ASSUME RecordingInv, IdsSuffice
  PROVE  FinishKeepsAll
<1> SUFFICES ASSUME finished, Undamaged, ContractKept, pending = <<>>,
                    Reader!HasTrailer(file), NEW a \in 1..Len(answers)
             PROVE  /\ answers[a].ok
                    /\ {answers[a].msgs[i] : i \in 1..Len(answers[a].msgs)} =
                         {AsWritten(accepted[i]) : i \in 1..Len(accepted)}
  BY DEF FinishKeepsAll
<1>1. reader.state = "open"
  BY AnsweredOpen
<1>2. old = None
  BY DEF RecordingInv, ReadingInv, ImageInv
<1>3. PICK n : FileOpened(n)
  BY <1>1, <1>2, WhenOpen
<1>4. FileFacts(n) /\ Seen(n) /\ FileInv /\ flushed <= n
  BY <1>3, FileIs DEF FileOpened
<1>5. n \in Nat /\ Len(file) \in Nat /\ n <= Len(file) /\ Len(image) = n
      /\ Len(chunk_index) \in Nat
  BY <1>4 DEF FileFacts
<1>6. n = Len(file) /\ n = flushed /\ n \in 1..Len(file) /\ file[n].kind = "trailer"
  <2>1. Len(file) > 0 /\ file[Len(file)].kind = "trailer"
    BY DEF Reader!HasTrailer, Reader!Last
  <2>2. flushed \in 1..Len(file) /\ \A m \in flushed + 1..Len(file) : file[m].kind # "trailer"
    BY <1>4 DEF FileInv, ShapeInv, FinishInv
  <2>3. Len(file) \notin flushed + 1..Len(file)
    BY <2>1, <2>2
  <2>4. flushed = Len(file)
    BY <1>5, <2>2, <2>3
  <2>5. QED
    BY <1>4, <1>5, <2>1, <2>2, <2>4
<1>7. Footer(n)
  BY <1>4, <1>6 DEF FileInv, ShapeInv, TrailerInv
<1>8. AllIntact
  <2>1. CASE failures = 0
    <3>1. PICK c : c = file[n].chunk_count
      OBVIOUS
    <3>2. parted # -1 /\ c <= Len(chunk_index) /\ (c < Len(chunk_index) => n < Len(file))
      BY <1>7, <3>1 DEF Footer
    <3>3. \A i \in 1..c : Intact(i)
      BY <1>4, <1>6, <2>1, <3>1, <3>2 DEF FileInv, ShapeInv, CleanInv
    <3>4. c \in Nat
      <4>1. file[n] \in Cell
        <5>1. file \in Seq(Cell)
          BY <1>4 DEF FileInv, FullInv, TypeOK
        <5>2. \A k \in 1..Len(file) : file[k] \in Cell
          BY <5>1
        <5>3. QED
          BY <1>6, <5>2
      <4>2. QED
        BY <1>6, <3>1, <4>1, TrailerTyped
    <3>5. c = Len(chunk_index)
      BY <1>5, <1>6, <3>2, <3>4
    <3>6. QED
      BY <3>3, <3>5 DEF AllIntact
  <2>2. CASE parted = -1
    BY <2>2 DEF AllIntact, Intact
  <2>3. QED
    BY <2>1, <2>2 DEF Undamaged
<1>9. \A i \in 1..Len(chunk_index) : Intact(i) /\ EntryEnd(chunk_index[i]) <= n
  <2>1. ASSUME NEW i \in 1..Len(chunk_index) PROVE EntryEnd(chunk_index[i]) <= n
    <3>1. Intact(i)
      BY <1>8 DEF AllIntact
    <3>2. InFile(chunk_index[i], MsgsAt(file, chunk_index[i]), Begin(i))
      BY <1>4, <3>1, ChunkInFile
    <3>3. QED
      BY <1>6, <3>2 DEF InFile
  <2>2. QED
    BY <1>8, <2>1 DEF AllIntact
<1>10. ~EndsInBody
  <2>1. SUFFICES ASSUME NEW i \in 1..Len(chunk_index), Len(image) < EntryEnd(chunk_index[i])
                 PROVE  FALSE
    BY DEF EndsInBody
  <2>2. EntryEnd(chunk_index[i]) \in Nat
    BY <1>4 DEF FileFacts
  <2>3. EntryEnd(chunk_index[i]) <= n
    BY <1>9
  <2>4. QED
    BY <1>5, <2>1, <2>2, <2>3
<1>11. Cardinality(CompleteChunks) = Len(chunk_index)
  <2>1. CompleteChunks = 1..Len(chunk_index)
    BY <1>5, <1>9 DEF CompleteChunks
  <2>2. PICK c \in Nat : c = Len(chunk_index)
    BY <1>5
  <2>3. Cardinality(1..c) = c
    BY FS_Interval
  <2>4. QED
    BY <2>1, <2>2, <2>3
<1>12. answers[a] = Reader!Success(WholeChunks(Len(chunk_index)))
  <2>1. CutOffReadsBack
    BY ReadsBack
  <2>2. AnswersAreWhole
    BY <1>1, <1>2, <1>10, <2>1 DEF CutOffReadsBack
  <2>3. QED
    BY <1>11, <2>2 DEF AnswersAreWhole
<1>13. answers[a].ok
  BY <1>12 DEF Reader!Success
<1>14. PICK flat : flat = WholeChunks(Len(chunk_index)) /\ answers[a].msgs = flat
  BY <1>12 DEF Reader!Success
<1>15. ASSUME NEW p \in 1..Len(flat)
       PROVE  \E i \in 1..Len(accepted) : flat[p] = AsWritten(accepted[i])
  <2>0. PICK i \in 1..Len(chunk_index) : \E k \in 1..chunk_index[i].msg_count :
          flat[p] = AsWritten(MsgsAt(file, chunk_index[i])[k])
    BY <1>4, <1>8, <1>14, WholeHas
  <2>1. PICK k \in 1..chunk_index[i].msg_count :
          flat[p] = AsWritten(MsgsAt(file, chunk_index[i])[k])
    BY <2>0
  <2>2. FromWrites(MsgsAt(file, chunk_index[i])[k])
    BY <1>4, <1>9 DEF FileInv, ShapeInv, MessagesInv
  <2>3. QED
    BY <2>1, <2>2 DEF FromWrites
<1>16. ASSUME NEW i \in 1..Len(accepted)
       PROVE  \E p \in 1..Len(flat) : flat[p] = AsWritten(accepted[i])
  <2>1. IsPending(accepted[i]) \/ IsStored(accepted[i])
    BY <1>4, <1>8 DEF FileInv, FullInv, ContentInv, PlacesInv
  <2>2. ~IsPending(accepted[i])
    BY DEF IsPending
  <2>3. PICK j \in 1..Len(chunk_index) : \E k \in 1..chunk_index[j].msg_count :
          MsgsAt(file, chunk_index[j])[k] = accepted[i]
    BY <2>1, <2>2 DEF IsStored
  <2>4. PICK k \in 1..chunk_index[j].msg_count : MsgsAt(file, chunk_index[j])[k] = accepted[i]
    BY <2>3
  <2>5. \E p \in 1..Len(flat) : flat[p] = AsWritten(MsgsAt(file, chunk_index[j])[k])
    BY <1>4, <1>8, <1>14, WholeHas
  <2>6. QED
    BY <2>4, <2>5
<1>17. {flat[i] : i \in 1..Len(flat)} = {AsWritten(accepted[i]) : i \in 1..Len(accepted)}
  <2>1. \A x \in {flat[i] : i \in 1..Len(flat)} :
          x \in {AsWritten(accepted[i]) : i \in 1..Len(accepted)}
    BY <1>15
  <2>2. \A x \in {AsWritten(accepted[i]) : i \in 1..Len(accepted)} :
          x \in {flat[i] : i \in 1..Len(flat)}
    <3>1. SUFFICES ASSUME NEW i \in 1..Len(accepted)
                   PROVE  AsWritten(accepted[i]) \in {flat[p] : p \in 1..Len(flat)}
      OBVIOUS
    <3>2. QED
      BY <1>16
  <2>3. QED
    BY <2>1, <2>2
<1>18. QED
  BY <1>13, <1>14, <1>17

\* As long as no u16 id has wrapped: what finish has put into a file is read
\* back by every later reader, every accepted message of it, however the process
\* ended after finish returned Ok.  That the machine goes on is part of it:
\* finish does not sync the file (finish, read_all).
THEOREM FinishedFilesKeepAll == RecordingSpec => [](IdsSuffice => FinishKeepsAll)
<1>1. RecordingInv => (IdsSuffice => FinishKeepsAll)
  BY KeepsAll
<1>2. QED
  BY <1>1, RecordingAlways, PTL

------------------------------------------------------------------------------
(* read_v1_all, record by record *)

\* One record, and what is read behind it.
Record(r, m, rest) ==
  IF Reader!KnownRecord(r, m) /\ rest.ok
  THEN Reader!Success(<<Reader!Parsed(r, m)>> \o rest.msgs)
  ELSE Reader!Failure

\* What the linear read finds from each position and count on.
ReadsOn(r, img, read) ==
  /\ Reader!ReadLinear(r, img) = read[<<r.data_offset, 0>>]
  /\ \A p \in Nat, c \in Nat :
       /\ Reader!LinearEnds(r, img, p, c) => read[<<p, c>>] = Reader!Success(<<>>)
       /\ ~Reader!LinearEnds(r, img, p, c) =>
            read[<<p, c>>] =
              Record(r, img[p + 1].msg,
                     read[<<p + Len(RecordCells(img[p + 1].msg)), c + 1>>])

LEMMA RecordLength ==
  ASSUME NEW m
  PROVE  /\ Len(RecordCells(m)) \in Nat /\ Len(RecordCells(m)) >= 1
         /\ Len(Reader!RecordCells(m)) = Len(RecordCells(m))
         /\ RecordCells(m)[1] = [kind |-> "record", msg |-> m]
<1>1. Reader!RecordCells(m) = RecordCells(m)
  BY DEF Reader!RecordCells, RecordCells
<1>2. CASE m.len = 0
  BY <1>1, <1>2 DEF RecordCells
<1>3. CASE m.len # 0
  BY <1>1, <1>3 DEF RecordCells
<1>4. QED
  BY <1>2, <1>3

\* read_v1_all from a position is the record there and what is read behind it.
LEMMA LinearUnfolds ==
  ASSUME NEW r, NEW img, Len(img) \in Nat
  PROVE  \E read : ReadsOn(r, img, read)
<1> DEFINE D == Nat \X Nat
           M == {Reader!Parsed(r, img[p + 1].msg) : p \in Nat}
           T == [ok : BOOLEAN, msgs : Seq(M)]
           n == Len(img)
           rank == [d \in D |-> IF d[1] <= n THEN n - d[1] ELSE 0]
           next(d) == <<d[1] + Len(RecordCells(img[d[1] + 1].msg)), d[2] + 1>>
           value(d, g) == IF Reader!LinearEnds(r, img, d[1], d[2]) THEN Reader!Success(<<>>)
                          ELSE Record(r, img[d[1] + 1].msg, g[next(d)])
           F == [d \in D |-> [g \in [D -> T] |-> value(d, g)]]
           Body(f) == [at \in Nat \X Nat |->
             IF Reader!LinearEnds(r, img, at[1], at[2]) THEN Reader!Success(<<>>)
             ELSE IF Reader!KnownRecord(r, img[at[1] + 1].msg)
                     /\ f[<<at[1] + Len(Reader!RecordCells(img[at[1] + 1].msg)), at[2] + 1>>].ok
                  THEN Reader!Success(
                         <<Reader!Parsed(r, img[at[1] + 1].msg)>>
                           \o f[<<at[1] + Len(Reader!RecordCells(img[at[1] + 1].msg)), at[2] + 1>>].msgs)
                  ELSE Reader!Failure]
           read == CHOOSE f : f = Body(f)
<1>1. \A d \in D : d[1] \in Nat /\ d[2] \in Nat /\ d = <<d[1], d[2]>>
  OBVIOUS
<1>2. \A d \in D : next(d) \in D
  <2>1. ASSUME NEW d \in D PROVE next(d) \in D
    <3>1. Len(RecordCells(img[d[1] + 1].msg)) \in Nat
      BY RecordLength
    <3>2. QED
      BY <1>1, <3>1
  <2>2. QED
    BY <2>1
<1>3. rank \in [D -> 0..n]
  <2>1. \A d \in D : rank[d] \in 0..n
    BY <1>1
  <2>2. QED
    BY <2>1
<1>4. Reader!Success(<<>>) \in T /\ Reader!Failure \in T
  BY DEF Reader!Success, Reader!Failure
<1>5. ASSUME NEW d \in D, NEW g \in [D -> T] PROVE value(d, g) \in T
  <2>1. CASE Reader!LinearEnds(r, img, d[1], d[2])
    BY <1>4, <2>1
  <2>2. CASE ~Reader!LinearEnds(r, img, d[1], d[2])
    <3>1. PICK rest \in T : rest = g[next(d)]
      BY <1>2
    <3>2. Reader!Parsed(r, img[d[1] + 1].msg) \in M
      BY <1>1
    <3>3. rest.msgs \in Seq(M)
      BY <3>1
    <3>4. <<Reader!Parsed(r, img[d[1] + 1].msg)>> \o rest.msgs \in Seq(M)
      <4> HIDE DEF M
      <4>1. QED
        BY <3>2, <3>3
    <3>5. Record(r, img[d[1] + 1].msg, rest) \in T
      <4> HIDE DEF M
      <4>1. QED
        BY <1>4, <3>4 DEF Record, Reader!Success
    <3>6. QED
      BY <2>2, <3>1, <3>5
  <2>3. QED
    BY <2>1, <2>2
<1>6. F \in [D -> [[D -> T] -> T]]
  <2> HIDE DEF D, T, value
  <2>1. QED
    BY <1>5
<1>7. \A d \in D, g \in [D -> T] : F[d][g] = value(d, g)
  OBVIOUS
<1>8. ASSUME NEW d \in D, NEW g \in [D -> T], NEW h \in [D -> T],
             \A e \in D : rank[e] < rank[d] => g[e] = h[e]
      PROVE  F[d][g] = F[d][h]
  <2>1. CASE Reader!LinearEnds(r, img, d[1], d[2])
    <3>1. value(d, g) = value(d, h)
      BY <2>1
    <3>2. QED
      BY <1>7, <3>1
  <2>2. CASE ~Reader!LinearEnds(r, img, d[1], d[2])
    <3>1. ~(d[1] >= n)
      BY <2>2 DEF Reader!LinearEnds
    <3>2. PICK e \in D : e = next(d)
      BY <1>2
    <3>3. PICK p \in Nat, q \in Nat, l \in Nat :
            /\ p = d[1] /\ q = e[1] /\ l = n
      BY <1>1
    <3>4. q > p
      <4>0. PICK m : m = img[d[1] + 1].msg
        OBVIOUS
      <4>1. Len(RecordCells(m)) \in Nat /\ Len(RecordCells(m)) >= 1
        BY RecordLength
      <4>2. PICK k \in Nat : k = Len(RecordCells(m)) /\ k >= 1
        BY <4>1
      <4>3. e[1] = d[1] + k
        BY <3>2, <4>0, <4>2
      <4>4. q = p + k
        BY <3>3, <4>3
      <4>5. QED
        BY <4>2, <4>4
    <3>5. rank[d] = l - p /\ rank[e] = IF q <= l THEN l - q ELSE 0
      BY <3>1, <3>3
    <3>6. ~(p >= l)
      BY <3>1, <3>3
    <3>7. rank[e] < rank[d]
      <4> HIDE DEF rank
      <4>1. QED
        BY <3>4, <3>5, <3>6
    <3>8. g[e] = h[e]
      BY <1>8, <3>7
    <3>9. value(d, g) = value(d, h)
      BY <3>2, <3>8
    <3>10. QED
      BY <1>7, <3>9
  <2>3. QED
    BY <2>1, <2>2
<1>9. PICK f \in [D -> T] : \A d \in D : f[d] = value(d, f)
  <2> HIDE DEF T, F, rank, D, value
  <2>1. PICK t \in T : t = Reader!Failure
    BY <1>4
  <2>2. n \in Nat
    OBVIOUS
  <2>3. Descends(D, T, n, rank, t, F)
    BY <1>3, <1>6, <1>8, <2>2 DEF Descends
  <2>4. PICK f : Computes(D, T, F, f)
    BY <2>3, RecursionExists
  <2>5. f \in [D -> T] /\ \A d \in D : f[d] = F[d][f]
    BY <2>4 DEF Computes
  <2>6. QED
    BY <1>7, <2>5
<1>10. \A p \in Nat, c \in Nat : f[<<p, c>>] = Body(f)[<<p, c>>]
  <2>1. SUFFICES ASSUME NEW p \in Nat, NEW c \in Nat PROVE f[<<p, c>>] = Body(f)[<<p, c>>]
    OBVIOUS
  <2>2. <<p, c>> \in D /\ <<p, c>>[1] = p /\ <<p, c>>[2] = c
    OBVIOUS
  <2>3. f[<<p, c>>] = IF Reader!LinearEnds(r, img, p, c) THEN Reader!Success(<<>>)
                      ELSE Record(r, img[p + 1].msg, f[<<p + Len(RecordCells(img[p + 1].msg)), c + 1>>])
    BY <1>9, <2>2
  <2>4. Len(Reader!RecordCells(img[p + 1].msg)) = Len(RecordCells(img[p + 1].msg))
    BY RecordLength
  <2>5. QED
    BY <2>3, <2>4 DEF Record
<1>11. f = Body(f)
  <2>1. f = [d \in D |-> f[d]]
    OBVIOUS
  <2>2. Body(f) = [d \in D |-> Body(f)[d]]
    OBVIOUS
  <2>3. ASSUME NEW d \in D PROVE f[d] = Body(f)[d]
    <3>1. PICK p \in Nat, c \in Nat : d = <<p, c>>
      BY <1>1
    <3>2. f[<<p, c>>] = Body(f)[<<p, c>>]
      BY <1>10
    <3> HIDE DEF Body
    <3>3. QED
      BY <3>1, <3>2
  <2> HIDE DEF D, T, Body
  <2>4. QED
    BY <2>1, <2>2, <2>3
<1>12. read = Body(read)
  <2> HIDE DEF D, T, Body
  <2>1. QED
    BY <1>11, Zenon
<1>13. Reader!ReadLinear(r, img) = read[<<r.data_offset, 0>>]
  BY DEF Reader!ReadLinear
<1> HIDE DEF read
<1>14. ASSUME NEW p \in Nat, NEW c \in Nat
       PROVE  /\ Reader!LinearEnds(r, img, p, c) => read[<<p, c>>] = Reader!Success(<<>>)
              /\ ~Reader!LinearEnds(r, img, p, c) =>
                   read[<<p, c>>] =
                     Record(r, img[p + 1].msg,
                            read[<<p + Len(RecordCells(img[p + 1].msg)), c + 1>>])
  <2>1. read[<<p, c>>] = Body(read)[<<p, c>>]
    BY <1>12
  <2>2. Len(Reader!RecordCells(img[p + 1].msg)) = Len(RecordCells(img[p + 1].msg))
    BY RecordLength
  <2>3. QED
    BY <2>1, <2>2 DEF Record
<1>15. QED
  BY <1>13, <1>14 DEF ReadsOn

------------------------------------------------------------------------------
(* The layout of a linear file *)

LEMMA OldEndNext ==
  ASSUME NEW msgs, NEW i \in Nat, i >= 1
  PROVE  /\ OldEnd(msgs, 0) = 2
         /\ OldEnd(msgs, i - 1) \in Nat
         /\ OldEnd(msgs, i) = OldEnd(msgs, i - 1) + Len(RecordCells(msgs[i]))
<1> DEFINE C(k) == {j \in 1..k : msgs[j].len # 0}
<1>1. \A k \in Nat : IsFiniteSet(C(k)) /\ Cardinality(C(k)) \in Nat
  <2>1. ASSUME NEW k \in Nat PROVE IsFiniteSet(C(k)) /\ Cardinality(C(k)) \in Nat
    <3>1. IsFiniteSet(1..k)
      BY FS_Interval
    <3>2. C(k) \subseteq 1..k
      OBVIOUS
    <3>3. QED
      BY <3>1, <3>2, FS_Subset, FS_CardinalityType
  <2>2. QED
    BY <2>1
<1>2. i - 1 \in Nat
  OBVIOUS
<1>3. OldEnd(msgs, 0) = 2
  <2>1. C(0) = {}
    OBVIOUS
  <2>2. Cardinality(C(0)) = 0
    BY <2>1, FS_EmptySet
  <2>3. QED
    BY <2>2 DEF OldEnd
<1>4. OldEnd(msgs, i) = OldEnd(msgs, i - 1) + Len(RecordCells(msgs[i]))
  <2>1. PICK a \in Nat, b \in Nat : a = Cardinality(C(i - 1)) /\ b = Cardinality(C(i))
    BY <1>1, <1>2
  <2>2. OldEnd(msgs, i - 1) = 2 + (i - 1) + a /\ OldEnd(msgs, i) = 2 + i + b
    BY <2>1 DEF OldEnd
  <2>3. CASE msgs[i].len = 0
    <3>1. C(i) = C(i - 1)
      BY <2>3
    <3>2. Len(RecordCells(msgs[i])) = 1
      BY <2>3 DEF RecordCells
    <3>3. b = a
      BY <2>1, <3>1
    <3>4. 2 + i + b = 2 + (i - 1) + a + 1
      BY <2>1, <3>3
    <3>5. QED
      BY <2>2, <3>2, <3>4
  <2>4. CASE msgs[i].len # 0
    <3>1. C(i) = C(i - 1) \cup {i} /\ i \notin C(i - 1)
      BY <2>4
    <3>2. b = a + 1
      BY <1>1, <1>2, <2>1, <3>1, FS_AddElement
    <3>3. Len(RecordCells(msgs[i])) = 2
      BY <2>4 DEF RecordCells
    <3>4. 2 + i + b = 2 + (i - 1) + a + 2
      BY <2>1, <3>2
    <3>5. QED
      BY <2>2, <3>3, <3>4
  <2>5. QED
    BY <2>3, <2>4
<1>5. OldEnd(msgs, i - 1) \in Nat
  <2>1. PICK a \in Nat : a = Cardinality(C(i - 1))
    BY <1>1, <1>2
  <2>2. OldEnd(msgs, i - 1) = 2 + (i - 1) + a
    BY <2>1 DEF OldEnd
  <2>3. QED
    BY <1>2, <2>1, <2>2
<1>6. QED
  BY <1>3, <1>4, <1>5

\* Where the messages and the footer of a linear file are.
Laid(whole, msgs, N) ==
  /\ N \in Nat /\ Len(whole) = OldEnd(msgs, N) + 2
  /\ OldEnd(msgs, 0) = 2
  /\ \A i \in 0..N : OldEnd(msgs, i) \in Nat
  /\ \A i \in 1..N :
       /\ OldEnd(msgs, i) = OldEnd(msgs, i - 1) + Len(RecordCells(msgs[i]))
       /\ OldEnd(msgs, i - 1) < OldEnd(msgs, i)
       /\ whole[OldEnd(msgs, i - 1) + 1] = [kind |-> "record", msg |-> msgs[i]]
  /\ \A i, j \in 0..N : i <= j => OldEnd(msgs, i) <= OldEnd(msgs, j)
  /\ whole[OldEnd(msgs, N) + 1] = LinearEndCell
  /\ whole[OldEnd(msgs, N) + 2] = LinearCountCell(N)
  /\ \A p \in 1..OldEnd(msgs, N) + 1 : whole[p].kind # "count1"

\* What lies where in a sequence of three parts.
ThreeParts(j, s, t, u) ==
  /\ Len(j) = Len(s) + Len(t) + Len(u)
  /\ \A k \in 1..Len(s) : j[k] = s[k]
  /\ \A k \in 1..Len(t) : j[Len(s) + k] = t[k]
  /\ \A k \in 1..Len(u) : j[Len(s) + Len(t) + k] = u[k]

LEMMA JoinedThree ==
  ASSUME NEW S, NEW s \in Seq(S), NEW t \in Seq(S), NEW u \in Seq(S)
  PROVE  ThreeParts(s \o t \o u, s, t, u)
  BY DEF ThreeParts

LEMMA Regroup ==
  ASSUME NEW a \in Nat, NEW c \in Nat
  PROVE  2 + a + c = 2 + (a + c)
  OBVIOUS

\* The ends of the records are in their order.
LEMMA OldEndsRise ==
  ASSUME NEW msgs, NEW N \in Nat
  PROVE  \A i, j \in 0..N : i <= j => OldEnd(msgs, i) <= OldEnd(msgs, j)
<1>1. SUFFICES ASSUME NEW i \in 0..N, NEW j \in 0..N, i <= j
               PROVE  OldEnd(msgs, i) <= OldEnd(msgs, j)
  OBVIOUS
<1> DEFINE C(k) == {l \in 1..k : msgs[l].len # 0}
<1>2. IsFiniteSet(1..j) /\ C(j) \subseteq 1..j /\ C(i) \subseteq C(j) /\ C(i) \subseteq 1..j
  BY <1>1, FS_Interval
<1>3. PICK a \in Nat, b \in Nat : a = Cardinality(C(i)) /\ b = Cardinality(C(j)) /\ a <= b
  <2>1. IsFiniteSet(C(j)) /\ IsFiniteSet(C(i))
    BY <1>2, FS_Subset
  <2>2. Cardinality(C(j)) \in Nat /\ Cardinality(C(i)) \in Nat
    BY <2>1, FS_CardinalityType
  <2>3. Cardinality(C(i)) <= Cardinality(C(j))
    BY <1>2, <2>1, FS_Subset
  <2>4. QED
    BY <2>2, <2>3
<1>4. OldEnd(msgs, i) = 2 + i + a /\ OldEnd(msgs, j) = 2 + j + b
  BY <1>3 DEF OldEnd
<1>5. QED
  BY <1>1, <1>3, <1>4

\* Each record of a linear file is where OldEnd has it.
LEMMA OldPlaces ==
  ASSUME NEW name \in Names, NEW schema \in SchemaKeys, NEW msgs \in OldMessages,
         NEW whole, whole = OldFile(name, schema, msgs)
  PROVE  Laid(whole, msgs, Len(msgs))
<1>1. PICK h, m, t, s : /\ h = OldHeader(name, schema)
                        /\ s = [i \in 1..Len(msgs) |-> RecordCells(msgs[i])]
                        /\ m = Reader!FlattenSeq(s)
                        /\ t = <<LinearEndCell, LinearCountCell(Len(msgs))>>
  OBVIOUS
<1>2. /\ h \in Seq(LinearCell) /\ Len(h) = 2 /\ s \in Seq(Seq(LinearCell))
      /\ t \in Seq(LinearCell)
  BY <1>1, OldFileType
<1>3. m \in Seq(LinearCell)
  BY <1>1, <1>2, FlattenType
<1>4. PICK N \in Nat : N = Len(msgs) /\ Len(s) = N
  <2>1. Len(msgs) \in Nat
    BY OldMessageTypes
  <2>2. QED
    BY <1>1, <2>1
<1>5. \A i \in 1..N : s[i] = RecordCells(msgs[i])
  BY <1>1, <1>4
<1>6. PICK f \in [0..N -> Seq(LinearCell)] : Joins(f, s) /\ m = f[N]
  BY <1>1, <1>2, <1>4, FlattenIs
<1>7. Placed(f, s, m)
  BY <1>2, <1>4, <1>6, FlattenPlaces
<1>8. /\ OldEnd(msgs, 0) = 2
      /\ \A i \in 1..N : OldEnd(msgs, i) = OldEnd(msgs, i - 1) + Len(RecordCells(msgs[i]))
      /\ \A i \in 0..N : OldEnd(msgs, i) \in Nat
  <2>1. \A i \in 1..N : i \in Nat /\ i >= 1
    BY <1>4
  <2>2. \A i \in 0..N : i + 1 \in Nat /\ i + 1 >= 1 /\ i + 1 - 1 = i
    BY <1>4
  <2>3. 1 \in Nat /\ 1 >= 1
    OBVIOUS
  <2>4. OldEnd(msgs, 0) = 2
    BY <2>3, OldEndNext
  <2>5. \A i \in 1..N : OldEnd(msgs, i) = OldEnd(msgs, i - 1) + Len(RecordCells(msgs[i]))
    BY <2>1, OldEndNext
  <2>6. ASSUME NEW i \in 0..N PROVE OldEnd(msgs, i) \in Nat
    <3>1. PICK j \in Nat : j >= 1 /\ j - 1 = i
      BY <2>2
    <3>2. OldEnd(msgs, j - 1) \in Nat
      BY <3>1, OldEndNext
    <3>3. QED
      BY <3>1, <3>2
  <2>7. QED
    BY <2>2, <2>4, <2>5, <2>6
<1>9. \A i \in 0..N : OldEnd(msgs, i) = 2 + Len(f[i])
  <2> DEFINE g == [i \in 0..N |-> OldEnd(msgs, i)]
             k == [i \in 0..N |-> 2 + Len(f[i])]
  <2>1. g[0] = k[0]
    BY <1>4, <1>6, <1>8 DEF Joins
  <2>2. ASSUME NEW i \in 1..N, g[i - 1] = k[i - 1] PROVE g[i] = k[i]
    <3>1. i - 1 \in 0..N /\ i \in 0..N
      BY <1>4
    <3>2. Len(f[i]) = Len(f[i - 1]) + Len(s[i])
      BY <1>4, <1>7 DEF Placed
    <3>3. OldEnd(msgs, i) = OldEnd(msgs, i - 1) + Len(RecordCells(msgs[i]))
      BY <1>8
    <3>4. Len(s[i]) = Len(RecordCells(msgs[i])) /\ Len(RecordCells(msgs[i])) \in Nat
      BY <1>5, RecordLength
    <3>5. Len(f[i - 1]) \in Nat
      BY <1>4, <1>7, <3>1 DEF Placed
    <3>6. OldEnd(msgs, i - 1) = 2 + Len(f[i - 1])
      BY <2>2, <3>1
    <3>7. OldEnd(msgs, i) = 2 + Len(f[i])
      <4>1. PICK a \in Nat, c \in Nat :
              a = Len(f[i - 1]) /\ c = Len(RecordCells(msgs[i]))
        BY <3>4, <3>5
      <4>2. OldEnd(msgs, i) = 2 + a + c
        BY <3>3, <3>6, <4>1
      <4>3. Len(f[i]) = a + c
        BY <3>2, <3>4, <4>1
      <4>4. 2 + a + c = 2 + (a + c)
        BY <4>1, Regroup
      <4>5. QED
        BY <4>2, <4>3, <4>4
    <3>8. QED
      BY <3>1, <3>7
  <2> HIDE DEF g, k
  <2>3. Agree(g, k, N)
    BY <2>1, <2>2 DEF Agree
  <2>4. \A i \in 0..N : g[i] = k[i]
    BY <2>3, StepByStep
  <2>5. QED
    BY <2>4 DEF g, k
<1>10. whole = h \o m \o t
  BY <1>1 DEF OldFile
<1>11. PICK l \in Nat : l = Len(m) /\ OldEnd(msgs, N) = 2 + l
  <2>1. N \in 0..N
    BY <1>4
  <2>2. QED
    BY <1>3, <1>6, <1>9, <2>1
<1>12. /\ Len(whole) = 2 + l + 2
       /\ \A k \in 1..2 : whole[k] = h[k]
       /\ \A k \in 1..l : whole[2 + k] = m[k]
       /\ \A k \in 1..2 : whole[2 + l + k] = t[k]
  <2>1. Len(t) = 2
    BY <1>1
  <2>2. ThreeParts(h \o m \o t, h, m, t)
    BY <1>2, <1>3, JoinedThree
  <2>3. ThreeParts(whole, h, m, t)
    BY <1>10, <2>2
  <2>4. QED
    BY <1>2, <1>11, <2>1, <2>3 DEF ThreeParts
<1>13. ASSUME NEW i \in 1..N
       PROVE  /\ OldEnd(msgs, i - 1) < OldEnd(msgs, i)
              /\ whole[OldEnd(msgs, i - 1) + 1] = [kind |-> "record", msg |-> msgs[i]]
  <2>1. i - 1 \in 0..N /\ i \in 0..N
    BY <1>4
  <2>2. PICK c \in Nat : c = Len(RecordCells(msgs[i])) /\ c >= 1
    BY RecordLength
  <2>3. PICK a \in Nat : a = Len(f[i - 1])
    BY <1>4, <1>7, <2>1 DEF Placed
  <2>4. OldEnd(msgs, i - 1) = 2 + a /\ OldEnd(msgs, i) = 2 + a + c
    BY <1>8, <1>9, <2>1, <2>2, <2>3
  <2>5. Len(s[i]) = c /\ 1 \in 1..Len(s[i])
    BY <1>5, <2>2
  <2>6. m[a + 1] = s[i][1]
    BY <1>4, <1>7, <2>3, <2>5 DEF Placed
  <2>7. a + c <= l
    <3>1. Len(f[i]) <= Len(m) /\ OldEnd(msgs, i) = 2 + Len(f[i]) /\ Len(f[i]) \in Nat
      BY <1>4, <1>7, <1>9, <2>1 DEF Placed
    <3>2. QED
      BY <1>11, <2>4, <3>1
  <2>8. a + 1 \in 1..l /\ 2 + a + 1 = 2 + (a + 1)
    BY <2>2, <2>7
  <2>9. whole[2 + (a + 1)] = m[a + 1]
    BY <1>12, <2>8
  <2>10. s[i][1] = [kind |-> "record", msg |-> msgs[i]]
    BY <1>5, RecordLength
  <2>11. OldEnd(msgs, i - 1) + 1 = 2 + (a + 1)
    BY <2>4, <2>8
  <2>12. whole[OldEnd(msgs, i - 1) + 1] = [kind |-> "record", msg |-> msgs[i]]
    BY <2>6, <2>9, <2>10, <2>11
  <2>13. 2 + a < 2 + a + c
    BY <2>2
  <2>14. QED
    BY <2>4, <2>12, <2>13
<1>14. t[1] = LinearEndCell /\ t[2] = LinearCountCell(N)
  BY <1>1, <1>4
<1>15. whole[2 + l + 1] = LinearEndCell /\ whole[2 + l + 2] = LinearCountCell(N)
  BY <1>12, <1>14
<1>16. ASSUME NEW p \in 1..2 + l + 1 PROVE whole[p].kind # "count1"
  <2>1. CASE p \in 1..2
    <3>1. h[1].kind = "magic1" /\ h[2].kind = "decl"
      BY <1>1 DEF OldHeader, LinearMagicCell, DeclCell
    <3>2. whole[p] = h[p] /\ (p = 1 \/ p = 2)
      BY <1>12, <2>1
    <3>3. QED
      BY <3>1, <3>2
  <2>2. CASE p \in 3..2 + l
    <3>1. PICK q \in 1..l : p = 2 + q
      <4>1. p - 2 \in 1..l /\ p = 2 + (p - 2)
        BY <2>2
      <4>2. QED
        BY <4>1
    <3>2. whole[p] = m[q]
      BY <1>12, <3>1
    <3>3. PICK i \in 1..N : \E j \in 1..Len(s[i]) : q = Len(f[i - 1]) + j
      BY <1>4, <1>7, <1>11, ZenonT(30) DEF Placed
    <3>4. PICK j \in 1..Len(s[i]) : q = Len(f[i - 1]) + j
      BY <3>3
    <3>5. m[q] = s[i][j]
      BY <1>4, <1>7, <3>4 DEF Placed
    <3>6. s[i][j].kind \in {"record", "payload"}
      <4>1. s[i] = RecordCells(msgs[i])
        BY <1>5
      <4>2. CASE msgs[i].len = 0
        <5>1. s[i] = <<[kind |-> "record", msg |-> msgs[i]]>>
          BY <4>1, <4>2 DEF RecordCells
        <5>2. j = 1
          BY <5>1
        <5>3. QED
          BY <5>1, <5>2
      <4>3. CASE msgs[i].len # 0
        <5>1. s[i] = <<[kind |-> "record", msg |-> msgs[i]], [kind |-> "payload", msg |-> msgs[i]]>>
          BY <4>1, <4>3 DEF RecordCells
        <5>2. j = 1 \/ j = 2
          BY <5>1
        <5>3. QED
          BY <5>1, <5>2
      <4>4. QED
        BY <4>2, <4>3
    <3>7. QED
      BY <3>2, <3>5, <3>6
  <2>3. CASE p = 2 + l + 1
    BY <1>15, <2>3 DEF LinearEndCell
  <2>4. QED
    BY <1>11, <2>1, <2>2, <2>3
<1>17. \A i, j \in 0..N : i <= j => OldEnd(msgs, i) <= OldEnd(msgs, j)
  BY <1>4, OldEndsRise
<1>18. Len(whole) = OldEnd(msgs, N) + 2
  BY <1>11, <1>12
<1>19. QED
  BY <1>4, <1>8, <1>11, <1>13, <1>15, <1>16, <1>17, <1>18 DEF Laid

------------------------------------------------------------------------------
(* What a reader sees of a linear file *)

\* What a linear file of N records shows of them when n cells are left of it:
\* the first m are complete.
OldView(whole, msgs, n, m) ==
  /\ Laid(whole, msgs, Len(msgs))
  /\ n \in Nat /\ n >= 2 /\ Len(image) = n /\ n <= Len(whole)
  /\ \A p \in 1..n : image[p] = whole[p]
  /\ m \in 0..Len(msgs) /\ OldEnd(msgs, m) <= n
  /\ m < Len(msgs) => n < OldEnd(msgs, m + 1)

\* m records end in the first n cells.
Counted(msgs, n, m) == Cardinality({i \in 1..Len(msgs) : OldEnd(msgs, i) <= n}) = m

\* How a message of a linear file is returned.
AsOld(name, schema, x) ==
  [id |-> x.id, stamp |-> x.stamp, channel |-> name, schema |-> schema]

\* Some number of records ends in the first n cells, and these are the first
\* ones.
LEMMA CompleteRecords ==
  ASSUME NEW whole, NEW msgs, NEW n \in Nat, n >= 2, Laid(whole, msgs, Len(msgs))
  PROVE  \E m \in 0..Len(msgs) :
           /\ OldEnd(msgs, m) <= n
           /\ m < Len(msgs) => n < OldEnd(msgs, m + 1)
           /\ Cardinality({i \in 1..Len(msgs) : OldEnd(msgs, i) <= n}) = m
<1>1. PICK N \in Nat : N = Len(msgs)
  BY DEF Laid
<1>2. /\ \A i \in 0..N : OldEnd(msgs, i) \in Nat
      /\ \A i, j \in 0..N : i <= j => OldEnd(msgs, i) <= OldEnd(msgs, j)
      /\ OldEnd(msgs, 0) = 2
  BY <1>1 DEF Laid
<1> DEFINE I == {i \in 1..N : OldEnd(msgs, i) <= n}
           D == {d \in 0..N : OldEnd(msgs, N - d) <= n}
<1>3. N \in D
  <2>1. N - N = 0 /\ N \in 0..N
    OBVIOUS
  <2>2. QED
    BY <1>2, <2>1
<1>4. PICK d \in D : \A e \in D : d <= e
  <2>1. D \subseteq Nat
    OBVIOUS
  <2> HIDE DEF D
  <2>2. D # {}
    BY <1>3
  <2>3. QED
    BY <2>1, <2>2, Least
<1>5. PICK m \in 0..N : m = N - d /\ OldEnd(msgs, m) <= n
  BY <1>4
<1>6. ASSUME m < N PROVE n < OldEnd(msgs, m + 1)
  <2>1. m + 1 = N - (d - 1) /\ d - 1 \in 0..N /\ ~(d <= d - 1) /\ m + 1 \in 0..N
    BY <1>4, <1>5, <1>6
  <2>2. d - 1 \notin D
    BY <1>4, <2>1
  <2>3. ~(OldEnd(msgs, m + 1) <= n)
    BY <2>1, <2>2
  <2>4. OldEnd(msgs, m + 1) \in Nat
    BY <1>2, <2>1
  <2>5. QED
    BY <2>3, <2>4
<1>7. ASSUME NEW i \in 1..N PROVE OldEnd(msgs, i) <= n <=> i <= m
  <2>1. CASE i <= m
    <3>1. i \in 0..N /\ m \in 0..N
      BY <1>5
    <3>2. OldEnd(msgs, i) <= OldEnd(msgs, m)
      BY <1>2, <2>1, <3>1
    <3>3. PICK x \in Nat, y \in Nat : x = OldEnd(msgs, i) /\ y = OldEnd(msgs, m)
      BY <1>2, <3>1
    <3>4. x <= n
      BY <1>5, <3>2, <3>3
    <3>5. QED
      BY <2>1, <3>3, <3>4
  <2>2. CASE ~(i <= m)
    <3>1. m < N /\ m + 1 <= i /\ m + 1 \in 0..N /\ i \in 0..N
      BY <1>5, <2>2
    <3>2. OldEnd(msgs, m + 1) <= OldEnd(msgs, i)
      BY <1>2, <3>1
    <3>3. PICK x \in Nat, y \in Nat : x = OldEnd(msgs, i) /\ y = OldEnd(msgs, m + 1)
      BY <1>2, <3>1
    <3>4. n < y /\ y <= x
      BY <1>6, <3>1, <3>2, <3>3
    <3>5. ~(x <= n)
      BY <3>4
    <3>6. QED
      BY <2>2, <3>3, <3>5
  <2>3. QED
    BY <2>1, <2>2
<1>8. I = 1..m
  BY <1>5, <1>7
<1>9. Cardinality(I) = m
  <2>1. m \in Nat
    BY <1>5
  <2>2. Cardinality(1..m) = m
    BY <2>1, FS_Interval
  <2> HIDE DEF I
  <2>3. QED
    BY <1>8, <2>2
<1>10. QED
  BY <1>1, <1>5, <1>6, <1>9

\* The head of a list of the elements of v behind k.
LEMMA OneMore ==
  ASSUME NEW m \in Nat, NEW v, NEW k \in Nat, k < m
  PROVE  <<v[k + 1]>> \o [i \in 1..m - (k + 1) |-> v[k + 1 + i]] = [i \in 1..m - k |-> v[k + i]]
<1> DEFINE M == {v[k + i] : i \in 1..m - k}
           t == [i \in 1..m - (k + 1) |-> v[k + 1 + i]]
           h == <<v[k + 1]>>
           w == [i \in 1..m - k |-> v[k + i]]
<1>1. h \in Seq(M) /\ Len(h) = 1 /\ h[1] = v[k + 1]
  OBVIOUS
<1>2. t \in Seq(M) /\ Len(t) = m - (k + 1)
  <2>1. ASSUME NEW i \in 1..m - (k + 1) PROVE v[k + 1 + i] \in M
    <3>1. i + 1 \in 1..m - k /\ k + (i + 1) = k + 1 + i
      OBVIOUS
    <3>2. QED
      BY <3>1
  <2>2. m - (k + 1) \in Nat
    OBVIOUS
  <2> HIDE DEF M
  <2>3. QED
    BY <2>1, <2>2
<1>3. \A i \in 1..m - (k + 1) : t[i] = v[k + 1 + i]
  OBVIOUS
<1> HIDE DEF M, t, h
<1>4. PICK u \in Seq(M) :
        /\ u = h \o t /\ Len(u) = Len(h) + Len(t)
        /\ \A i \in 1..Len(h) : u[i] = h[i]
        /\ \A i \in 1..Len(t) : u[Len(h) + i] = t[i]
  <2>1. h \in Seq(M) /\ t \in Seq(M)
    BY <1>1, <1>2
  <2>2. /\ h \o t \in Seq(M) /\ Len(h \o t) = Len(h) + Len(t)
        /\ \A i \in 1..Len(h) : (h \o t)[i] = h[i]
        /\ \A i \in 1..Len(t) : (h \o t)[Len(h) + i] = t[i]
    BY ONLY <2>1, ConcatKeeps
  <2>3. QED
    BY ONLY <2>2
<1>5. PICK l \in Nat : l = m - (k + 1) /\ m - k = l + 1
  OBVIOUS
<1>6. /\ Len(u) = l + 1 /\ u[1] = v[k + 1]
      /\ \A i \in 1..l : u[1 + i] = v[k + 1 + i]
  <2>1. 1 \in 1..1
    OBVIOUS
  <2>2. QED
    BY <1>1, <1>2, <1>3, <1>4, <1>5, <2>1
<1>7. ASSUME NEW i \in 1..l + 1 PROVE u[i] = v[k + i]
  <2>1. CASE i = 1
    BY <1>6, <2>1
  <2>2. CASE i # 1
    <3>1. PICK j \in 1..l : i = 1 + j
      <4>1. i - 1 \in 1..l /\ i = 1 + (i - 1)
        BY <2>2
      <4>2. QED
        BY <4>1
    <3>2. k + 1 + j = k + i
      BY <3>1
    <3>3. QED
      BY <1>6, <3>1, <3>2
  <2>3. QED
    BY <2>1, <2>2
<1>8. u = [i \in 1..l + 1 |-> u[i]]
  <2>1. Len(u) = l + 1
    BY <1>6
  <2> HIDE DEF w
  <2>2. QED
    BY <2>1
<1>9. u = w
  BY <1>5, <1>7, <1>8
<1>10. QED
  BY <1>4, <1>9 DEF h, t

\* Each record of a linear file is known, on the one channel it declares.
LEMMA OldDecls ==
  ASSUME NEW name, NEW schema, image[2] = OldHeader(name, schema)[2], NEW x, x.ch = 1
  PROVE  /\ Reader!KnownRecord(Fresh, x)
         /\ Reader!Parsed(Fresh, x) = AsOld(name, schema, x)
<1>1. PICK s, c : /\ s = <<[id |-> 1, key |-> schema]>>
                  /\ c = <<[id |-> 1, name |-> name, schema_id |-> 1]>>
  OBVIOUS
<1>2. Fresh.schemas = s /\ Fresh.channels = c
  BY <1>1 DEF Fresh, Reader!Opened, OldHeader, DeclCell
<1>3. /\ Len(s) = 1 /\ s[1].id = 1 /\ s[1].key = schema
      /\ Len(c) = 1 /\ c[1].id = 1 /\ c[1].name = name /\ c[1].schema_id = 1
  BY <1>1
<1>4. /\ Len(s) \in Nat /\ \A i \in 1..Len(s) : s[i].id = i
      /\ Len(c) \in Nat /\ \A i \in 1..Len(c) : c[i].id = i
  <2>1. \A i \in 1..1 : i = 1
    OBVIOUS
  <2>2. QED
    BY <1>3, <2>1
<1>5. 1 \in 1..Len(s) /\ 1 \in 1..Len(c)
  BY <1>3
<1>6. Reader!ById(s, 1) = 1
  BY <1>4, <1>5, ByIdIs
<1>7. Reader!ById(c, 1) = 1
  BY <1>4, <1>5, ByIdIs
<1>8. Reader!KnownRecord(Fresh, x)
  BY <1>2, <1>3, <1>6, <1>7 DEF Reader!KnownRecord
<1>9. Reader!Parsed(Fresh, x) = AsOld(name, schema, x)
  BY <1>2, <1>3, <1>6, <1>7 DEF Reader!Parsed, AsOld
<1>10. QED
  BY <1>8, <1>9

\* What the reader knows after opening a linear file.
LEMMA OldFresh ==
  ASSUME NEW name \in Names, NEW schema \in SchemaKeys, NEW msgs \in OldMessages,
         NEW n, OldImage(name, schema, msgs, n), Reader!HeaderValid(image)
  PROVE  /\ \E m : /\ OldView(OldFile(name, schema, msgs), msgs, n, m)
                   /\ Counted(msgs, n, m)
         /\ Fresh.chunk_index = <<>>
         /\ Fresh.msg_count = IF n = Len(OldFile(name, schema, msgs)) THEN Len(msgs) ELSE None
         /\ \A x : x.ch = 1 => /\ Reader!KnownRecord(Fresh, x)
                               /\ Reader!Parsed(Fresh, x) = AsOld(name, schema, x)
<1>1. PICK whole : whole = OldFile(name, schema, msgs)
  OBVIOUS
<1>2. /\ whole \in Seq(LinearCell) /\ Len(whole) >= 2
      /\ whole[2] = OldHeader(name, schema)[2]
  BY <1>1, OldFileType, OldFront
<1>3. n \in 0..Len(whole) /\ image = SubSeq(whole, 1, n)
  BY <1>1 DEF OldImage
<1>4. /\ image \in Seq(LinearCell) /\ Len(image) = n /\ n \in Nat
      /\ \A p \in 1..n : image[p] = whole[p]
  BY <1>2, <1>3, PrefixProperties
<1>5. n >= 2
  BY <1>4 DEF Reader!HeaderValid
<1>6. Laid(whole, msgs, Len(msgs))
  BY <1>1, OldPlaces
<1>7. PICK m : /\ OldView(whole, msgs, n, m)
               /\ Counted(msgs, n, m)
  <2>1. PICK m \in 0..Len(msgs) :
           /\ OldEnd(msgs, m) <= n
           /\ m < Len(msgs) => n < OldEnd(msgs, m + 1)
           /\ Cardinality({i \in 1..Len(msgs) : OldEnd(msgs, i) <= n}) = m
    BY <1>4, <1>5, <1>6, CompleteRecords
  <2>2. n <= Len(whole)
    BY <1>3
  <2>3. QED
    BY <1>4, <1>5, <1>6, <2>1, <2>2 DEF OldView, Counted
<1>8. PICK last : last = image[n] /\ last \in LinearCell /\ Reader!Last(image) = last
  BY <1>4, <1>5 DEF Reader!Last
<1>9. last.kind # "trailer"
  BY <1>8 DEF LinearCell
<1>10. ~Reader!HasTrailer(image)
  BY <1>8, <1>9 DEF Reader!HasTrailer
<1>11. PICK N \in Nat, e \in Nat :
         /\ N = Len(msgs) /\ e = OldEnd(msgs, N) /\ Len(whole) = e + 2
         /\ whole[e + 2] = LinearCountCell(N)
         /\ \A p \in 1..e + 1 : whole[p].kind # "count1"
  <2>1. Len(msgs) \in Nat /\ OldEnd(msgs, Len(msgs)) \in Nat
    <3>1. Len(msgs) \in Nat
      BY <1>6 DEF Laid
    <3>2. Len(msgs) \in 0..Len(msgs)
      BY <3>1
    <3>3. QED
      BY <1>6, <3>1, <3>2 DEF Laid
  <2>2. QED
    BY <1>6, <2>1 DEF Laid
<1>12. Fresh.msg_count = IF last.kind = "count1" THEN last.msg_count ELSE None
  BY <1>8, <1>10 DEF Fresh, Reader!Opened, Reader!LinearCount
<1>13. Fresh.msg_count = IF n = Len(whole) THEN N ELSE None
  <2>1. CASE n = Len(whole)
    <3>1. last = LinearCountCell(N)
      BY <1>4, <1>5, <1>8, <1>11, <2>1
    <3>2. last.kind = "count1" /\ last.msg_count = N
      BY <3>1 DEF LinearCountCell
    <3>3. QED
      BY <1>12, <2>1, <3>2
  <2>2. CASE n # Len(whole)
    <3>1. n \in 1..e + 1
      BY <1>3, <1>4, <1>5, <1>11, <2>2
    <3>2. last.kind # "count1"
      BY <1>4, <1>5, <1>8, <1>11, <3>1
    <3>3. QED
      BY <1>12, <2>2, <3>2
  <2>3. QED
    BY <2>1, <2>2
<1>14. Fresh.chunk_index = <<>>
  BY <1>10 DEF Fresh, Reader!Opened
<1>15. image[2] = OldHeader(name, schema)[2]
  BY <1>2, <1>4, <1>5
<1>16. QED
  BY <1>1, <1>7, <1>11, <1>13, <1>14, <1>15, OldDecls

\* The linear read goes on as long as there is a complete record.
LEMMA GoesOn ==
  ASSUME NEW whole, NEW msgs, NEW n, NEW m, OldView(whole, msgs, n, m),
         Fresh.msg_count \in {Len(msgs), None}, NEW k \in Nat, k < m
  PROVE  /\ ~Reader!LinearEnds(Fresh, image, OldEnd(msgs, k), k)
         /\ image[OldEnd(msgs, k) + 1].msg = msgs[k + 1]
         /\ OldEnd(msgs, k) + Len(RecordCells(msgs[k + 1])) = OldEnd(msgs, k + 1)
<1>1. PICK N \in Nat : N = Len(msgs)
  BY DEF OldView, Laid
<1>2. k + 1 \in 1..N /\ k \in 0..N /\ k + 1 \in 0..N /\ m \in 0..N /\ k + 1 <= m
  BY <1>1 DEF OldView
<1>3. PICK a \in Nat, b \in Nat, c \in Nat :
        a = OldEnd(msgs, k) /\ b = OldEnd(msgs, k + 1) /\ c = OldEnd(msgs, m)
  BY <1>1, <1>2 DEF OldView, Laid
<1>4. b <= c /\ c <= n /\ n \in Nat /\ Len(image) = n
  BY <1>1, <1>2, <1>3 DEF OldView, Laid
<1>5. /\ b = a + Len(RecordCells(msgs[k + 1])) /\ a < b
      /\ whole[a + 1] = [kind |-> "record", msg |-> msgs[k + 1]]
  <2>1. PICK j \in 1..N : j = k + 1 /\ j - 1 = k
    BY <1>2
  <2>2. /\ OldEnd(msgs, j) = OldEnd(msgs, j - 1) + Len(RecordCells(msgs[j]))
        /\ OldEnd(msgs, j - 1) < OldEnd(msgs, j)
        /\ whole[OldEnd(msgs, j - 1) + 1] = [kind |-> "record", msg |-> msgs[j]]
    BY <1>1 DEF OldView, Laid
  <2>3. QED
    BY <1>3, <2>1, <2>2
<1>6. a + 1 \in 1..n /\ ~(a >= n)
  BY <1>4, <1>5
<1>7. image[a + 1] = [kind |-> "record", msg |-> msgs[k + 1]]
  BY <1>5, <1>6 DEF OldView
<1>8. image[a + 1] # LinearEndCell /\ image[a + 1].msg = msgs[k + 1]
  BY <1>7 DEF LinearEndCell
<1>9. Reader!LinearEndCell = LinearEndCell
  BY DEF Reader!LinearEndCell, LinearEndCell
<1>10. Len(Reader!RecordCells(msgs[k + 1])) = Len(RecordCells(msgs[k + 1]))
  BY RecordLength
<1>11. ~(a + Len(Reader!RecordCells(image[a + 1].msg)) > Len(image))
  BY <1>4, <1>5, <1>8, <1>10
<1>12. Fresh.msg_count # None => ~(k >= Fresh.msg_count)
  <2>1. Fresh.msg_count # None => Fresh.msg_count = N
    BY <1>1
  <2>2. ~(k >= N)
    BY <1>2
  <2>3. QED
    BY <2>1, <2>2
<1>13. ~Reader!LinearEnds(Fresh, image, a, k)
  BY <1>4, <1>6, <1>8, <1>9, <1>11, <1>12 DEF Reader!LinearEnds
<1>14. QED
  BY <1>3, <1>5, <1>8, <1>13

\* It ends behind the last complete record.
LEMMA EndsThere ==
  ASSUME NEW whole, NEW msgs, NEW n, NEW m, OldView(whole, msgs, n, m)
  PROVE  Reader!LinearEnds(Fresh, image, OldEnd(msgs, m), m)
<1>1. PICK N \in Nat : N = Len(msgs)
  BY DEF OldView, Laid
<1>2. m \in 0..N /\ n \in Nat /\ Len(image) = n
  BY <1>1 DEF OldView
<1>3. PICK a \in Nat : a = OldEnd(msgs, m)
  BY <1>1, <1>2 DEF OldView, Laid
<1>4. CASE a >= n
  BY <1>2, <1>3, <1>4 DEF Reader!LinearEnds
<1>5. CASE ~(a >= n)
  <2>1. a + 1 \in 1..n
    BY <1>2, <1>5
  <2>2. image[a + 1] = whole[a + 1]
    BY <2>1 DEF OldView
  <2>3. CASE m = N
    <3>1. whole[a + 1] = LinearEndCell
      BY <1>1, <1>3, <2>3 DEF OldView, Laid
    <3>2. Reader!LinearEndCell = LinearEndCell
      BY DEF Reader!LinearEndCell, LinearEndCell
    <3>3. QED
      BY <1>3, <2>2, <3>1, <3>2 DEF Reader!LinearEnds
  <2>4. CASE m # N
    <3>1. PICK j \in 1..N : j = m + 1 /\ j - 1 = m
      <4>1. PICK j : j = m + 1
        OBVIOUS
      <4>2. j \in 1..N /\ j - 1 = m
        BY <1>2, <2>4, <4>1
      <4>3. QED
        BY <4>1, <4>2
    <3>2. /\ OldEnd(msgs, j) = OldEnd(msgs, j - 1) + Len(RecordCells(msgs[j]))
          /\ whole[OldEnd(msgs, j - 1) + 1] = [kind |-> "record", msg |-> msgs[j]]
      BY <1>1 DEF OldView, Laid
    <3>3. n < OldEnd(msgs, j)
      <4>1. m < N
        BY <1>2, <2>4
      <4>2. QED
        BY <1>1, <3>1, <4>1 DEF OldView
    <3>4. image[a + 1].msg = msgs[j]
      BY <1>3, <2>2, <3>1, <3>2
    <3>5. PICK l \in Nat : l = Len(RecordCells(msgs[j]))
                           /\ Len(Reader!RecordCells(msgs[j])) = l
      BY RecordLength
    <3>6. n < a + l
      BY <1>3, <3>1, <3>2, <3>3, <3>5
    <3>7. a + l > n
      BY <1>2, <3>6
    <3>8. a + Len(Reader!RecordCells(image[a + 1].msg)) > Len(image)
      BY <1>2, <3>4, <3>5, <3>7
    <3>9. QED
      BY <1>3, <3>8 DEF Reader!LinearEnds
  <2>5. QED
    BY <2>3, <2>4
<1>6. QED
  BY <1>4, <1>5

\* read_v1_all returns the complete records, each under the declared channel.
LEMMA OldReads ==
  ASSUME NEW name \in Names, NEW schema \in SchemaKeys, NEW msgs \in OldMessages,
         NEW n, NEW m, OldView(OldFile(name, schema, msgs), msgs, n, m),
         Fresh.msg_count \in {Len(msgs), None},
         \A x : x.ch = 1 => /\ Reader!KnownRecord(Fresh, x)
                            /\ Reader!Parsed(Fresh, x) = AsOld(name, schema, x)
  PROVE  Reader!ReadLinear(Fresh, image) =
           Reader!Success([i \in 1..m |-> AsOld(name, schema, msgs[i])])
<1> DEFINE v == [i \in 1..m |-> AsOld(name, schema, msgs[i])]
           found(k) == Reader!Success([i \in 1..m - k |-> v[k + i]])
<1>1. PICK N \in Nat : N = Len(msgs) /\ m \in 0..N /\ m \in Nat /\ Len(image) \in Nat
  BY DEF OldView, Laid
<1>2. \A k \in 0..m : OldEnd(msgs, k) \in Nat
  BY <1>1 DEF OldView, Laid
<1>3. PICK read : ReadsOn(Fresh, image, read)
  BY <1>1, LinearUnfolds
<1>4. ASSUME NEW k \in 0..m, k < m, read[<<OldEnd(msgs, k + 1), k + 1>>] = found(k + 1)
      PROVE  read[<<OldEnd(msgs, k), k>>] = found(k)
  <2>1. k \in Nat /\ k + 1 \in 1..m /\ k + 1 \in 1..N
    BY <1>1, <1>4
  <2>2. PICK p \in Nat : p = OldEnd(msgs, k)
    BY <1>2
  <2>3. /\ ~Reader!LinearEnds(Fresh, image, p, k)
        /\ image[p + 1].msg = msgs[k + 1]
        /\ p + Len(RecordCells(msgs[k + 1])) = OldEnd(msgs, k + 1)
    BY <1>4, <2>1, <2>2, GoesOn
  <2>4. read[<<p, k>>] = Record(Fresh, image[p + 1].msg,
                                read[<<p + Len(RecordCells(image[p + 1].msg)), k + 1>>])
    BY <1>3, <2>1, <2>3 DEF ReadsOn
  <2>5. read[<<p, k>>] = Record(Fresh, msgs[k + 1], found(k + 1))
    BY <1>4, <2>3, <2>4
  <2>6. Reader!KnownRecord(Fresh, msgs[k + 1]) /\ Reader!Parsed(Fresh, msgs[k + 1]) = v[k + 1]
    <3>1. msgs[k + 1].ch = 1
      BY <1>1, <2>1, OldMessageTypes
    <3>2. v[k + 1] = AsOld(name, schema, msgs[k + 1])
      BY <2>1
    <3>3. QED
      BY <3>1, <3>2
  <2> HIDE DEF v
  <2>7. found(k + 1).ok /\ found(k + 1).msgs = [i \in 1..m - (k + 1) |-> v[k + 1 + i]]
    BY DEF Reader!Success
  <2>8. <<v[k + 1]>> \o [i \in 1..m - (k + 1) |-> v[k + 1 + i]] = [i \in 1..m - k |-> v[k + i]]
    BY <1>1, <1>4, <2>1, OneMore
  <2> HIDE DEF found
  <2>9. Record(Fresh, msgs[k + 1], found(k + 1)) =
          Reader!Success(<<v[k + 1]>> \o found(k + 1).msgs)
    BY <2>6, <2>7 DEF Record
  <2>10. Record(Fresh, msgs[k + 1], found(k + 1)) = found(k)
    BY <2>7, <2>8, <2>9 DEF found
  <2>11. QED
    BY <2>2, <2>5, <2>10
<1>5. read[<<OldEnd(msgs, m), m>>] = found(m)
  <2>1. OldEnd(msgs, m) \in Nat
    BY <1>1, <1>2
  <2>2. Reader!LinearEnds(Fresh, image, OldEnd(msgs, m), m)
    BY EndsThere
  <2>3. read[<<OldEnd(msgs, m), m>>] = Reader!Success(<<>>)
    BY <1>1, <1>3, <2>1, <2>2 DEF ReadsOn
  <2>4. [i \in 1..m - m |-> v[m + i]] = <<>>
    <3>1. 1..m - m = {}
      BY <1>1
    <3>2. QED
      BY <3>1
  <2>5. QED
    BY <2>3, <2>4
<1>6. read[<<OldEnd(msgs, 0), 0>>] = found(0)
  <2> DEFINE D == {d \in 0..m : read[<<OldEnd(msgs, d), d>>] = found(d)}
  <2>1. D # {} /\ D \subseteq Nat
    <3>1. D \subseteq Nat
      OBVIOUS
    <3>2. m \in D
      BY <1>1, <1>5
    <3>3. QED
      BY <3>1, <3>2
  <2>2. PICK d \in D : \A e \in D : d <= e
    <3> HIDE DEF D
    <3>1. QED
      BY <2>1, Least
  <2>3. d = 0
    <3>1. SUFFICES ASSUME d # 0 PROVE FALSE
      OBVIOUS
    <3>2. PICK k \in 0..m : k + 1 = d /\ k < m /\ ~(d <= k)
      <4>1. d \in 0..m
        OBVIOUS
      <4>2. d - 1 \in 0..m /\ d - 1 + 1 = d /\ d - 1 < m /\ ~(d <= d - 1)
        BY <1>1, <3>1, <4>1
      <4>3. QED
        BY <4>2
    <3>3. read[<<OldEnd(msgs, k + 1), k + 1>>] = found(k + 1)
      BY <3>2
    <3> HIDE DEF found
    <3>4. k \in D
      BY <1>4, <3>2, <3>3
    <3> HIDE DEF D
    <3>5. QED
      BY <2>2, <3>2, <3>4
  <2>4. QED
    BY <2>2, <2>3
<1>7. OldEnd(msgs, 0) = 2 /\ Fresh.data_offset = 2
  BY FreshIs DEF OldView, Laid
<1>8. Reader!ReadLinear(Fresh, image) = found(0)
  BY <1>3, <1>6, <1>7 DEF ReadsOn
<1>9. [i \in 1..m - 0 |-> v[0 + i]] = v
  <2>1. m - 0 = m /\ \A i \in 1..m : 0 + i = i
    BY <1>1
  <2>2. QED
    BY <2>1
<1>10. QED
  BY <1>8, <1>9

LEMMA OldReadsBack ==
  ASSUME RecordingInv
  PROVE  OldFilesReadBack
<1> SUFFICES ASSUME old # None, reader.state = "open", NEW a \in 1..Len(answers)
             PROVE  /\ answers[a].ok
                    /\ Len(answers[a].msgs) =
                         Cardinality({i \in 1..Len(old) : old[i].end <= Len(image)})
                    /\ \A i \in 1..Len(answers[a].msgs) :
                         answers[a].msgs[i] =
                           [id |-> old[i].id, stamp |-> old[i].stamp,
                            channel |-> old[i].channel, schema |-> old[i].schema]
  BY DEF OldFilesReadBack
<1>1. /\ answers[a] = Reader!ReadLinear(Fresh, image)
      /\ Reader!HeaderValid(image)
  BY DEF RecordingInv, ReadingInv, ReaderInv, AnswersInv
<1>2. PICK name \in Names, schema \in SchemaKeys, msgs \in OldMessages, n \in Nat :
        OldImage(name, schema, msgs, n)
  BY DEF RecordingInv, OldInv
<1>4. PICK m : /\ OldView(OldFile(name, schema, msgs), msgs, n, m)
               /\ Counted(msgs, n, m)
  BY <1>1, <1>2, OldFresh
<1>5. /\ Fresh.msg_count \in {Len(msgs), None}
      /\ \A x : x.ch = 1 => /\ Reader!KnownRecord(Fresh, x)
                            /\ Reader!Parsed(Fresh, x) = AsOld(name, schema, x)
  BY <1>1, <1>2, OldFresh
<1>6. Reader!ReadLinear(Fresh, image) =
        Reader!Success([i \in 1..m |-> AsOld(name, schema, msgs[i])])
  BY <1>2, <1>4, <1>5, OldReads
<1>7. PICK N \in Nat : N = Len(msgs) /\ m \in 0..N /\ m \in Nat /\ Len(image) = n
  BY <1>4 DEF OldView, Laid
<1>8. /\ Len(old) = N
      /\ \A i \in 1..N : old[i] = [id |-> i, stamp |-> msgs[i].stamp, channel |-> name,
                                   schema |-> schema, end |-> OldEnd(msgs, i)]
  BY <1>2, <1>7 DEF OldImage
<1>9. PICK v : v = [i \in 1..m |-> AsOld(name, schema, msgs[i])]
  OBVIOUS
<1>10. answers[a].ok /\ answers[a].msgs = v
  BY <1>1, <1>6, <1>9 DEF Reader!Success
<1>11. Len(v) = m
  BY <1>7, <1>9
<1>12. {i \in 1..Len(old) : old[i].end <= Len(image)} = {i \in 1..Len(msgs) : OldEnd(msgs, i) <= n}
  <2>1. \A i \in 1..N : old[i].end = OldEnd(msgs, i)
    BY <1>8
  <2>2. Len(old) = N /\ Len(msgs) = N /\ Len(image) = n
    BY <1>7, <1>8
  <2>3. QED
    BY ONLY <2>1, <2>2
<1>13. ASSUME NEW i \in 1..m
       PROVE  v[i] = [id |-> old[i].id, stamp |-> old[i].stamp,
                      channel |-> old[i].channel, schema |-> old[i].schema]
  <2>1. i \in 1..N
    BY <1>7
  <2>2. msgs[i].id = i
    BY <1>7, <2>1, OldMessageTypes
  <2>3. v[i] = AsOld(name, schema, msgs[i])
    BY <1>9
  <2>4. QED
    BY <1>8, <2>1, <2>2, <2>3 DEF AsOld
<1>14. QED
  BY <1>4, <1>10, <1>11, <1>12, <1>13 DEF Counted

\* A linear file that was cut off anywhere behind its header is read back to
\* its last complete record (read_v1_all).
THEOREM LinearFilesReadBack == RecordingSpec => []OldFilesReadBack
<1>1. RecordingInv => OldFilesReadBack
  BY OldReadsBack
<1>2. QED
  BY <1>1, RecordingAlways, PTL

------------------------------------------------------------------------------
(* What doracap info tells *)

\* What is read of the first k chunks, and what the index says of it.
IndexTells(r, k) ==
  LET msgs == ReadBy(r, k)
  IN  /\ msgs \in Seq(ParsedBy(r)) /\ Len(msgs) = EndOf(k) - 2 - 2 * k
      /\ k >= 1 => /\ Len(msgs) >= 1
                   /\ msgs[1].stamp = chunk_index[1].start_stamp
                   /\ msgs[Len(msgs)].stamp = chunk_index[k].end_stamp

LEMMA SumPositive ==
  ASSUME NEW a \in Nat, NEW b \in Nat, b >= 1
  PROVE  a + b >= 1
  OBVIOUS

\* The index tells of the chunks what is read from them.
LEMMA ReadAccounts ==
  ASSUME NEW n, Seen(n), NEW r, NEW k \in 0..Len(chunk_index),
         \A i \in 1..k : ReadableBy(r, i)
  PROVE  IndexTells(r, k)
<1>1. /\ k \in Nat /\ Len(chunk_index) \in Nat
      /\ \A i \in 1..Len(chunk_index) :
           /\ chunk_index[i].msg_count \in Nat /\ chunk_index[i].msg_count >= 1
           /\ chunk_index[i].offset = EndOf(i - 1)
           /\ EndOf(i) = chunk_index[i].offset + 2 + chunk_index[i].msg_count
      /\ \A i \in 0..Len(chunk_index) : EndOf(i) \in Nat
  BY SeenEntries
<1>2. PICK w : Whole(w)
  BY FileIs DEF FileFacts
<1>3. \A i \in 1..k : /\ i \in 1..Len(chunk_index)
                      /\ Intact(i) /\ EntryEnd(chunk_index[i]) <= n
  BY <1>2, ReadableIntact
<1>4. \A i \in 1..k : /\ ChunkBy(r, i) \in Seq(ParsedBy(r))
                      /\ Len(ChunkBy(r, i)) = chunk_index[i].msg_count
  BY <1>3, ChunkByType
<1>5. PICK s : s = [i \in 1..k |-> ChunkBy(r, i)]
  OBVIOUS
<1>6. /\ s \in Seq(Seq(ParsedBy(r))) /\ Len(s) = k
      /\ \A i \in 1..k : s[i] = ChunkBy(r, i)
  BY <1>1, <1>4, <1>5
<1>7. PICK f \in [0..Len(s) -> Seq(ParsedBy(r))] :
        Joins(f, s) /\ Reader!FlattenSeq(s) = f[Len(s)]
  BY <1>6, FlattenIs
<1>8. PICK msgs : msgs = f[Len(s)]
  OBVIOUS
<1>9. msgs = ReadBy(r, k) /\ Placed(f, s, msgs)
  BY <1>5, <1>6, <1>7, <1>8, FlattenPlaces DEF ReadBy
<1>10. msgs \in Seq(ParsedBy(r))
  BY <1>1, <1>6, <1>7, <1>8
<1>11. \A j \in 0..k : Len(f[j]) = EndOf(j) - 2 - 2 * j
  <2> DEFINE g == [j \in 0..k |-> Len(f[j])]
             h == [j \in 0..k |-> EndOf(j) - 2 - 2 * j]
  <2>1. g[0] = h[0]
    <3>1. f[0] = <<>> /\ 0 \in 0..k
      BY <1>1, <1>7 DEF Joins
    <3>2. EndOf(0) = 2
      BY DEF Seen, EndOf
    <3>3. QED
      BY <3>1, <3>2
  <2>2. ASSUME NEW j \in 1..k, g[j - 1] = h[j - 1] PROVE g[j] = h[j]
    <3>1. j - 1 \in 0..k /\ j \in 0..k /\ j \in 1..Len(chunk_index) /\ j - 1 \in 0..Len(chunk_index)
      BY <1>1
    <3>2. PICK a \in Nat, b \in Nat, x \in Nat, c \in Nat :
            /\ a = EndOf(j - 1) /\ b = EndOf(j) /\ x = Len(f[j - 1])
            /\ c = chunk_index[j].msg_count
      <4>1. Len(f[j - 1]) \in Nat
        BY <1>6, <1>9, <3>1 DEF Placed
      <4>2. EndOf(j - 1) \in Nat /\ EndOf(j) \in Nat /\ chunk_index[j].msg_count \in Nat
        <5>1. j \in 0..Len(chunk_index)
          BY <3>1
        <5>2. QED
          BY <1>1, <3>1, <5>1
      <4>3. QED
        BY <4>1, <4>2
    <3>3. b = a + 2 + c
      BY <1>1, <3>1, <3>2
    <3>4. x = a - 2 - 2 * (j - 1)
      BY <2>2, <3>1, <3>2
    <3>5. Len(f[j]) = x + c
      <4>1. Len(f[j]) = Len(f[j - 1]) + Len(s[j])
        BY <1>6, <1>9 DEF Placed
      <4>2. Len(s[j]) = c
        BY <1>4, <1>6, <3>2
      <4>3. QED
        BY <3>2, <4>1, <4>2
    <3>6. x + c = b - 2 - 2 * j
      BY <3>1, <3>3, <3>4
    <3>7. QED
      BY <3>1, <3>2, <3>5, <3>6
  <2> HIDE DEF g, h
  <2>3. Agree(g, h, k)
    BY <2>1, <2>2 DEF Agree
  <2>4. \A j \in 0..k : g[j] = h[j]
    BY <1>1, <2>3, StepByStep
  <2>5. QED
    BY <2>4 DEF g, h
<1>12. Len(msgs) = EndOf(k) - 2 - 2 * k
  <2>1. k \in 0..k
    BY <1>1
  <2>2. QED
    BY <1>6, <1>8, <1>11, <2>1
<1>13. ASSUME NEW i \in 1..k, NEW j \in 1..chunk_index[i].msg_count
       PROVE  s[i][j].stamp = MsgsAt(file, chunk_index[i])[j].stamp
  <2>1. ChunkBy(r, i) = [l \in 1..chunk_index[i].msg_count |->
                           Reader!Parsed(r, MsgsAt(file, chunk_index[i])[l])]
    BY <1>3, ChunkByType
  <2>2. s[i][j] = Reader!Parsed(r, MsgsAt(file, chunk_index[i])[j])
    BY <1>6, <2>1
  <2>3. \A m : Reader!Parsed(r, m).stamp = m.stamp
    BY DEF Reader!Parsed
  <2>4. QED
    BY <2>2, <2>3, Zenon
<1>14. ASSUME NEW i \in 1..k
       PROVE  /\ s[i][1].stamp = chunk_index[i].start_stamp
              /\ s[i][Len(s[i])].stamp = chunk_index[i].end_stamp
              /\ Len(s[i]) \in Nat /\ Len(s[i]) >= 1
  <2>1. PICK c \in Nat : c = chunk_index[i].msg_count /\ c >= 1 /\ Len(s[i]) = c
    BY <1>1, <1>3, <1>4, <1>6
  <2>2. 1 \in 1..c /\ c \in 1..c
    BY <2>1
  <2>3. InFile(chunk_index[i], MsgsAt(file, chunk_index[i]), Begin(i))
    BY <1>3, ChunkInFile DEF Seen
  <2>4. /\ chunk_index[i].start_stamp = MsgsAt(file, chunk_index[i])[1].stamp
        /\ chunk_index[i].end_stamp = MsgsAt(file, chunk_index[i])[c].stamp
    BY <2>1, <2>3 DEF InFile
  <2>5. QED
    BY <1>13, <2>1, <2>2, <2>4
<1>15. ASSUME k >= 1
       PROVE  /\ Len(msgs) >= 1
              /\ msgs[1].stamp = chunk_index[1].start_stamp
              /\ msgs[Len(msgs)].stamp = chunk_index[k].end_stamp
  <2>1. 1 \in 1..k /\ k \in 1..k /\ k - 1 \in 0..k /\ 1 - 1 = 0
    BY <1>1, <1>15
  <2>2. PICK l \in Nat : l = Len(s[1]) /\ l >= 1
    BY <1>14, <2>1
  <2>3. PICK b \in Nat, a \in Nat : b = Len(s[k]) /\ b >= 1 /\ a = Len(f[k - 1])
    BY <1>6, <1>9, <1>14, <2>1 DEF Placed
  <2>4. Len(f[0]) = 0
    BY <1>7 DEF Joins
  <2>5. msgs[0 + 1] = s[1][1]
    <3>1. 1 \in 1..Len(s[1])
      BY <2>2
    <3>2. msgs[Len(f[1 - 1]) + 1] = s[1][1]
      BY <1>6, <1>9, <2>1, <3>1 DEF Placed
    <3>3. QED
      BY <2>1, <2>4, <3>2
  <2>6. Len(msgs) = a + b /\ msgs[a + b] = s[k][b]
    <3>1. b \in 1..Len(s[k])
      BY <2>3
    <3>2. QED
      BY <1>6, <1>8, <1>9, <2>1, <2>3, <3>1 DEF Placed
  <2>7. a + b >= 1
    BY <2>3, SumPositive
  <2>8. /\ s[1][1].stamp = chunk_index[1].start_stamp
        /\ s[k][b].stamp = chunk_index[k].end_stamp
    BY <1>14, <2>1, <2>3
  <2>9. msgs[1].stamp = chunk_index[1].start_stamp
    BY <2>5, <2>8
  <2>10. msgs[Len(msgs)].stamp = chunk_index[k].end_stamp
    BY <2>6, <2>8
  <2>11. QED
    BY <2>6, <2>7, <2>9, <2>10
<1>16. QED
  BY <1>9, <1>10, <1>12, <1>15 DEF IndexTells

\* The reader's stable sort is the one of the writer.
LEMMA SameSort ==
  ASSUME NEW s
  PROVE  Reader!StableSort(s) = StableSort(s)
  BY DEF Reader!StableSort, StableSort, Reader!Place, Place, Reader!Rank, Rank,
         Reader!NotAfter, NotAfter, Reader!Cardinality, Cardinality

\* What `doracap info` says of the messages it is asked about.
Tells(info, msgs) ==
  /\ info.count = Len(msgs)
  /\ msgs # <<>> /\ SortedByStamp(msgs) =>
       info.range = <<msgs[1].stamp, msgs[Len(msgs)].stamp>>

LEMMA ContentTells ==
  ASSUME NEW S, Stamped(S), NEW msgs \in Seq(S)
  PROVE  Tells(Reader!ContentSummary(msgs), msgs)
<1>1. PICK sorted : sorted = StableSort(msgs)
  OBVIOUS
<1>2. Reader!StableSort(msgs) = sorted
  BY <1>1, SameSort
<1>3. Reader!ContentSummary(msgs) =
        [count |-> Len(msgs),
         range |-> IF msgs = <<>> THEN None
                   ELSE <<sorted[1].stamp, Reader!Last(sorted).stamp>>]
  BY <1>2 DEF Reader!ContentSummary
<1>4. ASSUME msgs # <<>>, SortedByStamp(msgs)
      PROVE  Reader!ContentSummary(msgs).range = <<msgs[1].stamp, msgs[Len(msgs)].stamp>>
  <2>1. sorted = msgs
    BY <1>1, <1>4, SortOfSorted
  <2>2. Reader!Last(sorted) = msgs[Len(msgs)]
    BY <2>1 DEF Reader!Last
  <2>3. QED
    BY <1>3, <1>4, <2>1, <2>2
<1>5. Reader!ContentSummary(msgs).count = Len(msgs)
  BY <1>3
<1>6. QED
  BY <1>4, <1>5 DEF Tells

LEMMA ParsedStamped ==
  ASSUME NEW r
  PROVE  Stamped(ParsedBy(r))
<1>1. \A m \in Message : m.stamp \in Int
  BY DEF Message
<1>2. \A m : Reader!Parsed(r, m).stamp = m.stamp
  BY DEF Reader!Parsed
<1>3. QED
  BY <1>1, <1>2 DEF Stamped, ParsedBy

\* The index of a footer tells what is in the chunks it lists.
LEMMA FooterTells ==
  ASSUME NEW n, FileOpened(n), Fresh.chunk_index # <<>>, NEW c, c = Len(Fresh.chunk_index),
         c \in 0..Len(chunk_index), IndexTells(Fresh, c)
  PROVE  Tells(Reader!IndexSummary(Fresh), ReadBy(Fresh, c))
<1>1. Seen(n)
  BY DEF FileOpened
<1>2. Reader!HasTrailer(image)
  BY <1>1, FreshIndex
<1>3. PICK d \in 0..Len(chunk_index) :
        /\ d = file[n].chunk_count /\ Fresh.chunk_index = SubSeq(chunk_index, 1, d)
        /\ Len(Fresh.chunk_index) = d
  BY <1>1, FreshIndex
<1>4. /\ Footer(n) /\ Reader!Last(image) = file[n] /\ file[n].msg_count \in Nat
  BY <1>1, <1>2, FooterSeen
<1>5. Fresh.msg_count = file[n].msg_count
  BY <1>2, <1>4 DEF Fresh, Reader!Opened
<1>6. Fresh.msg_count = EndOf(c) - 2 - 2 * c
  <2>1. file[n].msg_count = EndOf(c) - data_offset - 2 * c
    BY <1>3, <1>4 DEF Footer
  <2>2. data_offset = 2
    BY <1>1 DEF Seen
  <2>3. QED
    BY <1>5, <2>1, <2>2
<1>7. Fresh.msg_count = Len(ReadBy(Fresh, c))
  BY <1>6 DEF IndexTells
<1>8. Fresh.msg_count # None
  <2>1. None \notin Nat
    BY NoneAssumption
  <2>2. QED
    BY <1>4, <1>5, <2>1
<1>9. Reader!IndexSummary(Fresh) =
        [count |-> Fresh.msg_count,
         range |-> <<Fresh.chunk_index[1].start_stamp,
                     Reader!Last(Fresh.chunk_index).end_stamp>>]
  BY <1>8 DEF Reader!IndexSummary
<1>10. chunk_index \in Seq(ChunkIndex)
  BY <1>1 DEF Seen, FileInv, FullInv, TypeOK
<1>11. c >= 1
  <2>1. SUFFICES ASSUME c = 0 PROVE FALSE
    <3>1. c \in Nat
      BY <1>10
    <3>2. QED
      BY <3>1
  <2>2. SubSeq(chunk_index, 1, 0) = <<>>
    BY <1>10
  <2>3. QED
    BY <1>3, <2>1, <2>2
<1>12. /\ Fresh.chunk_index[1] = chunk_index[1]
       /\ Reader!Last(Fresh.chunk_index) = chunk_index[c]
  <2>1. \A i \in 1..c : Fresh.chunk_index[i] = chunk_index[i]
    BY <1>3, <1>10, PrefixProperties
  <2>2. 1 \in 1..c /\ c \in 1..c
    BY <1>10, <1>11
  <2>3. QED
    BY <2>1, <2>2 DEF Reader!Last
<1>13. Reader!IndexSummary(Fresh).range =
         <<chunk_index[1].start_stamp, chunk_index[c].end_stamp>>
  BY <1>9, <1>12
<1>14. Reader!IndexSummary(Fresh).count = Len(ReadBy(Fresh, c))
  BY <1>7, <1>9
<1>15. QED
  BY <1>11, <1>13, <1>14 DEF Tells, IndexTells

LEMMA InfoTells ==
  ASSUME RecordingInv
  PROVE  InfoIsRight
<1> SUFFICES ASSUME answers # <<>>, answers[1].ok
             PROVE  Tells(Reader!Info(Fresh, answers[1]), answers[1].msgs)
  BY DEF InfoIsRight, Tells, Fresh
<1>1. reader.state = "open" /\ image # None
  BY AnsweredOpen
<1>2. 1 \in 1..Len(answers)
  <2>1. PICK S : answers \in Seq(S)
    BY DEF RecordingInv, ReadingInv, AnswersInv
  <2>2. QED
    BY <2>1
<1>3. CASE old # None
  <2>1. /\ answers[1] = Reader!ReadLinear(Fresh, image)
        /\ Reader!HeaderValid(image)
    BY <1>1, <1>2, <1>3 DEF RecordingInv, ReadingInv, ReaderInv, AnswersInv
  <2>2. PICK name \in Names, schema \in SchemaKeys, msgs \in OldMessages, n \in Nat :
          OldImage(name, schema, msgs, n)
    BY <1>3 DEF RecordingInv, OldInv
  <2>3. /\ Fresh.chunk_index = <<>> /\ Fresh.msg_count \in {Len(msgs), None}
        /\ \A x : x.ch = 1 => /\ Reader!KnownRecord(Fresh, x)
                              /\ Reader!Parsed(Fresh, x) = AsOld(name, schema, x)
    BY <2>1, <2>2, OldFresh
  <2>4. PICK m : OldView(OldFile(name, schema, msgs), msgs, n, m)
    BY <2>1, <2>2, OldFresh
  <2>5. Reader!ReadLinear(Fresh, image) =
          Reader!Success([i \in 1..m |-> AsOld(name, schema, msgs[i])])
    BY <2>2, <2>3, <2>4, OldReads
  <2>6. PICK v : v = [i \in 1..m |-> AsOld(name, schema, msgs[i])]
    OBVIOUS
  <2>7. answers[1].msgs = v
    BY <2>1, <2>5, <2>6 DEF Reader!Success
  <2> DEFINE S == {AsOld(name, schema, msgs[i]) : i \in 1..m}
  <2>8. v \in Seq(S)
    <3>1. m \in Nat
      BY <2>4 DEF OldView, Laid
    <3>2. QED
      BY <2>6, <3>1
  <2>9. Stamped(S)
    <3>1. m \in 0..Len(msgs) /\ Len(msgs) \in Nat
      BY <2>4 DEF OldView, Laid
    <3>2. ASSUME NEW i \in 1..m PROVE AsOld(name, schema, msgs[i]).stamp \in Int
      <4>1. i \in 1..Len(msgs) /\ msgs \in Seq(Message)
        BY <3>1, OldMessageTypes
      <4>2. msgs[i] \in Message
        BY <4>1
      <4>3. msgs[i].stamp \in Int
        BY <4>2 DEF Message
      <4>4. QED
        BY <4>3 DEF AsOld
    <3>3. QED
      BY <3>2 DEF Stamped
  <2> HIDE DEF S
  <2>10. Tells(Reader!ContentSummary(v), v)
    BY <2>8, <2>9, ContentTells
  <2>11. QED
    BY <2>3, <2>7, <2>10 DEF Reader!Info
<1>4. CASE old = None
  <2>1. PICK n : FileOpened(n)
    BY <1>1, <1>4, WhenOpen
  <2>2. Answers(1 = 1, answers[1])
    BY <1>1, <1>2, <1>4, WhenOpen
  <2>3. Seen(n)
    BY <2>1 DEF FileOpened
  <2>4. CASE Fresh.chunk_index = <<>>
    <3>1. PICK k \in 0..Len(chunk_index) :
            /\ \A i \in 1..k : ReadableBy(Fresh, i)
            /\ answers[1] = Reader!Success(ReadBy(Fresh, k))
      BY <2>1, <2>2, AnswerIs
    <3>2. answers[1].msgs = ReadBy(Fresh, k)
      BY <3>1 DEF Reader!Success
    <3>3. ReadBy(Fresh, k) \in Seq(ParsedBy(Fresh))
      BY <2>3, <3>1, ReadAccounts DEF IndexTells
    <3>4. Tells(Reader!ContentSummary(ReadBy(Fresh, k)), ReadBy(Fresh, k))
      BY <3>3, ParsedStamped, ContentTells
    <3>5. QED
      BY <2>4, <3>2, <3>4 DEF Reader!Info
  <2>5. CASE Fresh.chunk_index # <<>>
    <3>1. PICK c \in 0..Len(chunk_index) : Len(Fresh.chunk_index) = c
      BY <2>3, <2>5, FreshIndex
    <3>2. /\ \A i \in 1..c : ReadableBy(Fresh, i)
          /\ answers[1] = Reader!Success(ReadBy(Fresh, c))
      BY <2>2, <2>5, <3>1 DEF Answers, ByFooter, Reader!Failure
    <3>3. answers[1].msgs = ReadBy(Fresh, c)
      BY <3>2 DEF Reader!Success
    <3>4. IndexTells(Fresh, c)
      BY <2>3, <3>2, ReadAccounts
    <3>5. Tells(Reader!IndexSummary(Fresh), ReadBy(Fresh, c))
      BY <2>1, <2>5, <3>1, <3>4, FooterTells
    <3>6. QED
      BY <2>5, <3>3, <3>5 DEF Reader!Info
  <2>6. QED
    BY <2>4, <2>5
<1>5. QED
  BY <1>3, <1>4

\* What `doracap info` takes from the footer or from the messages is their
\* number, for files of both formats and wherever they were cut off; and when
\* the messages are read in the order of their stamps, what it shows as the time
\* range is their first and last stamp (message_count, time_range).
THEOREM InfoIsAlwaysRight == RecordingSpec => []InfoIsRight
<1>1. RecordingInv => InfoIsRight
  BY InfoTells
<1>2. QED
  BY <1>1, RecordingAlways, PTL
==============================================================================
