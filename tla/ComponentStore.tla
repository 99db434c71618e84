--------------------------- MODULE ComponentStore ---------------------------
(***************************************************************************)
(* The component registry and the blobs of a station:                      *)
(* crates/sectorsync-core/src/component.rs.                                *)
(*                                                                         *)
(* Blobs lie in one column per component: a slot of a vector for small     *)
(* component ids, an entry of an ordered map for the others.  What a blob's *)
(* bytes say is its version here.  Typed writes and reads are those of the *)
(* bytes; what codecs and the schema hash compute is left out.             *)
(***************************************************************************)
EXTENDS Integers, FiniteSets, Sequences, SequencesExt, Ordered

CONSTANTS
    Owners,                       \* entity handles
    Schemas,                      \* what may be registered
    Versions, Sizes,              \* of blobs that are written
    DenseComponentColumnLimit,
    NoDescriptor, NoColumn, NoBlob

\* The blobs there are, and the columns they make.
BlobRecord == [version : Versions, dirty : BOOLEAN]
BlobColumn == UNION {[owners -> BlobRecord] : owners \in SUBSET Owners}

\* Ids are numbers of some width, sizes and offsets count from zero, and what
\* stands for an absent value is no value.
ASSUME ComponentAssumption ==
    /\ Sizes \subseteq Nat /\ DenseComponentColumnLimit \in Nat
    /\ IsFiniteSet({s.id : s \in Schemas})
    /\ NoDescriptor \notin Schemas /\ NoColumn \notin BlobColumn /\ NoBlob \notin BlobRecord
    /\ \A schema \in Schemas :
          /\ schema.id \in Nat /\ schema.max_bytes \in Nat
          /\ schema.fields \in Seq([name : STRING, offset : Nat, size : Nat])

VARIABLES
    descriptors,       \* ComponentRegistry::descriptors, from id 0
    dense_columns,     \* from id 0: owner -> blob, or NoColumn
    sparse_columns,    \* component id -> owner -> blob
    blobs              \* history: <<component id, owner>> -> blob, by what was called

componentVars == <<descriptors, dense_columns, sparse_columns, blobs>>

ComponentIdsOf == {s.id : s \in Schemas}

ComponentInit ==
    /\ descriptors = <<>>
    /\ dense_columns = <<>>
    /\ sparse_columns = <<>>
    /\ blobs = [x \in ComponentIdsOf \X Owners |-> NoBlob]

-----------------------------------------------------------------------------
(* The registry. *)

EndOffset(field) == field.offset + field.size

\* ranges_overlap.
FieldsOverlap(f, g) == f.offset < EndOffset(g) /\ g.offset < EndOffset(f)

\* GeneratedComponentSchema::validate.
Valid(schema) ==
    /\ \A i \in DOMAIN schema.fields : EndOffset(schema.fields[i]) <= schema.max_bytes
    /\ \A i, j \in DOMAIN schema.fields : i < j =>
          /\ schema.fields[i].name # schema.fields[j].name
          /\ ~FieldsOverlap(schema.fields[i], schema.fields[j])

Registered == ToSet(descriptors) \ {NoDescriptor}

Descriptor(id) ==
    IF id + 1 \in DOMAIN descriptors THEN descriptors[id + 1] ELSE NoDescriptor

\* A vector of options that reaches index id, with a value there.
WithAt(vector, id, value, none) ==
    [k \in DOMAIN vector \cup 1 .. id + 1 |->
        IF k = id + 1 THEN value ELSE IF k \in DOMAIN vector THEN vector[k] ELSE none]

\* register_generated_schema: validation, then register with its two checks.
RegisterGeneratedSchema(schema) ==
    /\ Valid(schema)
    /\ Descriptor(schema.id) = NoDescriptor
    /\ \A d \in Registered : d.name # schema.name
    /\ descriptors' = WithAt(descriptors, schema.id, schema, NoDescriptor)
    /\ UNCHANGED <<dense_columns, sparse_columns, blobs>>

-----------------------------------------------------------------------------
(* The columns. *)

IsDense(id) == id < DenseComponentColumnLimit

\* column.
Column(id) ==
    IF IsDense(id)
    THEN IF id + 1 \in DOMAIN dense_columns THEN dense_columns[id + 1] ELSE NoColumn
    ELSE IF id \in DOMAIN sparse_columns THEN sparse_columns[id] ELSE NoColumn

\* get_blob.
Blob(id, owner) ==
    IF Column(id) # NoColumn /\ owner \in DOMAIN Column(id) THEN Column(id)[owner] ELSE NoBlob

\* The columns there are, by component id.
Columns ==
    LET dense == {k - 1 : k \in {j \in DOMAIN dense_columns : dense_columns[j] # NoColumn}}
    IN [id \in dense \cup DOMAIN sparse_columns |-> Column(id)]

\* One column by its component id.
OneColumn(id, column) == [i \in {id} |-> column]

\* Columns by component id take new values; column_mut makes those there are not.
SetColumns(columns) ==
    LET dense == {id \in DOMAIN columns : IsDense(id)}
        sparse == DOMAIN columns \ dense
    IN /\ dense_columns' = [k \in DOMAIN dense_columns \cup UNION {1 .. id + 1 : id \in dense} |->
                               IF k - 1 \in dense THEN columns[k - 1]
                               ELSE IF k \in DOMAIN dense_columns THEN dense_columns[k]
                               ELSE NoColumn]
       /\ sparse_columns' = [id \in DOMAIN sparse_columns \cup sparse |->
                                IF id \in sparse THEN columns[id] ELSE sparse_columns[id]]

ColumnOrEmpty(id) == IF Column(id) = NoColumn THEN <<>> ELSE Column(id)

\* A column with a blob for one owner, and with none for it.
With(column, owner, blob) ==
    [o \in DOMAIN column \cup {owner} |-> IF o = owner THEN blob ELSE column[o]]
Without(column, owner) == [o \in DOMAIN column \ {owner} |-> column[o]]

Cleaned(column, owner) ==
    IF owner \in DOMAIN column THEN [column EXCEPT ![owner].dirty = FALSE] ELSE column

-----------------------------------------------------------------------------
(* Operations of the store. *)

\* reserve_component.
ReserveComponent(id) ==
    /\ SetColumns(OneColumn(id, ColumnOrEmpty(id)))
    /\ UNCHANGED <<descriptors, blobs>>

\* set_blob and set_blob_from_slice: refused before anything is changed, or
\* written.  The descriptor is the caller's.
SetBlob(descriptor, owner, version, size) ==
    LET blob == [version |-> version, dirty |-> TRUE]
    IN /\ descriptor.storage = "SparseBlob"
       /\ size <= descriptor.max_bytes
       /\ SetColumns(OneColumn(descriptor.id,
                               With(ColumnOrEmpty(descriptor.id), owner, blob)))
       /\ blobs' = [blobs EXCEPT ![<<descriptor.id, owner>>] = blob]
       /\ UNCHANGED descriptors

\* get_blob_mut, of a caller that clears one dirty flag.
CleanBlob(id, owner) ==
    /\ Blob(id, owner) # NoBlob
    /\ SetColumns(OneColumn(id, Cleaned(Column(id), owner)))
    /\ blobs' = [blobs EXCEPT ![<<id, owner>>].dirty = FALSE]
    /\ UNCHANGED descriptors

ClearDirtyForEntity(owner) ==
    /\ SetColumns([id \in DOMAIN Columns |-> Cleaned(Columns[id], owner)])
    /\ blobs' = [x \in DOMAIN blobs |->
                    IF x[2] = owner /\ blobs[x] # NoBlob THEN [blobs[x] EXCEPT !.dirty = FALSE]
                    ELSE blobs[x]]
    /\ UNCHANGED descriptors

\* Mutated: components beyond the vector stay.
ClearedDense(owner) ==
    [id \in DOMAIN Columns |-> IF IsDense(id) THEN Without(Columns[id], owner) ELSE Columns[id]]

Cleared(owner) == [id \in DOMAIN Columns |-> Without(Columns[id], owner)]

\* remove_entity_into lists what it removes: the vector from its start, then the map.
RemovedFrom(owner) ==
    LET held == {id \in DOMAIN Columns : owner \in DOMAIN Columns[id]}
        removed(ids) == [k \in 1 .. Cardinality(ids) |->
                           <<InOrder(ids)[k], Columns[InOrder(ids)[k]][owner]>>]
    IN removed({id \in held : IsDense(id)}) \o removed({id \in held : ~IsDense(id)})

\* remove_entity_into and clear_entity.
ClearEntity(owner) ==
    /\ SetColumns(Cleared(owner))
    /\ blobs' = [x \in DOMAIN blobs |-> IF x[2] = owner THEN NoBlob ELSE blobs[x]]
    /\ UNCHANGED descriptors

\* copy_for_migration: registered components that are copied, dirty flags included.
CopyForMigration(source, target) ==
    LET copied == {d.id : d \in {r \in Registered : /\ r.migration = "Copy"
                                                    /\ Blob(r.id, source) # NoBlob}}
    IN /\ SetColumns([id \in copied |-> With(Column(id), target, Blob(id, source))])
       /\ blobs' = [x \in DOMAIN blobs |->
                       IF x[1] \in copied /\ x[2] = target THEN blobs[<<x[1], source>>]
                       ELSE blobs[x]]
       /\ UNCHANGED descriptors

ComponentNext ==
    \/ \E schema \in Schemas :
          \/ RegisterGeneratedSchema(schema)
          \/ \E owner \in Owners, v \in Versions, size \in Sizes : SetBlob(schema, owner, v, size)
    \/ \E id \in ComponentIdsOf :
          \/ ReserveComponent(id)
          \/ \E owner \in Owners : CleanBlob(id, owner)
    \/ \E owner \in Owners :
          \/ ClearDirtyForEntity(owner)
          \/ ClearEntity(owner)
          \/ \E target \in Owners : CopyForMigration(owner, target)

ComponentSpec == ComponentInit /\ [][ComponentNext]_componentVars

-----------------------------------------------------------------------------
(* Properties. *)

\* The blobs of an owner, in ascending order of their components.
BlobsOf(owner) ==
    LET ids == {id \in ComponentIdsOf : blobs[<<id, owner>>] # NoBlob}
    IN [k \in 1 .. Cardinality(ids) |-> <<InOrder(ids)[k], blobs[<<InOrder(ids)[k], owner>>]>>]

\* Whichever columns components lie in, the store reads as one map of blobs, also
\* after removals, migrations and refused writes, and a removal lists an owner's
\* blobs by ascending component.
ReadsAsMap ==
    /\ \A x \in DOMAIN blobs : Blob(x[1], x[2]) = blobs[x]
    /\ \A owner \in Owners : RemovedFrom(owner) = BlobsOf(owner)

\* Registered components differ in id and name, each is found under its id, and
\* no byte of a blob belongs to two fields of its layout.
RegistryUnambiguous ==
    /\ \A d, e \in Registered : d.name = e.name \/ d.id = e.id => d = e
    /\ \A d \in Registered :
          /\ Descriptor(d.id) = d
          /\ \A byte \in 0 .. d.max_bytes - 1 :
                Cardinality({f \in ToSet(d.fields) :
                                f.offset <= byte /\ byte < EndOffset(f)}) <= 1

ComponentsSound == ReadsAsMap /\ RegistryUnambiguous
=============================================================================
