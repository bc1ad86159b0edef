---------------------------- MODULE SchemaRegistry ----------------------------
(***************************************************************************)
(* SchemaRegistry and SchemaExtractor (crates/fc-engine/src/extractor.rs): *)
(* from_dir loads the schema files of a directory, extract_all runs every  *)
(* matching schema on a response.  A document is what a selector finds in  *)
(* it, a raw value what the transforms tell apart: its text, and the       *)
(* number, boolean or Null it parses to.                                   *)
(***************************************************************************)
EXTENDS SequencesExt

CONSTANTS
  Null,       \* FieldValue::Null
  Empty,      \* the raw value of an empty element or a missing attribute
  Parsed,     \* what a parsing transform makes of each other raw value, or Null
  Selector,   \* the valid selectors
  File,       \* the entries of the directory
  Document    \* the responses: requested URL, and what each selector finds

\* What get_value may return.
Raw == DOMAIN Parsed \cup {Empty}

\* `parse` stands for the transforms that may fail, `wording` for those that only
\* change the wording of a text, and `invalid` for what does not compile.
Rule == [name : STRING, selector : Selector \cup {"invalid"},
         transform : {"none", "wording", "parse", "invalid"},
         multiple : BOOLEAN, optional : BOOLEAN]

\* `pattern` is the set of the URLs that url_pattern matches.
Schema == [name : STRING, pattern : SUBSET STRING, rules : Seq(Rule)]

ASSUME RawAssumption == Empty \notin DOMAIN Parsed /\ Null \notin Raw
ASSUME FileAssumption ==
  /\ IsFiniteSet(File)
  /\ File \subseteq [toml : BOOLEAN, readable : BOOLEAN, schemas : Seq(Schema)]
ASSUME DocumentAssumption ==
  \A d \in Document :
    /\ d.html \in BOOLEAN /\ d.utf8 \in BOOLEAN
    /\ d.select \in [Selector -> Seq(Raw)]

VARIABLES
  phase,        \* before, in or after from_dir, or in extract_all
  unread,       \* the directory entries still to be read
  extractors,   \* extractors: the schemas that compiled
  document,     \* the response extract_all works on
  turn,         \* how many extractors its loop has visited
  records,      \* its result
  panicked      \* history: the schemas whose blocking task panicked

registryVars == <<phase, unread, extractors, document, turn, records, panicked>>

\* Between calls there is no document.
NoDocument == CHOOSE d \in Document : TRUE

RegistryInit ==
  /\ phase = "new"
  /\ unread = {}
  /\ extractors = <<>>
  /\ document = NoDocument
  /\ turn = 0
  /\ records = <<>>
  /\ panicked = {}

-----------------------------------------------------------------------------
\* compile: are url_pattern, selectors and transforms of a schema valid?
Compiles(schema) ==
  /\ schema.pattern # {"invalid"}
  /\ \A i \in 1..Len(schema.rules) :
       schema.rules[i].selector # "invalid" /\ schema.rules[i].transform # "invalid"

\* from_toml: one schema that does not compile fails the file.
Loads(file) ==
  /\ file.readable
  /\ \A i \in 1..Len(file.schemas) : Compiles(file.schemas[i])

\* apply: Null if the text does not parse.
Apply(transform, raw) == IF transform = "parse" THEN Parsed[raw] ELSE raw

\* apply_transform: nothing comes of an empty value.
ApplyTransform(raw, rule) ==
  IF raw = Empty THEN Null ELSE Apply(rule.transform, raw)

\* extract_single: the first matching element, whatever its value.
ExtractSingle(doc, rule) ==
  LET found == doc.select[rule.selector]
  IN  IF found = <<>> THEN Null ELSE ApplyTransform(Head(found), rule)

\* extract_multiple: the values that are not Null; Null if there are none.
ExtractMultiple(doc, rule) ==
  LET found == doc.select[rule.selector]
      values == [i \in 1..Len(found) |-> ApplyTransform(found[i], rule)]
      kept == SelectSeq(values, LAMBDA v : v # Null)
  IN  IF kept = <<>> THEN Null ELSE kept

\* The value of a field.
Value(doc, rule) ==
  IF rule.multiple THEN ExtractMultiple(doc, rule) ELSE ExtractSingle(doc, rule)

\* Mutant: a field that is there already stays as it is.
InsertFirst(fields, name, value) ==
  IF name \in DOMAIN fields THEN fields
  ELSE [n \in DOMAIN fields \cup {name} |-> IF n = name THEN value ELSE fields[n]]

\* ExtractedRecord::insert
Insert(fields, name, value) ==
  [n \in DOMAIN fields \cup {name} |-> IF n = name THEN value ELSE fields[n]]

\* extract, one turn of its loop: an optional field without a value is left out.
AddField(fields, rule, doc) ==
  IF Value(doc, rule) = Null /\ rule.optional
  THEN fields
  ELSE Insert(fields, rule.name, Value(doc, rule))

\* The fields after all the rules, in their order.
Fields(rules, doc) ==
  LET after[n \in 0..Len(rules)] ==
        IF n = 0 THEN <<>> ELSE AddField(after[n - 1], rules[n], doc)
  IN  after[Len(rules)]

Extract(schema, doc) == [schema |-> schema.name, fields |-> Fields(schema.rules, doc)]

\* matches: an HTML response whose requested URL fits the pattern.
Matches(schema, doc) == doc.html /\ doc.url \in schema.pattern

-----------------------------------------------------------------------------
\* from_dir opens the directory.
FromDir ==
  /\ phase = "new"
  /\ phase' = "loading"
  /\ unread' = File
  /\ UNCHANGED <<extractors, document, turn, records, panicked>>

\* Mutant: a file with an error ends the loading.
ReadEntryStopping(f) ==
  /\ phase = "loading" /\ f \in unread
  /\ unread' = IF Loads(f) THEN unread \ {f} ELSE {}
  /\ extractors' = IF f.toml /\ Loads(f) THEN extractors \o f.schemas ELSE extractors
  /\ UNCHANGED <<phase, document, turn, records, panicked>>

\* from_dir, one turn of its loop, in the order the file system likes: another
\* extension, an error of reading or compiling, or the schemas of the file.
ReadEntry(f) ==
  /\ phase = "loading" /\ f \in unread
  /\ unread' = unread \ {f}
  /\ extractors' = IF f.toml /\ Loads(f) THEN extractors \o f.schemas ELSE extractors
  /\ UNCHANGED <<phase, document, turn, records, panicked>>

\* from_dir: reading the directory fails, and what was loaded is dropped.
DirFails ==
  /\ phase = "loading"
  /\ phase' = "new"
  /\ unread' = {}
  /\ extractors' = <<>>
  /\ UNCHANGED <<document, turn, records, panicked>>

\* from_dir returns the registry.
Loaded ==
  /\ phase = "loading" /\ unread = {}
  /\ phase' = "loaded"
  /\ UNCHANGED <<unread, extractors, document, turn, records, panicked>>

\* extract_all(response)
ExtractAll(doc) ==
  /\ phase = "loaded"
  /\ phase' = "extracting"
  /\ document' = doc
  /\ UNCHANGED <<unread, extractors, turn, records, panicked>>

\* Mutant: an extraction that fails ends the loop.
ExtractNextStopping(panics) ==
  LET schema == extractors[turn + 1]
  IN  /\ phase = "extracting" /\ turn < Len(extractors)
      /\ Matches(schema, document) \/ ~panics
      /\ turn' = IF panics THEN Len(extractors) ELSE turn + 1
      /\ records' = IF Matches(schema, document) /\ document.utf8 /\ ~panics
                    THEN Append(records, Extract(schema, document))
                    ELSE records
      /\ panicked' = IF panics THEN panicked \cup {turn + 1} ELSE panicked
      /\ UNCHANGED <<phase, unread, extractors, document>>

\* extract_all, one turn of its loop: an extractor that does not match is passed
\* over; one that does runs in a blocking task, which may panic, and its errors
\* are passed over too.
ExtractNext(panics) ==
  LET schema == extractors[turn + 1]
  IN  /\ phase = "extracting" /\ turn < Len(extractors)
      /\ turn' = turn + 1
      /\ Matches(schema, document) \/ ~panics
      /\ records' = IF Matches(schema, document) /\ document.utf8 /\ ~panics
                    THEN Append(records, Extract(schema, document))
                    ELSE records
      /\ panicked' = IF panics THEN panicked \cup {turn + 1} ELSE panicked
      /\ UNCHANGED <<phase, unread, extractors, document>>

\* extract_all returns the records.
ReturnRecords ==
  /\ phase = "extracting" /\ turn = Len(extractors)
  /\ phase' = "loaded"
  /\ document' = NoDocument
  /\ turn' = 0
  /\ records' = <<>>
  /\ panicked' = {}
  /\ UNCHANGED <<unread, extractors>>

RegistryNext ==
  \/ FromDir \/ (\E f \in unread : ReadEntry(f)) \/ DirFails \/ Loaded
  \/ \E doc \in Document : ExtractAll(doc)
  \/ \E panics \in BOOLEAN : ExtractNext(panics)
  \/ ReturnRecords

RegistrySpec == RegistryInit /\ [][RegistryNext]_registryVars

-----------------------------------------------------------------------------
\* "a bad schema file should not abort startup" (extractor.rs:460-461): once the
\* directory is read, the registry has the schemas of every good file and of no
\* other, file by file, whatever bad files lie beside them and in whatever order
\* the entries come.
GoodFilesAreLoaded ==
  phase \in {"loaded", "extracting"} =>
    \E order \in SetToSeqs({f \in File : f.toml /\ Loads(f)}) :
      extractors = FlattenSeq([i \in 1..Len(order) |-> order[i].schemas])

\* The visited extractors, up to the n-th, that owe a record.
Due(n) ==
  {i \in 1..n : document.utf8 /\ Matches(extractors[i], document) /\ i \notin panicked}

\* "one bad schema should not suppress others" (extractor.rs:510-511): the records
\* are those of the extractors that match and whose own task did not panic, in
\* the order of the registry.
RecordsAreIndependent ==
  phase = "extracting" =>
    /\ Len(records) = Cardinality(Due(turn))
    /\ \A i \in Due(turn) : records[Cardinality(Due(i))].schema = extractors[i].name

\* The rules of a schema that put a value into the record of a document.
Telling(schema, doc) ==
  {i \in 1..Len(schema.rules) : ~schema.rules[i].optional \/ Value(doc, schema.rules[i]) # Null}

\* A record has the fields it was asked for: each has the value of the last rule
\* with its name, where an optional rule without a value counts for nothing and
\* does not hide what an earlier rule has found.
FieldsFollowTheRules ==
  \A k \in 1..Len(records) :
    \E e \in 1..Len(extractors) :
      LET schema == extractors[e]
          fields == records[k].fields
          rules == Telling(schema, document)
      IN  /\ schema.name = records[k].schema
          /\ DOMAIN fields = {schema.rules[i].name : i \in rules}
          /\ \A i \in rules :
               (\A j \in rules : schema.rules[j].name = schema.rules[i].name => j <= i)
                 => fields[schema.rules[i].name] = Value(document, schema.rules[i])
=============================================================================
