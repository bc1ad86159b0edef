----------------------------- MODULE EngineProofs -----------------------------
(***************************************************************************)
(* Proofs about the page processing, whose modules share nothing.          *)
(* HtmlParser: its links are, in the order of the document, exactly the    *)
(* pages of the web that the visited anchors mention.  Configuration: no   *)
(* good override spoils a file that loads.  SchemaRegistry: what the good  *)
(* files hold is loaded, no record depends on another, and the fields      *)
(* follow the rules.                                                       *)
(***************************************************************************)
EXTENDS HtmlParser, SchemaRegistry, Configuration, FiniteSetTheorems, SequenceTheorems,
        Recursion, TLAPS

\* What an anchor stands for, said without the javascript: and mailto: prefixes
\* (parser.rs:163-187): the test of the scheme makes the test of the prefix a mere
\* shortcut.
LEMMA TargetIsOfTheWeb ==
  ASSUME NEW b \in Url, NEW h \in Href
  PROVE  /\ Target(b, h) # NoUrl <=> h \notin Local /\ Join[b][h] \in Web
         /\ Target(b, h) # NoUrl => /\ Target(b, h) = Bare[Join[b][h]]
                                    /\ Target(b, h) \in Web
                                    /\ Bare[Target(b, h)] = Target(b, h)
<1>1. Join[b][h] \in Web => Bare[Join[b][h]] \in Web /\ Bare[Join[b][h]] # NoUrl
  BY UrlAssumption, BareAssumption
<1>2. Join[b][h] \in Web => Bare[Bare[Join[b][h]]] = Bare[Join[b][h]]
  BY UrlAssumption, BareAssumption
<1>3. h \in Scripts => Join[b][h] \notin Web
  BY JoinAssumption
<1>. QED
  BY <1>1, <1>2, <1>3 DEF Target

\* The base is a URL, whatever the <base> elements say (parser.rs:134-141).
LEMMA BaseIsUrl ==
  ASSUME NEW r \in Response
  PROVE  /\ ResolveBaseUrl(r) \in Url
         /\ r.finalUrl \in Url /\ r.anchors \in Seq(Href)
<1>1. r.finalUrl \in Url /\ r.anchors \in Seq(Href) /\ r.bases \in Seq(Href)
  BY ResponseType
<1>2. CASE r.bases = <<>>
  BY <1>1, <1>2 DEF ResolveBaseUrl
<1>3. CASE r.bases # <<>>
  <2>1. Head(r.bases) \in Href
    BY <1>1, <1>3
  <2>2. Join[r.finalUrl][Head(r.bases)] \in Url \cup {NoUrl}
    BY <1>1, <2>1, JoinAssumption
  <2>. QED
    BY <1>1, <2>2 DEF ResolveBaseUrl
<1>. QED
  BY <1>2, <1>3, <1>1

LEMMA RestIsTyped == NoPage \in Response
  BY ResponseAssumption DEF NoPage

\* Before the first visit nothing is mentioned.
LEMMA NothingMentioned ==
  ASSUME NEW u, NEW b, NEW a PROVE Mentions(u, b, a, 0) = {}
  BY DEF Mentions

LEMMA InitInv == ParserInit => ParserInv
<1>. SUFFICES ASSUME ParserInit PROVE ParserInv
  OBVIOUS
<1>1. page \in Response /\ baseUrl \in Url /\ page.anchors \in Seq(Href)
  BY RestIsTyped, BaseIsUrl DEF ParserInit
<1>2. ParserTypeOK
  BY <1>1 DEF ParserInit, ParserTypeOK
<1>3. LinksAreTheMentioned /\ DocumentOrder
  BY NothingMentioned DEF ParserInit, LinksAreTheMentioned, DocumentOrder
<1>. QED
  BY <1>2, <1>3 DEF ParserInit, ParserInv

-----------------------------------------------------------------------------
\* A visit adds the anchor it visits to the mentions of that anchor's target, and
\* to no other's.
LEMMA VisitMentions ==
  ASSUME ParserInv, Visit, NEW u \in Url
  PROVE  LET t == Target(baseUrl, page.anchors[visited + 1])
         IN  Mentions(u, baseUrl, page.anchors, visited + 1) =
               Mentions(u, baseUrl, page.anchors, visited)
                 \cup (IF t = u THEN {visited + 1} ELSE {})
<1>. DEFINE t == Target(baseUrl, page.anchors[visited + 1])
<1>1. /\ visited \in Nat /\ visited < Len(page.anchors) /\ visited' = visited + 1
      /\ page' = page /\ baseUrl' = baseUrl
      /\ baseUrl \in Url /\ page \in Response
  BY BaseIsUrl DEF ParserInv, ParserTypeOK, Visit
<1>2. page.anchors \in Seq(Href)
  BY <1>1, BaseIsUrl
<1>3. page.anchors[visited + 1] \in Href
  BY <1>1, <1>2
<1>4. t = u <=> /\ page.anchors[visited + 1] \notin Local
                /\ Join[baseUrl][page.anchors[visited + 1]] \in Web
                /\ Bare[Join[baseUrl][page.anchors[visited + 1]]] = u
  BY <1>1, <1>3, TargetIsOfTheWeb, UrlAssumption
<1>5. 1..(visited + 1) = 1..visited \cup {visited + 1}
  BY <1>1
<1>. QED
  BY <1>1, <1>4, <1>5 DEF Mentions

LEMMA VisitInv == ParserInv /\ Visit => ParserInv'
<1>. SUFFICES ASSUME ParserInv, Visit PROVE ParserInv'
  OBVIOUS
<1>. DEFINE u == Target(baseUrl, page.anchors[visited + 1])
            Old(w) == Mentions(w, baseUrl, page.anchors, visited)
            New(w) == Mentions(w, baseUrl, page.anchors, visited + 1)
<1>1. /\ parsing = "links" /\ visited \in Nat /\ visited < Len(page.anchors)
      /\ visited' = visited + 1
      /\ parsing' = parsing /\ page' = page /\ baseUrl' = baseUrl
      /\ page \in Response /\ baseUrl \in Url /\ seen \subseteq Url /\ links \in Seq(Url)
  BY DEF ParserInv, ParserTypeOK, Visit
<1>2. page.anchors \in Seq(Href) /\ page.anchors[visited + 1] \in Href
  BY <1>1, BaseIsUrl
<1>3. u # NoUrl => u \in Web /\ Bare[u] = u /\ u \in Url
  BY <1>1, <1>2, TargetIsOfTheWeb, UrlAssumption
<1>4. \A w \in Url : New(w) = Old(w) \cup (IF u = w THEN {visited + 1} ELSE {})
  BY VisitMentions
<1>5. \A w \in Url : w \in seen <=> Old(w) # {}
  BY DEF ParserInv, LinksAreTheMentioned
<1>6. \A w, m : m \in Old(w) => m \in Nat /\ m < visited + 1
  BY <1>1 DEF Mentions
<1>7. \A i \in 1..Len(links) : links[i] \in seen /\ links[i] \in Url
  BY <1>1 DEF ParserInv, LinksAreTheMentioned
<1>8. ASSUME /\ \A w \in Url : w \in seen' <=> New(w) # {}
             /\ \A i \in 1..Len(links') :
                  links'[i] \in seen' /\ links'[i] \in Web /\ Bare[links'[i]] = links'[i]
             /\ \A w \in seen' : \E i \in 1..Len(links') : links'[i] = w
             /\ \A i, j \in 1..Len(links') : links'[i] = links'[j] => i = j
      PROVE  LinksAreTheMentioned'
  BY <1>1, <1>8 DEF LinksAreTheMentioned
<1>9. ASSUME \A i, j \in 1..Len(links') : i < j =>
               \A n \in New(links'[j]) : \E m \in New(links'[i]) : m < n
      PROVE  DocumentOrder'
  BY <1>1, <1>9 DEF DocumentOrder
<1>10. CASE u = NoUrl \/ u \in seen
  <2>1. seen' = seen /\ links' = links
    BY <1>10 DEF Visit
  <2>2. ParserTypeOK'
    BY <1>1, <1>2, <2>1 DEF ParserTypeOK
  <2>3. \A w \in Url : w \in seen' <=> New(w) # {}
    BY <1>4, <1>5, <1>10, <2>1, UrlAssumption
  <2>4. LinksAreTheMentioned'
    BY <1>8, <2>1, <2>3 DEF ParserInv, LinksAreTheMentioned
  <2>5. DocumentOrder'
    <3>. SUFFICES ASSUME NEW i \in 1..Len(links), NEW j \in 1..Len(links), i < j,
                         NEW n \in New(links[j])
                  PROVE  \E m \in New(links[i]) : m < n
      BY <1>9, <2>1
    <3>1. CASE n \in Old(links[j])
      <4>1. PICK m \in Old(links[i]) : m < n
        BY <3>1 DEF ParserInv, DocumentOrder
      <4>. QED
        BY <4>1, <1>4, <1>7
    <3>2. CASE n = visited + 1
      <4>1. PICK m : m \in Old(links[i])
        BY <1>5, <1>7
      <4>. QED
        BY <3>2, <4>1, <1>4, <1>6, <1>7
    <3>. QED
      BY <3>1, <3>2, <1>4, <1>7
  <2>. QED
    BY <1>1, <2>2, <2>4, <2>5 DEF ParserInv
<1>11. CASE u # NoUrl /\ u \notin seen
  <2>1. seen' = seen \cup {u} /\ links' = Append(links, u)
    BY <1>11 DEF Visit
  <2>2. /\ Len(links') = Len(links) + 1 /\ links'[Len(links) + 1] = u
        /\ \A i \in 1..Len(links) : links'[i] = links[i]
        /\ Len(links) \in Nat /\ links' \in Seq(Url)
    BY <1>1, <1>3, <1>11, <2>1
  <2>3. ParserTypeOK'
    BY <1>1, <1>2, <1>3, <1>11, <2>1, <2>2 DEF ParserTypeOK
  <2>4. \A w \in Url : w \in seen' <=> New(w) # {}
    BY <1>3, <1>4, <1>5, <1>11, <2>1
  <2>5. LinksAreTheMentioned'
    <3>1. \A i \in 1..Len(links') :
            links'[i] \in seen' /\ links'[i] \in Web /\ Bare[links'[i]] = links'[i]
      BY <1>3, <1>11, <2>1, <2>2 DEF ParserInv, LinksAreTheMentioned
    <3>2. \A w \in seen' : \E i \in 1..Len(links') : links'[i] = w
      <4>. SUFFICES ASSUME NEW w \in seen' PROVE \E i \in 1..Len(links') : links'[i] = w
        OBVIOUS
      <4>1. CASE w = u
        BY <4>1, <2>2
      <4>2. CASE w \in seen
        <5>1. PICK i \in 1..Len(links) : links[i] = w
          BY <4>2 DEF ParserInv, LinksAreTheMentioned
        <5>. QED
          BY <5>1, <2>2
      <4>. QED
        BY <4>1, <4>2, <2>1
    <3>3. \A i, j \in 1..Len(links') : links'[i] = links'[j] => i = j
      BY <1>7, <1>11, <2>2 DEF ParserInv, LinksAreTheMentioned
    <3>. QED
      BY <1>8, <2>4, <3>1, <3>2, <3>3
  <2>6. DocumentOrder'
    <3>. SUFFICES ASSUME NEW i \in 1..Len(links'), NEW j \in 1..Len(links'), i < j,
                         NEW n \in New(links'[j])
                  PROVE  \E m \in New(links'[i]) : m < n
      BY <1>9
    <3>1. i \in 1..Len(links) /\ links'[i] = links[i]
      BY <2>2
    <3>2. CASE n = visited + 1
      <4>1. PICK m : m \in Old(links[i])
        BY <1>5, <1>7, <3>1
      <4>. QED
        BY <3>1, <3>2, <4>1, <1>4, <1>6, <1>7
    <3>3. CASE n # visited + 1
      <4>1. links'[j] \in Url
        BY <2>2
      <4>2. n \in Old(links'[j])
        BY <1>4, <3>3, <4>1
      <4>3. links'[j] \in seen
        BY <1>5, <4>1, <4>2
      <4>4. j \in 1..Len(links) /\ links'[j] = links[j]
        BY <1>11, <2>2, <4>3
      <4>5. PICK m \in Old(links[i]) : m < n
        BY <3>1, <4>2, <4>4 DEF ParserInv, DocumentOrder
      <4>. QED
        BY <3>1, <4>5, <1>4, <1>7
    <3>. QED
      BY <3>2, <3>3
  <2>. QED
    BY <1>1, <2>3, <2>5, <2>6 DEF ParserInv
<1>. QED
  BY <1>10, <1>11

-----------------------------------------------------------------------------
LEMMA ParseInv ==
  ASSUME ParserInv, NEW r \in Response, Parse(r)
  PROVE  ParserInv'
<1>1. /\ visited' = 0 /\ seen' = {} /\ links' = <<>>
      /\ page' = r /\ parsing' = "links" /\ baseUrl' = ResolveBaseUrl(r)
  BY DEF ParserInv, Parse
<1>2. ParserTypeOK'
  BY <1>1, BaseIsUrl DEF ParserTypeOK
<1>3. LinksAreTheMentioned' /\ DocumentOrder'
  BY <1>1, NothingMentioned DEF LinksAreTheMentioned, DocumentOrder
<1>. QED
  BY <1>1, <1>2, <1>3 DEF ParserInv

LEMMA ReturnInv == ReturnPage => ParserInv'
<1>. SUFFICES ASSUME ReturnPage PROVE ParserInv'
  OBVIOUS
<1>1. /\ visited' = 0 /\ seen' = {} /\ links' = <<>>
      /\ page' = NoPage /\ parsing' = "idle" /\ baseUrl' = NoPage.finalUrl
  BY DEF ReturnPage
<1>2. ParserTypeOK'
  BY <1>1, RestIsTyped, BaseIsUrl DEF ParserTypeOK
<1>3. LinksAreTheMentioned' /\ DocumentOrder'
  BY <1>1, NothingMentioned DEF LinksAreTheMentioned, DocumentOrder
<1>. QED
  BY <1>1, <1>2, <1>3 DEF ParserInv

LEMMA StutterInv == ParserInv /\ UNCHANGED parserVars => ParserInv'
  BY DEF ParserInv, ParserTypeOK, LinksAreTheMentioned, DocumentOrder, parserVars

\* ParserInv holds throughout every call of parse.
THEOREM InvHolds == ParserSpec => []ParserInv
<1>1. ParserInv /\ [ParserNext]_parserVars => ParserInv'
  BY ParseInv, VisitInv, ReturnInv, StutterInv DEF ParserNext
<1>. QED
  BY InitInv, <1>1, PTL DEF ParserSpec

\* Whatever the page, its <base> and the spelling of its hrefs, the links are the
\* pages of the web that its anchors mention, once each and without fragments
\* (parser.rs:152-203).
THEOREM LinksAreRight == ParserSpec => []LinksAreTheMentioned
  BY InvHolds, PTL DEF ParserInv

\* The links keep the order of the document (parser.rs:197-199).
THEOREM OrderIsKept == ParserSpec => []DocumentOrder
  BY InvHolds, PTL DEF ParserInv
-----------------------------------------------------------------------------
\* Configuration: a variable for a key of one of the file's tables gives the merged
\* layers no table that the file does not have.
LEMMA TablesOfOverrides ==
  ASSUME NEW file, NEW env, \A p \in DOMAIN env : p[1] \in Tables(file)
  PROVE  Tables(Merged(file, env)) \subseteq Tables(file)
<1>1. DOMAIN Merged(file, env) = DOMAIN file \cup DOMAIN env
  BY DEF Merged
<1>2. "export.clickhouse" \in Tables(file) => "export" \in Tables(file)
  BY DEF Tables
<1>3. {p[1] : p \in DOMAIN Merged(file, env)} \subseteq Tables(file)
  BY <1>1 DEF Tables
<1>4. QED BY <1>2, <1>3 DEF Tables

\* What the file says of each field is still there, or is overridden by a value of
\* the right type.
LEMMA OverridesDeserialize ==
  ASSUME NEW file, NEW env, Deserializes(file),
         \A p \in DOMAIN env : p[1] \in Tables(file) /\ env[p] = "env"
  PROVE  Deserializes(Merged(file, env))
<1> DEFINE given == Merged(file, env)
<1> SUFFICES ASSUME NEW f \in Field, f[1] \in Tables(given)
             PROVE  IF f \in DOMAIN given THEN given[f] # "bad" ELSE f \in Optional
  BY DEF Deserializes
<1>1. f[1] \in Tables(file)
  BY TablesOfOverrides
<1>2. IF f \in DOMAIN file THEN file[f] # "bad" ELSE f \in Optional
  BY <1>1 DEF Deserializes
<1>3. /\ DOMAIN given = DOMAIN file \cup DOMAIN env
      /\ f \in DOMAIN given => given[f] = IF f \in DOMAIN env THEN env[f] ELSE file[f]
  BY DEF Merged
<1>4. QED BY <1>2, <1>3

\* A load whose layers deserialize is not an error.
LEMMA LoadSucceeds ==
  ASSUME NEW file \in ConfigFile, NEW env \in Environment, Load(file, env),
         file # NoFile, Deserializes(Merged(file, env))
  PROVE  config' # Invalid
<1> DEFINE given == Merged(file, env)
<1>1. config' = [f \in Field |-> IF f \in DOMAIN given THEN given[f] ELSE "default"]
  BY DEF Load
<1>2. ASSUME NEW f \in Field, f \in DOMAIN given PROVE given[f] \in {"env", "file"}
  <2>1. given[f] # "bad"
    BY <1>2 DEF Deserializes, Tables
  <2>2. given[f] \in {"env", "file", "bad"}
    BY <1>2, LayerAssumption DEF Merged
  <2>3. QED BY <2>1, <2>2
<1>3. config' \in [Field -> {"env", "file", "default"}]
  <2> HIDE DEF given
  <2> QED BY <1>1, <1>2
<1>4. QED BY <1>3, InvalidAssumption

\* If a file loads by itself, variables of the right type for keys of its own tables
\* never fail the load, in whatever files and environments (config.rs:48-66).
THEOREM OverridesAreSafe == ConfigSpec => []OverridesSpoilNothing
<1>1. ASSUME config = Defaults PROVE OverridesSpoilNothing
  <2>1. config \in [Field -> {"env", "file", "default"}]
    BY <1>1 DEF Defaults
  <2>2. QED BY <2>1, InvalidAssumption DEF OverridesSpoilNothing
<1>2. ConfigInit => OverridesSpoilNothing
  BY <1>1 DEF ConfigInit
<1>3. OverridesSpoilNothing /\ [ConfigNext]_configVars => OverridesSpoilNothing'
  <2>1. ASSUME DefaultConfig PROVE OverridesSpoilNothing'
    <3>1. config' \in [Field -> {"env", "file", "default"}]
      BY <2>1 DEF DefaultConfig, Defaults
    <3>2. QED BY <3>1, InvalidAssumption DEF OverridesSpoilNothing
  <2>2. OverridesSpoilNothing /\ UNCHANGED configVars => OverridesSpoilNothing'
    BY DEF configVars, OverridesSpoilNothing, Deserializes, Tables
  <2>3. ASSUME NEW file \in ConfigFile \cup {NoFile}, NEW env \in Environment,
               Load(file, env)
        PROVE  OverridesSpoilNothing'
    <3>1. layers'.file = file /\ layers'.env = env
      BY <2>3 DEF Load
    <3>2. SUFFICES ASSUME file # NoFile, Deserializes(file),
                          \A p \in DOMAIN env : p[1] \in Tables(file) /\ env[p] = "env"
                   PROVE  config' # Invalid
      BY <3>1 DEF OverridesSpoilNothing, Deserializes, Tables
    <3>3. QED BY <2>3, <3>2, OverridesDeserialize, LoadSucceeds
  <2>4. QED BY <2>1, <2>2, <2>3 DEF ConfigNext
<1>4. QED BY <1>2, <1>3, PTL DEF ConfigSpec

-----------------------------------------------------------------------------
\* SchemaRegistry: the phases of the registry, and what each of them leaves behind.
RegistryInv ==
  /\ phase \in {"new", "loading", "loaded", "extracting"}
  /\ unread \subseteq File
  /\ extractors \in Seq(Schema)
  /\ turn \in 0..Len(extractors)
  /\ panicked \subseteq 1..turn
  /\ phase = "new" => extractors = <<>>
  /\ phase \in {"loaded", "extracting"} => unread = {}
  /\ phase # "extracting" => turn = 0 /\ records = <<>> /\ panicked = {}

\* A new registry is empty.
LEMMA InitRegistryInv == RegistryInit => RegistryInv
BY DEF RegistryInit, RegistryInv

\* Each step moves the phases on as RegistryInv says; only a loading changes the extractors.
LEMMA RegistryStep ==
  ASSUME RegistryInv, [RegistryNext]_registryVars
  PROVE  RegistryInv'
<1> USE DEF RegistryInv
<1>1. CASE FromDir
  BY <1>1 DEF FromDir
<1>2. ASSUME NEW f \in unread, ReadEntry(f) PROVE RegistryInv'
  <2>1. f.schemas \in Seq(Schema)
    BY <1>2, FileAssumption
  <2>2. extractors' \in Seq(Schema) /\ turn = 0
    BY <1>2, <2>1 DEF ReadEntry
  <2> QED
    BY <1>2, <2>2 DEF ReadEntry
<1>3. CASE DirFails
  BY <1>3 DEF DirFails
<1>4. CASE Loaded
  BY <1>4 DEF Loaded
<1>5. ASSUME NEW doc \in Document, ExtractAll(doc) PROVE RegistryInv'
  BY <1>5 DEF ExtractAll
<1>6. ASSUME NEW panics \in BOOLEAN, ExtractNext(panics) PROVE RegistryInv'
  BY <1>6 DEF ExtractNext
<1>7. CASE ReturnRecords
  BY <1>7 DEF ReturnRecords
<1>8. CASE UNCHANGED registryVars
  BY <1>8 DEF registryVars
<1> QED
  BY <1>1, <1>2, <1>3, <1>4, <1>5, <1>6, <1>7, <1>8 DEF RegistryNext

\* What is due up to an extractor that was visited does not change any more.
LEMMA DueStays ==
  ASSUME RegistryInv, NEW panics \in BOOLEAN, ExtractNext(panics), NEW n \in 0..turn
  PROVE  Due(n)' = Due(n)
<1>1. \A i \in 1..n : i \in panicked' <=> i \in panicked
  BY DEF ExtractNext, RegistryInv
<1>2. UNCHANGED <<extractors, document>>
  BY DEF ExtractNext
<1> QED
  BY <1>1, <1>2 DEF Due

\* What is due can be counted.
LEMMA DueIsFinite ==
  ASSUME NEW n \in Nat
  PROVE  IsFiniteSet(Due(n)) /\ Cardinality(Due(n)) \in Nat
<1>1. IsFiniteSet(1..n)
  BY FS_Interval
<1>2. Due(n) \subseteq 1..n
  BY DEF Due
<1> QED
  BY <1>1, <1>2, FS_Subset, FS_CardinalityType

\* An extraction is due as one more than those before it.
LEMMA DueRank ==
  ASSUME NEW n \in Nat, NEW i \in Due(n)
  PROVE  Cardinality(Due(i)) \in 1..Cardinality(Due(n))
<1>1. i \in Nat /\ i <= n /\ i \in Due(i) /\ Due(i) \subseteq Due(n)
  BY DEF Due
<1>2. Cardinality(Due(i)) <= Cardinality(Due(n)) /\ Cardinality(Due(i)) \in Nat
      /\ Cardinality(Due(n)) \in Nat /\ IsFiniteSet(Due(i))
  BY <1>1, DueIsFinite, FS_Subset
<1>3. Cardinality(Due(i)) # 0
  BY <1>1, <1>2, FS_EmptySet
<1> QED
  BY <1>2, <1>3

\* The records are those of visited extractors, on the document of the call.
ExtractedRecord == {Extract(s, d) : s \in Schema, d \in Document \cup {NoDocument}}

RecordsInv ==
  /\ document \in Document \cup {NoDocument}
  /\ records \in Seq(ExtractedRecord)
  /\ \A k \in 1..Len(records) : \E e \in 1..turn : records[k] = Extract(extractors[e], document)

\* No extraction has begun yet.
LEMMA InitRecordsInv == RegistryInit => RecordsInv
BY DEF RegistryInit, RecordsInv

\* What one turn of the loop of extract_all does to the records.
LEMMA ExtractEffect ==
  ASSUME RegistryInv, RecordsInv, NEW panics \in BOOLEAN, ExtractNext(panics)
  PROVE  LET next == turn + 1
             owed == document.utf8 /\ Matches(extractors[next], document) /\ ~panics
         IN  /\ turn' = next /\ next \in 1..Len(extractors) /\ phase = "extracting"
             /\ phase' = phase
             /\ UNCHANGED <<extractors, document>>
             /\ Extract(extractors[next], document) \in ExtractedRecord
             /\ owed => records' = Append(records, Extract(extractors[next], document))
             /\ ~owed => records' = records
             /\ Due(turn)' = Due(turn) \cup {i \in {next} : owed}
<1> DEFINE next == turn + 1
<1>1. /\ turn' = next /\ next \in 1..Len(extractors) /\ phase = "extracting" /\ phase' = phase
      /\ UNCHANGED <<extractors, document>> /\ panicked \subseteq 1..turn /\ turn \in Nat
      /\ panicked' = IF panics THEN panicked \cup {next} ELSE panicked
  BY DEF ExtractNext, RegistryInv
<1>2. extractors[next] \in Schema
  BY <1>1 DEF RegistryInv
<1>3. Extract(extractors[next], document) \in ExtractedRecord
  BY <1>2 DEF ExtractedRecord, RecordsInv
<1>4. \A i \in 1..next : i = next \/ i \in 1..turn
  BY <1>1
<1>5. \A i \in 1..turn : i \in 1..next /\ i # next /\ (i \in panicked' <=> i \in panicked)
  BY <1>1
<1>6. next \in 1..next /\ next \notin panicked
  BY <1>1
<1> HIDE DEF next
<1>7. Due(turn)' = Due(turn)
        \cup {i \in {next} : document.utf8 /\ Matches(extractors[next], document) /\ ~panics}
  BY <1>1, <1>4, <1>5, <1>6 DEF Due
<1> QED
  BY <1>1, <1>3, <1>7 DEF ExtractNext, next

\* A record comes from the visited extractor alone.
LEMMA RecordsStep ==
  ASSUME RegistryInv, RecordsInv, [RegistryNext]_registryVars
  PROVE  RecordsInv'
<1>1. ASSUME UNCHANGED <<document, turn, records, extractors>> PROVE RecordsInv'
  BY <1>1 DEF RecordsInv
<1>2. CASE FromDir \/ Loaded \/ UNCHANGED registryVars
  BY <1>1, <1>2 DEF FromDir, Loaded, registryVars
<1>3. ASSUME records' = <<>>, document' \in Document \cup {NoDocument} PROVE RecordsInv'
  BY <1>3 DEF RecordsInv
<1>4. CASE DirFails
  BY <1>3, <1>4 DEF DirFails, RegistryInv, RecordsInv
<1>5. ASSUME NEW f \in unread, ReadEntry(f) PROVE RecordsInv'
  BY <1>3, <1>5 DEF ReadEntry, RegistryInv, RecordsInv
<1>6. ASSUME NEW doc \in Document, ExtractAll(doc) PROVE RecordsInv'
  BY <1>3, <1>6 DEF ExtractAll, RegistryInv
<1>7. CASE ReturnRecords
  BY <1>3, <1>7 DEF ReturnRecords
<1>8. ASSUME NEW panics \in BOOLEAN, ExtractNext(panics) PROVE RecordsInv'
  <2> DEFINE r == Extract(extractors[turn + 1], document)
  <2>1. /\ turn' = turn + 1 /\ turn \in Nat /\ turn + 1 \in 1..turn + 1
        /\ UNCHANGED <<extractors, document>>
        /\ r \in ExtractedRecord /\ records' \in {records, Append(records, r)}
    BY <1>8, ExtractEffect DEF RegistryInv
  <2> HIDE DEF r
  <2>2. records' \in Seq(ExtractedRecord)
    BY <2>1 DEF RecordsInv
  <2>3. ASSUME NEW k \in 1..Len(records')
        PROVE  \E e \in 1..turn' : records'[k] = Extract(extractors'[e], document')
    <3>1. CASE k \in 1..Len(records)
      <4>1. records'[k] = records[k]
        BY <2>1, <3>1 DEF RecordsInv
      <4>2. PICK e \in 1..turn : records[k] = Extract(extractors[e], document)
        BY <3>1 DEF RecordsInv
      <4>3. e \in 1..turn'
        BY <2>1
      <4> QED
        BY <2>1, <4>1, <4>2, <4>3
    <3>2. CASE k \notin 1..Len(records)
      <4>1. records'[k] = r
        BY <2>1, <2>3, <3>2 DEF RecordsInv
      <4> QED
        BY <2>1, <4>1 DEF r
    <3> QED
      BY <3>1, <3>2
  <2> QED
    BY <2>1, <2>2, <2>3 DEF RecordsInv
<1> QED
  BY <1>2, <1>4, <1>5, <1>6, <1>7, <1>8 DEF RegistryNext

\* An extractor that is due has its record, in its place.
LEMMA IndependenceStep ==
  ASSUME RegistryInv, RecordsInv, RecordsAreIndependent, [RegistryNext]_registryVars
  PROVE  RecordsAreIndependent'
<1>1. ASSUME phase' # "extracting" PROVE RecordsAreIndependent'
  BY <1>1 DEF RecordsAreIndependent
<1>2. CASE FromDir \/ Loaded \/ DirFails \/ ReturnRecords
  BY <1>1, <1>2 DEF FromDir, Loaded, DirFails, ReturnRecords
<1>3. CASE UNCHANGED registryVars
  BY <1>3 DEF RecordsAreIndependent, Due, registryVars
<1>4. ASSUME NEW f \in unread, ReadEntry(f) PROVE RecordsAreIndependent'
  BY <1>1, <1>4 DEF ReadEntry
<1>5. ASSUME NEW doc \in Document, ExtractAll(doc) PROVE RecordsAreIndependent'
  <2>1. turn' = 0 /\ records' = <<>>
    BY <1>5 DEF ExtractAll, RegistryInv
  <2>2. Due(turn)' = {}
    BY <2>1 DEF Due
  <2> QED
    BY <2>1, <2>2, FS_EmptySet DEF RecordsAreIndependent
<1>6. ASSUME NEW panics \in BOOLEAN, ExtractNext(panics) PROVE RecordsAreIndependent'
  <2> DEFINE next == turn + 1
             schema == extractors[next]
             owed == document.utf8 /\ Matches(schema, document) /\ ~panics
             r == Extract(schema, document)
  <2>1. /\ turn' = next /\ turn \in Nat /\ phase = "extracting"
        /\ UNCHANGED <<extractors, document>> /\ r \in ExtractedRecord
        /\ owed => records' = Append(records, r)
        /\ ~owed => records' = records
        /\ Due(turn)' = Due(turn) \cup {i \in {next} : owed}
    BY <1>6, ExtractEffect DEF RegistryInv
  <2>2. r.schema = schema.name
    BY DEF Extract
  <2>3. /\ records \in Seq(ExtractedRecord)
        /\ Len(records) = Cardinality(Due(turn))
        /\ \A i \in Due(turn) : records[Cardinality(Due(i))].schema = extractors[i].name
    BY <2>1 DEF RecordsInv, RecordsAreIndependent
  <2>4. IsFiniteSet(Due(turn)) /\ Due(turn) \subseteq 1..turn
    BY <2>1, DueIsFinite DEF Due
  <2>5. \A i \in Due(turn) : Due(i)' = Due(i) /\ Cardinality(Due(i)) \in 1..Len(records)
    <3> SUFFICES ASSUME NEW i \in Due(turn)
                 PROVE  Due(i)' = Due(i) /\ Cardinality(Due(i)) \in 1..Len(records)
      OBVIOUS
    <3>1. i \in 0..turn
      BY <2>1, <2>4
    <3>2. Due(i)' = Due(i)
      BY <1>6, <3>1, DueStays
    <3> QED
      BY <2>1, <2>3, <3>2, DueRank
  <2>6. next \notin Due(turn)
    BY <2>1, <2>4
  <2>7. Cardinality(Due(turn) \cup {next}) = Len(records) + 1
    BY <2>3, <2>4, <2>6, FS_AddElement
  <2> HIDE DEF next, r, schema
  <2>8. CASE ~owed
    <3>1. Due(turn)' = Due(turn) /\ records' = records
      BY <2>1, <2>8
    <3> QED
      BY <2>1, <2>3, <2>5, <3>1 DEF RecordsAreIndependent
  <2>9. CASE owed
    <3>1. Due(turn)' = Due(turn) \cup {next} /\ records' = Append(records, r)
      BY <2>1, <2>9
    <3>2. Len(records') = Cardinality(Due(turn)')
      BY <2>3, <2>7, <3>1
    <3>3. ASSUME NEW i \in Due(turn)'
          PROVE  records'[Cardinality(Due(i)')].schema = extractors'[i].name
      <4>1. CASE i \in Due(turn)
        <5>1. records'[Cardinality(Due(i))] = records[Cardinality(Due(i))]
          BY <2>3, <2>5, <3>1, <4>1
        <5> QED
          BY <2>1, <2>3, <2>5, <4>1, <5>1
      <4>2. CASE i = next
        <5>1. Due(i)' = Due(turn)'
          BY <2>1, <4>2 DEF Due
        <5>2. Cardinality(Due(i)') = Len(records) + 1
          BY <2>7, <3>1, <5>1
        <5>3. records'[Len(records) + 1] = r
          BY <2>3, <3>1
        <5> QED
          BY <2>1, <2>2, <4>2, <5>2, <5>3 DEF schema
      <4> QED
        BY <3>1, <4>1, <4>2
    <3> QED
      BY <3>2, <3>3 DEF RecordsAreIndependent
  <2> QED
    BY <2>8, <2>9
<1> QED
  BY <1>2, <1>3, <1>4, <1>5, <1>6 DEF RegistryNext

\* A schema that panics or does not match costs nobody else a record, whatever the
\* registry and the documents (extractor.rs:510-511).
THEOREM RecordsIndependent == RegistrySpec => []RecordsAreIndependent
<1>1. RegistryInit => RecordsAreIndependent
  BY DEF RegistryInit, RecordsAreIndependent
<1>2. RegistryInit => RegistryInv /\ RecordsInv
  BY InitRegistryInv, InitRecordsInv
<1>3. RegistryInv /\ RecordsInv /\ RecordsAreIndependent /\ [RegistryNext]_registryVars
        => (RegistryInv /\ RecordsInv /\ RecordsAreIndependent)'
  BY RegistryStep, RecordsStep, IndependenceStep
<1> QED
  BY <1>1, <1>2, <1>3, PTL DEF RegistrySpec

-----------------------------------------------------------------------------
\* The fields after the first n rules.
FieldsAfter(rules, doc, f) ==
  f = [n \in 0..Len(rules) |-> IF n = 0 THEN <<>> ELSE AddField(f[n - 1], rules[n], doc)]

\* The recursive function that gathers the fields is the one its equation describes:
\* its values are functions from names of the rules to values of the rules.
LEMMA FieldsUnfold ==
  ASSUME NEW rules \in Seq(Rule), NEW doc
  PROVE  \E f : FieldsAfter(rules, doc, f) /\ Fields(rules, doc) = f[Len(rules)]
<1> DEFINE N == {rules[i].name : i \in 1..Len(rules)}
           W == {Value(doc, rules[i]) : i \in 1..Len(rules)}
           V == UNION {[A -> W] : A \in SUBSET N}
           F(n, g) == IF n + 1 \in 1..Len(rules) THEN AddField(g, rules[n + 1], doc) ELSE g
           step == [p \in Nat \X V |-> F(p[1], p[2])]
<1>1. \A g : g \in V <=> \E A \in SUBSET N : g \in [A -> W]
  OBVIOUS
<1>2. <<>> \in V
  <2>1. <<>> \in [{} -> W]
    OBVIOUS
  <2> QED
    BY <1>1, <2>1
<1>3. ASSUME NEW g \in V, NEW n \in Nat PROVE F(n, g) \in V
  <2>1. PICK A \in SUBSET N : g \in [A -> W]
    BY <1>1
  <2>2. ASSUME NEW i \in 1..Len(rules) PROVE AddField(g, rules[i], doc) \in V
    <3>1. rules[i].name \in N /\ Value(doc, rules[i]) \in W
      OBVIOUS
    <3> HIDE DEF N, W
    <3>2. Insert(g, rules[i].name, Value(doc, rules[i])) \in [A \cup {rules[i].name} -> W]
      BY <2>1, <3>1 DEF Insert
    <3>3. A \cup {rules[i].name} \in SUBSET N
      BY <2>1, <3>1
    <3> HIDE DEF V
    <3> QED
      BY <1>1, <3>2, <3>3 DEF AddField
  <2> QED
    BY <2>2
<1>4. Len(rules) \in Nat
  OBVIOUS
<1> HIDE DEF V, F
<1>5. IsStep(V, step)
  BY <1>3 DEF IsStep
<1>6. PICK f : Computes(V, <<>>, step, Len(rules), f)
  <2> HIDE DEF step
  <2> QED
    BY <1>2, <1>4, <1>5, RecursionUpTo
<1>7. FieldsAfter(rules, doc, f)
  <2>1. f \in [0..Len(rules) -> V] /\ f[0] = <<>>
    BY <1>6 DEF Computes
  <2>2. ASSUME NEW n \in 0..Len(rules), n # 0 PROVE f[n] = AddField(f[n - 1], rules[n], doc)
    <3>1. n - 1 \in 0..Len(rules) - 1 /\ n - 1 \in Nat /\ (n - 1) + 1 = n /\ n - 1 \in 0..Len(rules)
      BY <1>4, <2>2
    <3>2. f[n - 1] \in V
      BY <2>1, <3>1
    <3>3. f[n] = step[<<n - 1, f[n - 1]>>]
      BY <1>6, <3>1 DEF Computes
    <3>4. f[n] = F(n - 1, f[n - 1])
      BY <3>1, <3>2, <3>3
    <3> QED
      BY <2>2, <3>1, <3>4 DEF F
  <2>3. \A n \in 0..Len(rules) :
          f[n] = IF n = 0 THEN <<>> ELSE AddField(f[n - 1], rules[n], doc)
    BY <2>1, <2>2
  <2> QED
    BY <2>1, <2>3 DEF FieldsAfter
<1> DEFINE after == CHOOSE g : FieldsAfter(rules, doc, g)
<1>8. FieldsAfter(rules, doc, after)
  BY <1>7
<1>9. Fields(rules, doc) = after[Len(rules)]
  BY DEF Fields, FieldsAfter
<1> QED
  BY <1>8, <1>9

\* The rules among the first n that put a value into the record.
TellingUpTo(rules, doc, n) ==
  {i \in 1..n : ~rules[i].optional \/ Value(doc, rules[i]) # Null}

\* The fields are those of these rules, each with the value of the last of its name.
FollowRules(fields, rules, doc, T) ==
  /\ DOMAIN fields = {rules[i].name : i \in T}
  /\ \A i \in T :
       (\A j \in T : rules[j].name = rules[i].name => j <= i)
         => fields[rules[i].name] = Value(doc, rules[i])

\* One more rule: it overwrites the field of its name, or is an optional one without a
\* value and leaves the others alone (extractor.rs:309-318).
LEMMA AddFieldFollows ==
  ASSUME NEW rules, NEW doc, NEW n \in Nat, NEW g,
         FollowRules(g, rules, doc, TellingUpTo(rules, doc, n))
  PROVE  FollowRules(AddField(g, rules[n + 1], doc), rules, doc, TellingUpTo(rules, doc, n + 1))
<1> DEFINE T == TellingUpTo(rules, doc, n)
           U == TellingUpTo(rules, doc, n + 1)
           rule == rules[n + 1]
           v == Value(doc, rule)
           h == AddField(g, rule, doc)
<1>1. T \subseteq 1..n
  BY DEF TellingUpTo
<1>2. \A i \in 1..n + 1 : i = n + 1 \/ i \in 1..n
  OBVIOUS
<1>3. n + 1 \in 1..n + 1 /\ 1..n \subseteq 1..n + 1
  OBVIOUS
<1>4. CASE v = Null /\ rule.optional
  <2>1. U = T
    BY <1>2, <1>3, <1>4 DEF TellingUpTo
  <2>2. h = g
    BY <1>4 DEF AddField
  <2> QED
    BY <2>1, <2>2
<1>5. CASE ~(v = Null /\ rule.optional)
  <2>1. U = T \cup {n + 1}
    BY <1>2, <1>3, <1>5 DEF TellingUpTo
  <2>2. h = [m \in DOMAIN g \cup {rule.name} |-> IF m = rule.name THEN v ELSE g[m]]
    BY <1>5 DEF AddField, Insert
  <2> HIDE DEF T, U, h, v
  <2>3. DOMAIN h = {rules[i].name : i \in U}
    BY <2>1, <2>2 DEF FollowRules, T
  <2>4. ASSUME NEW i \in U, \A j \in U : rules[j].name = rules[i].name => j <= i
        PROVE  h[rules[i].name] = Value(doc, rules[i])
    <3>1. CASE i = n + 1
      BY <2>2, <3>1 DEF v
    <3>2. CASE i \in T
      <4>1. rules[i].name # rule.name
        <5> SUFFICES ASSUME rules[i].name = rule.name PROVE FALSE
          OBVIOUS
        <5>1. n + 1 <= i
          BY <2>1, <2>4
        <5> QED
          BY <1>1, <3>2, <5>1
      <4>2. g[rules[i].name] = Value(doc, rules[i]) /\ rules[i].name \in DOMAIN g
        BY <2>1, <2>4, <3>2 DEF FollowRules, T
      <4> QED
        BY <2>2, <4>1, <4>2
    <3> QED
      BY <2>1, <3>1, <3>2
  <2> QED
    BY <2>3, <2>4 DEF FollowRules, U, h
<1> QED
  BY <1>4, <1>5

\* All rules, by induction over how many of them have been applied.
LEMMA FieldsFollow ==
  ASSUME NEW rules \in Seq(Rule), NEW doc
  PROVE  FollowRules(Fields(rules, doc), rules, doc, TellingUpTo(rules, doc, Len(rules)))
<1>1. PICK f : FieldsAfter(rules, doc, f) /\ Fields(rules, doc) = f[Len(rules)]
  BY FieldsUnfold
<1>2. Len(rules) \in Nat
  OBVIOUS
<1> DEFINE S == {n \in Nat : n <= Len(rules) =>
                   FollowRules(f[n], rules, doc, TellingUpTo(rules, doc, n))}
<1>3. 0 \in S
  <2>1. f[0] = <<>>
    BY <1>1, <1>2 DEF FieldsAfter
  <2>2. TellingUpTo(rules, doc, 0) = {}
    BY DEF TellingUpTo
  <2> QED
    BY <2>1, <2>2 DEF FollowRules
<1>4. ASSUME NEW n \in Nat, n \in S PROVE n + 1 \in S
  <2> SUFFICES ASSUME n + 1 <= Len(rules)
               PROVE  FollowRules(f[n + 1], rules, doc, TellingUpTo(rules, doc, n + 1))
    OBVIOUS
  <2>1. n + 1 \in 0..Len(rules) /\ n + 1 # 0 /\ (n + 1) - 1 = n /\ n <= Len(rules)
    BY <1>2
  <2>2. f[n + 1] = AddField(f[n], rules[n + 1], doc)
    BY <1>1, <2>1 DEF FieldsAfter
  <2> QED
    BY <1>4, <2>1, <2>2, AddFieldFollows
<1> HIDE DEF S
<1>5. Nat \subseteq S
  BY <1>3, <1>4, Induction
<1> QED
  BY <1>1, <1>2, <1>5 DEF S

\* A record has the fields it was asked for, each with the value of the last rule that
\* found one, whatever the schemas and the documents.
THEOREM FieldsAreRight == RegistrySpec => []FieldsFollowTheRules
<1>1. ASSUME RegistryInv, RecordsInv PROVE FieldsFollowTheRules
  <2> SUFFICES ASSUME NEW k \in 1..Len(records)
               PROVE  \E e \in 1..Len(extractors) :
                        LET schema == extractors[e]
                        IN  /\ schema.name = records[k].schema
                            /\ FollowRules(records[k].fields, schema.rules, document,
                                           Telling(schema, document))
    BY DEF FieldsFollowTheRules, FollowRules
  <2>1. PICK e \in 1..turn : records[k] = Extract(extractors[e], document)
    BY <1>1 DEF RecordsInv
  <2>2. e \in 1..Len(extractors)
    BY <1>1 DEF RegistryInv
  <2> DEFINE schema == extractors[e]
  <2>3. schema.rules \in Seq(Rule)
    <3>1. schema \in Schema
      BY <1>1, <2>2 DEF RegistryInv
    <3> HIDE DEF schema
    <3> QED
      BY <3>1 DEF Schema
  <2>4. /\ records[k].schema = schema.name
        /\ records[k].fields = Fields(schema.rules, document)
    BY <2>1 DEF Extract
  <2>5. Telling(schema, document) = TellingUpTo(schema.rules, document, Len(schema.rules))
    BY DEF Telling, TellingUpTo
  <2> HIDE DEF schema
  <2>6. FollowRules(records[k].fields, schema.rules, document, Telling(schema, document))
    BY <2>3, <2>4, <2>5, FieldsFollow
  <2> QED
    BY <2>2, <2>4, <2>6 DEF schema
<1>2. RegistryInit => RegistryInv /\ RecordsInv
  BY InitRegistryInv, InitRecordsInv
<1>3. RegistryInv /\ RecordsInv /\ [RegistryNext]_registryVars => (RegistryInv /\ RecordsInv)'
  BY RegistryStep, RecordsStep
<1> QED
  BY <1>1, <1>2, <1>3, PTL DEF RegistrySpec

-----------------------------------------------------------------------------
\* The schemas of the first n files, one file after the other.
Flattens(A, ss, g) ==
  /\ g \in [0..Len(ss) -> Seq(A)]
  /\ g[0] = <<>>
  /\ \A i \in 1..Len(ss) : g[i] = g[i - 1] \o ss[i]

\* There is such a function: its equations are a recursion over n.
LEMMA FlattensExists ==
  ASSUME NEW A, NEW ss \in Seq(Seq(A))
  PROVE  \E g : Flattens(A, ss, g)
<1> DEFINE V == Seq(A)
           F(n, s) == IF n + 1 \in 1..Len(ss) THEN s \o ss[n + 1] ELSE s
           step == [p \in Nat \X V |-> F(p[1], p[2])]
<1>1. <<>> \in V /\ Len(ss) \in Nat
  OBVIOUS
<1>2. ASSUME NEW n \in Nat, NEW s \in V PROVE F(n, s) \in V
  OBVIOUS
<1> HIDE DEF V, F
<1>3. IsStep(V, step)
  BY <1>2 DEF IsStep
<1>4. PICK g : Computes(V, <<>>, step, Len(ss), g)
  <2> HIDE DEF step
  <2> QED
    BY <1>1, <1>3, RecursionUpTo
<1>5. ASSUME NEW i \in 1..Len(ss) PROVE g[i] = g[i - 1] \o ss[i]
  <2>1. i - 1 \in 0..Len(ss) - 1 /\ i - 1 \in Nat /\ (i - 1) + 1 = i /\ i - 1 \in 0..Len(ss)
    BY <1>1
  <2>2. g[i - 1] \in V /\ g[i] = step[<<i - 1, g[i - 1]>>]
    BY <1>4, <2>1 DEF Computes
  <2>3. g[i] = F(i - 1, g[i - 1])
    BY <2>1, <2>2
  <2> QED
    BY <2>1, <2>3 DEF F
<1> QED
  BY <1>4, <1>5 DEF Flattens, Computes, V

\* FlattenSeq of the library is what it says.
LEMMA FlattenIs ==
  ASSUME NEW A, NEW ss \in Seq(Seq(A)), NEW g, Flattens(A, ss, g)
  PROVE  FlattenSeq(ss) = g[Len(ss)]
<1>1. CASE Len(ss) = 0
  <2>1. ss = <<>> /\ FlattenSeq(ss) = ss
    BY <1>1 DEF FlattenSeq
  <2> QED
    BY <1>1, <2>1 DEF Flattens
<1>2. CASE Len(ss) # 0
  <2> DEFINE Q(f) == f = [i \in 1..Len(ss) |-> IF i = 1 THEN ss[i] ELSE f[i - 1] \o ss[i]]
             h == [i \in 1..Len(ss) |-> g[i]]
             flatten == CHOOSE f : Q(f)
  <2>1. Len(ss) \in Nat /\ Len(ss) \in 1..Len(ss)
    BY <1>2
  <2>0. g[1] = ss[1]
    <3>1. 1 \in 1..Len(ss) /\ 1 - 1 = 0 /\ ss[1] \in Seq(A)
      BY <2>1
    <3>2. g[1] = g[1 - 1] \o ss[1] /\ g[0] = <<>>
      BY <3>1 DEF Flattens
    <3>3. <<>> \o ss[1] = ss[1]
      BY <3>1
    <3> QED
      BY <3>1, <3>2, <3>3
  <2>2. FlattenSeq(ss) = flatten[Len(ss)]
    BY <1>2 DEF FlattenSeq
  <2>3. ASSUME NEW i \in 1..Len(ss)
        PROVE  h[i] = IF i = 1 THEN ss[i] ELSE h[i - 1] \o ss[i]
    <3>1. CASE i = 1
      BY <2>0, <3>1
    <3>2. CASE i # 1
      <4>1. i - 1 \in 1..Len(ss)
        BY <2>1, <3>2
      <4> QED
        BY <3>2, <4>1 DEF Flattens
    <3> QED
      BY <3>1, <3>2
  <2>4. Q(h)
    <3> HIDE DEF h
    <3>1. DOMAIN h = 1..Len(ss) /\ h = [i \in DOMAIN h |-> h[i]]
      BY DEF h
    <3> QED
      BY <2>3, <3>1
  <2>5. Q(flatten)
    <3> HIDE DEF Q
    <3> QED
      BY <2>4
  <2> HIDE DEF flatten
  <2>6. \A i \in 1..Len(ss) : flatten[i] = IF i = 1 THEN ss[i] ELSE flatten[i - 1] \o ss[i]
    BY <2>5
  <2> HIDE DEF Q
  <2> DEFINE T == {n \in Nat : n + 1 <= Len(ss) => flatten[n + 1] = g[n + 1]}
  <2>7. 0 \in T
    <3>1. 1 \in 1..Len(ss)
      BY <2>1
    <3>2. flatten[1] = ss[1]
      BY <2>6, <3>1
    <3> QED
      BY <2>0, <3>2
  <2>8. ASSUME NEW n \in Nat, n \in T PROVE n + 1 \in T
    <3> SUFFICES ASSUME (n + 1) + 1 <= Len(ss)
                 PROVE  flatten[(n + 1) + 1] = g[(n + 1) + 1]
      OBVIOUS
    <3> DEFINE m == (n + 1) + 1
    <3>1. m \in 1..Len(ss) /\ m # 1 /\ m - 1 = n + 1 /\ n + 1 <= Len(ss)
      BY <2>1
    <3> HIDE DEF m
    <3>2. flatten[m] = flatten[m - 1] \o ss[m]
      BY <2>6, <3>1
    <3>3. g[m] = g[m - 1] \o ss[m]
      BY <3>1 DEF Flattens
    <3>4. flatten[n + 1] = g[n + 1]
      BY <2>8, <3>1
    <3> QED
      BY <3>1, <3>2, <3>3, <3>4 DEF m
  <2> HIDE DEF T
  <2>9. Nat \subseteq T
    BY <2>7, <2>8, Induction
  <2>10. Len(ss) - 1 \in Nat /\ (Len(ss) - 1) + 1 = Len(ss)
    BY <1>2, <2>1
  <2>11. Len(ss) - 1 \in T
    BY <2>9, <2>10
  <2>12. (Len(ss) - 1) + 1 <= Len(ss)
    BY <2>1
  <2>13. flatten[(Len(ss) - 1) + 1] = g[(Len(ss) - 1) + 1]
    BY <2>11, <2>12 DEF T
  <2> QED
    BY <2>2, <2>10, <2>13
<1> QED
  BY <1>1, <1>2

\* One more file: its schemas come behind those of the others.
LEMMA FlattenAppend ==
  ASSUME NEW A, NEW ss \in Seq(Seq(A)), NEW s \in Seq(A)
  PROVE  FlattenSeq(Append(ss, s)) = FlattenSeq(ss) \o s
<1>1. PICK g : Flattens(A, ss, g)
  BY FlattensExists
<1> DEFINE tt == Append(ss, s)
           n == Len(ss)
           h == [i \in 0..n + 1 |-> IF i = n + 1 THEN g[n] \o s ELSE g[i]]
<1> DEFINE B == Seq(A)
<1>2. /\ tt \in Seq(Seq(A)) /\ Len(tt) = n + 1 /\ n \in Nat
      /\ tt[n + 1] = s /\ \A i \in 1..n : tt[i] = ss[i]
  <2>1. ss \in Seq(B) /\ s \in B
    OBVIOUS
  <2> HIDE DEF B
  <2>2. /\ tt \in Seq(B) /\ Len(tt) = n + 1 /\ n \in Nat
        /\ tt[n + 1] = s /\ \A i \in 1..n : tt[i] = ss[i]
    BY <2>1
  <2> QED
    BY <2>2 DEF B
<1>3. FlattenSeq(ss) = g[n]
  BY <1>1, FlattenIs
<1> HIDE DEF tt, n
<1>4. g \in [0..n -> Seq(A)] /\ g[0] = <<>> /\ \A i \in 1..n : g[i] = g[i - 1] \o ss[i]
  BY <1>1 DEF Flattens, n
<1>5. h \in [0..n + 1 -> Seq(A)] /\ h[0] = <<>> /\ h[n + 1] = g[n] \o s
  <2>1. g[n] \in Seq(A)
    BY <1>2, <1>4
  <2>2. g[n] \o s \in Seq(A)
    BY <2>1
  <2> QED
    BY <1>2, <1>4, <2>2
<1>6. ASSUME NEW i \in 1..n + 1 PROVE h[i] = h[i - 1] \o tt[i]
  <2>1. CASE i = n + 1
    <3>1. i - 1 = n /\ h[n] = g[n]
      BY <1>2, <2>1
    <3> QED
      BY <1>2, <1>5, <2>1, <3>1
  <2>2. CASE i # n + 1
    <3>1. i \in 1..n /\ h[i] = g[i] /\ h[i - 1] = g[i - 1]
      BY <1>2, <2>2
    <3> QED
      BY <1>2, <1>4, <3>1
  <2> QED
    BY <2>1, <2>2
<1> HIDE DEF h
<1>7. Flattens(A, tt, h)
  BY <1>2, <1>5, <1>6 DEF Flattens
<1>8. FlattenSeq(tt) = h[n + 1]
  BY <1>2, <1>7, FlattenIs
<1> QED
  BY <1>3, <1>5, <1>8 DEF tt

\* The registry holds the schemas of the good files among those that were read.
Good(S) == {f \in S : f.toml /\ Loads(f)}

SchemasOf(order) == [i \in 1..Len(order) |-> order[i].schemas]

Holds(S, schemas) ==
  \E order \in SetToSeqs(Good(S)) : schemas = FlattenSeq(SchemasOf(order))

LoadInv ==
  phase \in {"loading", "loaded", "extracting"} => Holds(File \ unread, extractors)

\* Orders of a set are its members in a row, each once.
LEMMA OrdersAre ==
  ASSUME NEW S, IsFiniteSet(S), NEW order
  PROVE  order \in SetToSeqs(S) <=>
           /\ order \in [1..Cardinality(S) -> S]
           /\ \A i, j \in 1..Cardinality(S) : i # j => order[i] # order[j]
BY DEF SetToSeqs

\* A sequence as a function.
LEMMA SeqIsFunction == ASSUME NEW X, NEW s \in Seq(X) PROVE s \in [1..Len(s) -> X]
BY SeqDef

\* A set that gains a member gains an order that ends with it.
LEMMA OrderGrows ==
  ASSUME NEW S, IsFiniteSet(S), NEW f, f \notin S, NEW order \in SetToSeqs(S)
  PROVE  order \in Seq(S) /\ Append(order, f) \in SetToSeqs(S \cup {f})
<1> DEFINE n == Cardinality(S)
           next == Append(order, f)
<1>1. n \in Nat /\ Cardinality(S \cup {f}) = n + 1 /\ IsFiniteSet(S \cup {f})
  BY FS_AddElement, FS_CardinalityType
<1> HIDE DEF n
<1>2. order \in [1..n -> S] /\ \A i, j \in 1..n : i # j => order[i] # order[j]
  BY OrdersAre DEF n
<1>3. order \in Seq(S) /\ Len(order) = n
  BY <1>1, <1>2
<1>4. DOMAIN next = 1..n + 1 /\ next[n + 1] = f /\ \A i \in 1..n : next[i] = order[i]
  BY <1>1, <1>3
<1>5. next \in [1..n + 1 -> S \cup {f}]
  <2>1. \A i \in 1..n + 1 : next[i] \in S \cup {f}
    BY <1>1, <1>2, <1>4
  <2>2. next \in [1..Len(next) -> S \cup {f}]
    <3>1. order \in Seq(S \cup {f})
      BY <1>2, <1>3
    <3>2. next \in Seq(S \cup {f})
      BY <3>1
    <3> QED
      BY <3>2, SeqIsFunction
  <2>3. Len(next) = n + 1
    BY <1>3
  <2> QED
    BY <2>2, <2>3
<1> HIDE DEF next
<1>6. \A i, j \in 1..n + 1 : i # j => next[i] # next[j]
  BY <1>1, <1>2, <1>4
<1>7. next \in SetToSeqs(S \cup {f})
  BY <1>1, <1>5, <1>6, OrdersAre
<1> QED
  BY <1>3, <1>7 DEF next

\* The schemas of one more file.
LEMMA SchemasOfAppend ==
  ASSUME NEW order \in Seq(File), NEW f \in File
  PROVE  /\ SchemasOf(order) \in Seq(Seq(Schema)) /\ f.schemas \in Seq(Schema)
         /\ SchemasOf(Append(order, f)) = Append(SchemasOf(order), f.schemas)
<1> DEFINE B == Seq(Schema)
           next == Append(order, f)
           n == Len(order)
<1>1. \A g \in File : g.schemas \in B
  BY FileAssumption
<1> HIDE DEF B
<1>2. n \in Nat /\ \A i \in 1..n : order[i] \in File
  OBVIOUS
<1>3. SchemasOf(order) \in Seq(B) /\ Len(SchemasOf(order)) = n
  <2>1. SchemasOf(order) \in [1..n -> B]
    BY <1>1, <1>2 DEF SchemasOf
  <2> QED
    BY <1>2, <2>1
<1>4. Len(next) = n + 1 /\ next[n + 1] = f /\ \A i \in 1..n : next[i] = order[i]
  BY <1>2
<1> HIDE DEF n, next
<1>5. SchemasOf(next) = [i \in 1..n + 1 |-> IF i = n + 1 THEN f.schemas ELSE order[i].schemas]
  BY <1>2, <1>4 DEF SchemasOf
<1>6. /\ Append(SchemasOf(order), f.schemas) \in Seq(B)
      /\ DOMAIN Append(SchemasOf(order), f.schemas) = 1..n + 1
      /\ \A i \in 1..n + 1 : Append(SchemasOf(order), f.schemas)[i] =
           IF i = n + 1 THEN f.schemas ELSE SchemasOf(order)[i]
  BY <1>1, <1>2, <1>3
<1>7. \A i \in 1..n : SchemasOf(order)[i] = order[i].schemas
  BY DEF SchemasOf, n
<1> DEFINE longer == Append(SchemasOf(order), f.schemas)
<1>8. longer \in [1..n + 1 -> B]
  <2>1. longer \in [1..Len(longer) -> B]
    BY <1>6, SeqIsFunction
  <2>2. Len(longer) = n + 1
    BY <1>3
  <2> QED
    BY <2>1, <2>2
<1>9. \A i \in 1..n + 1 : longer[i] = IF i = n + 1 THEN f.schemas ELSE order[i].schemas
  <2>1. \A i \in 1..n + 1 : i # n + 1 => i \in 1..n
    BY <1>2
  <2> QED
    BY <1>6, <1>7, <2>1
<1> HIDE DEF longer
<1>10. SchemasOf(next) = Append(SchemasOf(order), f.schemas)
  BY <1>5, <1>8, <1>9 DEF longer
<1> QED
  BY <1>1, <1>3, <1>10 DEF B, next

\* A good file adds its schemas, another file nothing.
LEMMA HoldsGrows ==
  ASSUME NEW S \in SUBSET File, NEW f \in File, f \notin S, NEW schemas, Holds(S, schemas)
  PROVE  Holds(S \cup {f}, IF f.toml /\ Loads(f) THEN schemas \o f.schemas ELSE schemas)
<1>1. PICK order \in SetToSeqs(Good(S)) : schemas = FlattenSeq(SchemasOf(order))
  BY DEF Holds
<1>2. IsFiniteSet(Good(S)) /\ f \notin Good(S) /\ Good(S) \subseteq File
  BY FileAssumption, FS_Subset DEF Good
<1>3. CASE f.toml /\ Loads(f)
  <2>1. Good(S \cup {f}) = Good(S) \cup {f}
    BY <1>3 DEF Good
  <2>2. order \in Seq(Good(S)) /\ Append(order, f) \in SetToSeqs(Good(S \cup {f}))
    BY <1>2, <2>1, OrderGrows
  <2>3. order \in Seq(File)
    BY <1>2, <2>2
  <2>4. /\ SchemasOf(order) \in Seq(Seq(Schema)) /\ f.schemas \in Seq(Schema)
        /\ SchemasOf(Append(order, f)) = Append(SchemasOf(order), f.schemas)
    BY <2>3, SchemasOfAppend
  <2>5. FlattenSeq(SchemasOf(Append(order, f))) = schemas \o f.schemas
    BY <1>1, <2>4, FlattenAppend
  <2> QED
    BY <1>3, <2>2, <2>5 DEF Holds
<1>4. CASE ~(f.toml /\ Loads(f))
  <2>1. Good(S \cup {f}) = Good(S)
    BY <1>4 DEF Good
  <2> QED
    BY <1>4, <2>1 DEF Holds
<1> QED
  BY <1>3, <1>4

\* Before the first file is read the empty registry holds what the files hold.
LEMMA NothingHolds == Holds({}, <<>>)
<1>1. Good({}) = {} /\ IsFiniteSet({}) /\ Cardinality({}) = 0
  BY FS_EmptySet DEF Good
<1>2. <<>> \in SetToSeqs({})
  <2>1. <<>> \in [1..0 -> {}]
    OBVIOUS
  <2> QED
    BY <1>1, <2>1, OrdersAre
<1>3. Len(SchemasOf(<<>>)) = 0 /\ SchemasOf(<<>>) = <<>>
  BY DEF SchemasOf
<1>4. FlattenSeq(SchemasOf(<<>>)) = <<>>
  BY <1>3 DEF FlattenSeq
<1> QED
  BY <1>1, <1>2, <1>4 DEF Holds

\* from_dir: each turn adds the schemas of a good file, a bad file adds none.
LEMMA LoadStep ==
  ASSUME RegistryInv, LoadInv, [RegistryNext]_registryVars
  PROVE  LoadInv'
<1>1. ASSUME UNCHANGED <<unread, extractors>>, phase # "new" PROVE LoadInv'
  BY <1>1 DEF LoadInv, RegistryInv
<1>2. CASE FromDir
  <2>1. unread' = File /\ extractors' = <<>>
    BY <1>2 DEF FromDir, RegistryInv
  <2>2. File \ unread' = {}
    BY <2>1
  <2> QED
    BY <2>1, <2>2, NothingHolds DEF LoadInv
<1>3. ASSUME NEW f \in unread, ReadEntry(f) PROVE LoadInv'
  <2> DEFINE S == File \ unread
  <2>1. /\ phase = "loading" /\ f \in File /\ f \notin S /\ S \in SUBSET File
        /\ unread' = unread \ {f}
        /\ extractors' = IF f.toml /\ Loads(f) THEN extractors \o f.schemas ELSE extractors
    BY <1>3 DEF ReadEntry, RegistryInv
  <2>2. File \ unread' = S \cup {f}
    BY <2>1
  <2>3. Holds(S, extractors)
    BY <2>1 DEF LoadInv
  <2> HIDE DEF S
  <2>4. Holds(S \cup {f}, extractors')
    BY <2>1, <2>3, HoldsGrows
  <2> QED
    BY <2>2, <2>4 DEF LoadInv
<1>4. CASE DirFails
  BY <1>4 DEF DirFails, LoadInv
<1>5. CASE Loaded
  BY <1>1, <1>5 DEF Loaded
<1>6. ASSUME NEW doc \in Document, ExtractAll(doc) PROVE LoadInv'
  BY <1>1, <1>6 DEF ExtractAll
<1>7. ASSUME NEW panics \in BOOLEAN, ExtractNext(panics) PROVE LoadInv'
  BY <1>1, <1>7 DEF ExtractNext
<1>8. CASE ReturnRecords
  BY <1>1, <1>8 DEF ReturnRecords
<1>9. CASE UNCHANGED registryVars
  BY <1>9 DEF registryVars, LoadInv
<1> QED
  BY <1>2, <1>3, <1>4, <1>5, <1>6, <1>7, <1>8, <1>9 DEF RegistryNext

\* Bad files cost nobody else a schema, whatever the directory and in whatever order
\* its entries come (extractor.rs:460-461).
THEOREM GoodFilesLoaded == RegistrySpec => []GoodFilesAreLoaded
<1>1. ASSUME RegistryInv, LoadInv PROVE GoodFilesAreLoaded
  <2> SUFFICES ASSUME phase \in {"loaded", "extracting"}
               PROVE  \E order \in SetToSeqs(Good(File)) :
                        extractors = FlattenSeq(SchemasOf(order))
    BY DEF GoodFilesAreLoaded, Good, SchemasOf
  <2>1. Holds(File \ unread, extractors) /\ unread = {}
    BY <1>1 DEF LoadInv, RegistryInv
  <2>2. File \ unread = File
    BY <2>1
  <2> QED
    BY <2>1, <2>2 DEF Holds
<1>2. RegistryInit => RegistryInv /\ LoadInv
  BY InitRegistryInv DEF RegistryInit, LoadInv
<1>3. RegistryInv /\ LoadInv /\ [RegistryNext]_registryVars => (RegistryInv /\ LoadInv)'
  BY RegistryStep, LoadStep
<1> QED
  BY <1>1, <1>2, <1>3, PTL DEF RegistrySpec
=============================================================================
