------------------------------ MODULE HtmlParser ------------------------------
(***************************************************************************)
(* HtmlParser (crates/fc-engine/src/parser.rs): a response becomes the     *)
(* list of the links a crawl may follow.  The document is reduced to what  *)
(* the parser selects from it: the hrefs of its <base> and <a> elements,   *)
(* in document order.  The url crate is external: constants say what an    *)
(* href becomes when it is joined to a base, and which URLs are http(s).   *)
(***************************************************************************)
EXTENDS Naturals, Sequences

CONSTANTS
  Href,       \* href values, trimmed
  Local,      \* those that are empty or begin with #
  Scripts,    \* those that begin with javascript: or mailto:, in lower case
  Url,        \* absolute URLs
  Web,        \* the http and https URLs
  Bare,       \* each URL without its fragment
  NoUrl,      \* the error of a failed join
  Join,       \* Join[base][href]: a URL or NoUrl
  Response    \* the responses that are parsed

ASSUME HrefAssumption == Local \subseteq Href /\ Scripts \subseteq Href
ASSUME UrlAssumption == Web \subseteq Url /\ NoUrl \notin Url
ASSUME BareAssumption ==
  /\ Bare \in [Url -> Url]
  /\ \A u \in Url : Bare[Bare[u]] = Bare[u] /\ (Bare[u] \in Web <=> u \in Web)
\* A URL with a scheme of its own ignores the base.
ASSUME JoinAssumption ==
  /\ Join \in [Url -> [Href -> Url \cup {NoUrl}]]
  /\ \A b \in Url, h \in Scripts : Join[b][h] \notin Web
ASSUME ResponseAssumption == Response # {}
ASSUME ResponseType ==
  Response \subseteq [html : BOOLEAN, utf8 : BOOLEAN, finalUrl : Url,
                      bases : Seq(Href), anchors : Seq(Href)]

VARIABLES
  parsing,    \* where the parser is in `parse`
  page,       \* the response
  baseUrl,    \* base_url
  visited,    \* how many anchors the loop has visited
  seen,       \* seen: the HashSet of the loop
  links       \* links

parserVars == <<parsing, page, baseUrl, visited, seen, links>>

ParserTypeOK ==
  /\ parsing \in {"idle", "links"}
  /\ page \in Response
  /\ baseUrl \in Url
  /\ visited \in 0..Len(page.anchors)
  /\ seen \subseteq Url
  /\ links \in Seq(Url)

\* Between calls the parser has no state: the variables have a fixed value.
NoPage == CHOOSE r \in Response : TRUE

ParserInit ==
  /\ parsing = "idle"
  /\ page = NoPage
  /\ baseUrl = page.finalUrl
  /\ visited = 0
  /\ seen = {}
  /\ links = <<>>

-----------------------------------------------------------------------------
\* resolve_base_url: the first <base href>, unless it cannot be resolved.
ResolveBaseUrl(r) ==
  IF r.bases # <<>> /\ Join[r.finalUrl][Head(r.bases)] # NoUrl
  THEN Join[r.finalUrl][Head(r.bases)]
  ELSE r.finalUrl

\* Mutant: the prefixes are all that keeps other schemes out.
TargetByPrefix(b, h) ==
  IF h \in Local \cup Scripts \/ Join[b][h] = NoUrl THEN NoUrl ELSE Bare[Join[b][h]]

\* The link an anchor stands for: discarded by its prefix, unresolvable, not
\* http(s), or followed without its fragment.
Target(b, h) ==
  IF h \in Local \cup Scripts \/ Join[b][h] \notin Web THEN NoUrl ELSE Bare[Join[b][h]]

\* parse(response).  A response that is not HTML or not UTF-8 is answered with an
\* error and changes nothing.
Parse(r) ==
  /\ parsing = "idle"
  /\ r.html /\ r.utf8
  /\ parsing' = "links"
  /\ page' = r
  /\ baseUrl' = ResolveBaseUrl(r)
  /\ UNCHANGED <<visited, seen, links>>

\* Mutant: the last link found comes first.
VisitReversing ==
  LET u == Target(baseUrl, page.anchors[visited + 1])
  IN  /\ parsing = "links" /\ visited < Len(page.anchors)
      /\ visited' = visited + 1
      /\ IF u = NoUrl \/ u \in seen
         THEN UNCHANGED <<seen, links>>
         ELSE seen' = seen \cup {u} /\ links' = <<u>> \o links
      /\ UNCHANGED <<parsing, page, baseUrl>>

\* Mutant: an anchor is remembered before it is judged.
VisitRemembering ==
  LET u == Target(baseUrl, page.anchors[visited + 1])
  IN  /\ parsing = "links" /\ visited < Len(page.anchors)
      /\ visited' = visited + 1
      /\ seen' = seen \cup {u}
      /\ links' = IF u = NoUrl \/ u \in seen THEN links ELSE Append(links, u)
      /\ UNCHANGED <<parsing, page, baseUrl>>

\* extract_links, one turn of its loop.
Visit ==
  LET u == Target(baseUrl, page.anchors[visited + 1])
  IN  /\ parsing = "links" /\ visited < Len(page.anchors)
      /\ visited' = visited + 1
      /\ IF u = NoUrl \/ u \in seen
         THEN UNCHANGED <<seen, links>>
         ELSE seen' = seen \cup {u} /\ links' = Append(links, u)
      /\ UNCHANGED <<parsing, page, baseUrl>>

\* parse returns the page.
ReturnPage ==
  /\ parsing = "links" /\ visited = Len(page.anchors)
  /\ parsing' = "idle"
  /\ page' = NoPage
  /\ baseUrl' = NoPage.finalUrl
  /\ visited' = 0
  /\ seen' = {}
  /\ links' = <<>>

ParserNext == (\E r \in Response : Parse(r)) \/ Visit \/ ReturnPage

ParserSpec == ParserInit /\ [][ParserNext]_parserVars

-----------------------------------------------------------------------------
\* The anchors among the first n that mention u, by what a reader of the doc
\* expects: not a fragment, and a page of the web.
Mentions(u, base, anchors, n) ==
  {i \in 1..n :
     /\ anchors[i] \notin Local
     /\ Join[base][anchors[i]] \in Web
     /\ Bare[Join[base][anchors[i]]] = u}

\* "Filtered, deduplicated, and resolved" (parser.rs:46-47): the links are the
\* http(s) URLs that the visited anchors mention, each once and none with a
\* fragment.  It does not speak of javascript: or mailto:, in any spelling: the
\* check of the scheme, after the join, keeps them out by itself.
LinksAreTheMentioned ==
  /\ \A u \in Url : u \in seen <=> Mentions(u, baseUrl, page.anchors, visited) # {}
  /\ \A i \in 1..Len(links) : links[i] \in seen /\ links[i] \in Web /\ Bare[links[i]] = links[i]
  /\ \A u \in seen : \E i \in 1..Len(links) : links[i] = u
  /\ \A i, j \in 1..Len(links) : links[i] = links[j] => i = j

\* The links come in the order of the document: a link stands before another only
\* if it is mentioned before the other's first mention.
DocumentOrder ==
  \A i, j \in 1..Len(links) : i < j =>
    \A n \in Mentions(links[j], baseUrl, page.anchors, visited) :
      \E m \in Mentions(links[i], baseUrl, page.anchors, visited) : m < n

\* The inductive invariant: the properties above, the types, and that a call begins
\* with an empty list.
ParserInv ==
  /\ ParserTypeOK
  /\ parsing = "idle" => visited = 0 /\ seen = {} /\ links = <<>>
  /\ LinksAreTheMentioned
  /\ DocumentOrder
=============================================================================
