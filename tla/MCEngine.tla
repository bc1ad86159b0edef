------------------------------- MODULE MCEngine -------------------------------
(***************************************************************************)
(* An instance of HtmlParser and one of SchemaRegistry for TLC, next to    *)
(* that of Configuration.  The three share nothing, so that two are at     *)
(* rest while one works.                                                   *)
(***************************************************************************)
EXTENDS HtmlParser, SchemaRegistry, MCConfiguration

\* Two directories of a site, another site, and a URL that is not of the web.
MCUrl == [place : {"/", "/dir/", "//other/", "script"}, name : {"", "p"}, frag : BOOLEAN]
MCWeb == {u \in MCUrl : u.place # "script"}
MCBare == [u \in MCUrl |-> [u EXCEPT !.frag = FALSE]]

MCHref == {"p", "p#s", "#s", "/dir/", "//other/", "javascript:", "JavaScript:", "//["}
MCLocal == {"#s"}
MCScripts == {"javascript:"}

MCJoin ==
  [b \in MCUrl |-> [h \in MCHref |->
     CASE h \in {"javascript:", "JavaScript:"} ->
            [place |-> "script", name |-> "", frag |-> FALSE]
       [] h = "//other/" -> [place |-> h, name |-> "", frag |-> FALSE]
       [] h = "//[" \/ b.place = "script" -> NoUrl
       [] h = "/dir/" -> [place |-> h, name |-> "", frag |-> FALSE]
       [] h = "#s" -> [b EXCEPT !.frag = TRUE]
       [] OTHER -> [b EXCEPT !.name = "p", !.frag = (h = "p#s")]]]

\* Every page of up to three anchors, below four kinds of <base>, and
\* responses that are not HTML or not UTF-8.
MCResponse ==
  [html : {TRUE}, utf8 : {TRUE},
   finalUrl : {[place |-> "/", name |-> "", frag |-> FALSE]},
   bases : {<<>>, <<"/dir/">>, <<"//[", "/dir/">>, <<"javascript:">>},
   anchors : UNION {[1..n -> MCHref] : n \in 0..3}]
    \cup [html : BOOLEAN, utf8 : BOOLEAN,
          finalUrl : {[place |-> "/", name |-> "", frag |-> FALSE]},
          bases : {<<>>}, anchors : {<<>>}]

-----------------------------------------------------------------------------
MCSelector == {"h1", "img"}
MCParsed == [raw \in {"12", "x"} |-> IF raw = "12" THEN 12 ELSE Null]

MCRule(name, selector, transform, multiple, optional) ==
  [name |-> name, selector |-> selector, transform |-> transform,
   multiple |-> multiple, optional |-> optional]

Everywhere == {"shop", "blog"}

\* A price that stands in a second place at times, and pictures.
Product ==
  [name |-> "product", pattern |-> {"shop"},
   rules |-> <<MCRule("price", "h1", "parse", FALSE, FALSE),
               MCRule("price", "img", "parse", FALSE, TRUE),
               MCRule("images", "img", "wording", TRUE, TRUE)>>]
Article ==
  [name |-> "article", pattern |-> Everywhere,
   rules |-> <<MCRule("title", "h1", "none", FALSE, TRUE)>>]
Numbers ==
  [name |-> "numbers", pattern |-> Everywhere,
   rules |-> <<MCRule("all", "img", "parse", TRUE, FALSE)>>]
BadPattern == [Article EXCEPT !.name = "bad", !.pattern = {"invalid"}]
BadTransform ==
  [Article EXCEPT !.name = "bad", !.rules = <<MCRule("title", "h1", "invalid", FALSE, TRUE)>>]

MCFile ==
  {[toml |-> TRUE, readable |-> TRUE, schemas |-> <<Product, Article>>],
   [toml |-> TRUE, readable |-> TRUE, schemas |-> <<Numbers>>],
   [toml |-> TRUE, readable |-> TRUE, schemas |-> <<Article, BadTransform>>],
   [toml |-> TRUE, readable |-> TRUE, schemas |-> <<BadPattern>>],
   [toml |-> TRUE, readable |-> FALSE, schemas |-> <<Product>>],
   [toml |-> FALSE, readable |-> TRUE, schemas |-> <<Product>>]}

Found == UNION {[1..n -> {"", "12", "x"}] : n \in 0..2}

MCDocument ==
  [html : {TRUE}, utf8 : {TRUE}, url : Everywhere, select : [MCSelector -> Found]]
    \cup [html : BOOLEAN, utf8 : BOOLEAN, url : {"shop"}, select : [MCSelector -> {<<>>}]]

-----------------------------------------------------------------------------
MCInit == ParserInit /\ RegistryInit /\ ConfigInit

ParserAtRest == parsing = "idle" /\ UNCHANGED parserVars
RegistryAtRest == phase = "new" /\ UNCHANGED registryVars
ConfigAtRest == layers = NoLayers /\ UNCHANGED configVars

MCNext ==
  \/ RegistryAtRest /\ ConfigAtRest /\ ParserNext
  \/ ParserAtRest /\ ConfigAtRest /\ RegistryNext
  \/ ParserAtRest /\ RegistryAtRest /\ ConfigNext /\ NoLayers \in {layers, layers'}

MCSpec == MCInit /\ [][MCNext]_<<parserVars, registryVars, configVars>>
=============================================================================
