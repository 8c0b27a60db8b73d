------------------------------ MODULE MCImport ------------------------------
(* Import on small instances: legacy databases with a few rows of each kind, *)
(* and legacy databases with one article of any small HTML.                  *)
EXTENDS Import

TestId == {1, 2}

R(id, ref) == LegacyRow(id, ref, <<TextOf("a")>>)
Choice == {{}, {R(1, 0)}}
Tenant == {R(1, 0)}

\* The web site, and the quick news with the rules.
Empty == [s \in Step |-> {}]
Sites == {[Empty EXCEPT !["tenants"] = Tenant, !["accounts"] = account,
                        !["channels"] = channels, !["articles"] = articles] :
            account \in Choice, articles \in {{}, {R(1, 2)}},
            channels \in {{}, {R(1, 0), R(2, 1)}, {R(1, 2), R(2, 0)}}}
QuickNews == {[Empty EXCEPT !["tenants"] = Tenant, !["news"] = news,
                       !["news_channels"] = channels, !["keywords"] = keywords,
                       !["default_reply"] = replies] :
           news \in {{}, {R(1, 0)}, {R(1, 1)}}, channels \in Choice,
           keywords \in {{}, {R(1, 0), R(2, 0)}}, replies \in Choice}

\* Elements in one another: below p the parser leaves no blocks, and the other
\* way round a text may be in any of them.
Tags == {"p", "strong", "em", "ul", "li", "blockquote", "pre", "section"}
Inline == {"strong", "em"}
Paths(n, tags) == {path \in UNION {[1 .. k -> tags] : k \in 0 .. n} :
               \A i, j \in DOMAIN path : path[i] = "p" /\ i < j => path[j] \in Inline}

Around(path, kids) == FoldRight(LAMBDA tag, nodes : <<Element(tag, nodes)>>, path, kids)

A == TextOf("a")
B == TextOf("b")
S == TextOf(Blank)
Kids == {<<>>, <<S, A>>, <<A, S, Element("strong", <<B>>)>>, <<Element("em", <<A>>), B>>,
         <<A, Element("br", <<>>), B>>, <<A, Element("hr", <<>>), B>>,
         <<Element("img", <<>>), A>>,
         <<Element("comment", <<>>), A>>,
         <<Element("li", <<A, Element("ul", <<Element("li", <<B>>)>>)>>)>>}

Pages == {Around(path, <<A>>) : path \in Paths(3, Tags) \cup Paths(4, {"ul", "li", "strong"})}
         \cup {Around(path, kids) : path \in Paths(2, Tags), kids \in Kids}

Articles == {[Empty EXCEPT !["articles"] = {LegacyRow(1, 0, html)}] : html \in Pages}

TestLegacy == Sites \cup QuickNews \cup Articles
=============================================================================
