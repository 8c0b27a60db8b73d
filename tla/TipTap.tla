------------------------------- MODULE TipTap -------------------------------
(***************************************************************************)
(* The conversion of an article's HTML into TipTap blocks that the legacy  *)
(* import makes (htmlToTipTapJSON in tools/migrate/main.go), and what it   *)
(* is to keep, stated on the paths of the texts.                           *)
(*                                                                         *)
(* A text is blank or a letter; "p" stands for p and div, "h" for h1 to    *)
(* h6.  Attributes are left out: an image has a source.  So is the error   *)
(* of the parser, which no string gives.                                   *)
(***************************************************************************)
EXTENDS Naturals, Sequences, SequencesExt

Blank == "blank"

\* Nodes of the parsed HTML, and of the TipTap document.
TextOf(t) == [tag |-> "text", text |-> t, kids |-> <<>>]
Element(tag, kids) == [tag |-> tag, text |-> Blank, kids |-> kids]

Block(type, content) == [type |-> type, content |-> content]
InlineText(text, marks) == [type |-> "text", text |-> text, marks |-> marks]
Paragraph(content) == Block("paragraph", content)

\* The JSON of a nil slice.
Null == <<Block("null", <<>>)>>

Marks == {"strong", "em", "u", "s", "code", "a"}
Lists == {"ul", "ol"}

\* Mutant of AddMark: a mark that is there already takes the new one's place.
AddMarkInstead(marks, mark) == <<mark>>

\* appendMark and copyMark: siblings never share the marks.
AddMark(marks, mark) == Append(marks, mark)

\* collectTextFromNode on the children that are left; leading blanks are skipped.
RECURSIVE collectText(_, _, _)
collectText(kids, content, marks) ==
  IF kids = <<>> THEN content
  ELSE LET c == Head(kids)
           tag == c.tag
           more == CASE tag = "text" -> IF content = <<>> /\ c.text = Blank THEN content
                                        ELSE Append(content, InlineText(<<c.text>>, marks))
                     [] tag \in Marks -> collectText(c.kids, content, AddMark(marks, tag))
                     [] tag = "br" -> Append(content, Block("hardBreak", <<>>))
                     [] tag = "img" -> Append(content, Block("imageInline", <<>>))
                     [] tag = "comment" -> content
                     [] OTHER -> collectText(c.kids, content, marks)
       IN  collectText(Tail(kids), more, marks)

collectInlineContent(node) ==
  LET content == collectText(node.kids, <<>>, <<>>)
  IN  IF content = <<>> THEN <<InlineText(<<>>, <<>>)>> ELSE content

OrNull(content) == IF content = <<>> THEN Null ELSE content

\* collectListItems: an item is a paragraph of all its text, lists below it
\* included, and then these lists again.
RECURSIVE collectListItems(_)
collectListItems(node) ==
  LET items == SelectSeq(node.kids, LAMBDA c : c.tag = "li")
      nested(c) == SelectSeq(c.kids, LAMBDA sub : sub.tag \in Lists)
      list(sub) == Block(sub.tag, OrNull(collectListItems(sub)))
      item(c) == Block("listItem",
                   <<Paragraph(collectInlineContent(c))>>
                   \o [j \in DOMAIN nested(c) |-> list(nested(c)[j])])
  IN  [i \in DOMAIN items |-> item(items[i])]

RECURSIVE extractText(_)
extractText(node) ==
  IF node.tag = "text" THEN <<node.text>>
  ELSE FoldLeft(LAMBDA text, c : text \o extractText(c), <<>>, node.kids)

\* A text between blocks.
TextBlock(node) ==
  IF node.text = Blank THEN <<>> ELSE <<Paragraph(<<InlineText(<<node.text>>, <<>>)>>)>>

\* The paragraphs of a blockquote: any other element in it is dropped.
Quoted(c) == CASE c.tag = "p" -> <<Paragraph(collectInlineContent(c))>>
               [] c.tag = "text" -> TextBlock(c)
               [] OTHER -> <<>>

RECURSIVE convertBlock(_)
convertBlock(node) ==
  LET all(op(_)) == FoldLeft(LAMBDA blocks, c : blocks \o op(c), <<>>, node.kids)
      tag == node.tag
  IN  CASE tag = "text" -> TextBlock(node)
        [] tag = "p" -> <<Paragraph(collectInlineContent(node))>>
        [] tag = "h" -> <<Block("heading", collectInlineContent(node))>>
        [] tag = "img" -> <<Block("imageBlock", <<>>)>>
        [] tag \in Lists -> <<Block(tag, OrNull(collectListItems(node)))>>
        [] tag = "blockquote" -> IF all(Quoted) = <<>> THEN <<>>
                                 ELSE <<Block("blockquote", all(Quoted))>>
        [] tag = "pre" -> <<Block("codeBlock", <<InlineText(extractText(node), <<>>)>>)>>
        [] tag \in {"br", "hr"} -> <<Paragraph(<<>>)>>
        [] OTHER -> all(convertBlock)

\* The result is null, not [], when no node gives a block.
htmlToTipTapJSON(nodes) ==
  IF \A i \in DOMAIN nodes : nodes[i] = TextOf(Blank) THEN <<>>
  ELSE OrNull(FoldLeft(LAMBDA blocks, node : blocks \o convertBlock(node), <<>>, nodes))

-----------------------------------------------------------------------------
(* What the document has, and what it is to have *)

\* The letters in the document with their marks, in order.
RECURSIVE TextsOf(_)
TextsOf(blocks) ==
  IF blocks = <<>> THEN <<>>
  ELSE LET b == Head(blocks) IN
       (IF b.type = "text"
        THEN LET letters == SelectSeq(b.text, LAMBDA t : t # Blank)
             IN  [i \in DOMAIN letters |-> <<letters[i], b.marks>>]
        ELSE TextsOf(b.content))
       \o TextsOf(Tail(blocks))

\* The letters of the HTML with the tags above each.
RECURSIVE Leaves(_, _)
Leaves(nodes, path) ==
  IF nodes = <<>> THEN {}
  ELSE LET c == Head(nodes) IN
       (IF c.tag = "text" THEN (IF c.text = Blank THEN {} ELSE {<<c.text, path>>})
        ELSE Leaves(c.kids, Append(path, c.tag)))
       \cup Leaves(Tail(nodes), path)

\* The tags that decide how what is below them is converted.
Opens == {"p", "h", "blockquote", "pre"} \cup Lists

MarksBelow(path, i) == SelectSeq(SubSeq(path, i + 1, Len(path)), LAMBDA tag : tag \in Marks)

\* A letter appears once with the marks between its block and itself; in a list
\* once for each list that it is in without a break, the items only; and not at
\* all in a list outside the items or in a quotation outside the paragraphs.
Copies(path) ==
  LET n == Len(path)
      opening == {i \in 1 .. n : path[i] \in Opens}
      first == CHOOSE i \in opening : \A j \in opening : i <= j
      tag == path[first]
      chain == {k \in 1 .. n : \A j \in 0 .. k - 1 :
                  /\ first + 2 * j + 1 <= n
                  /\ path[first + 2 * j] \in Lists /\ path[first + 2 * j + 1] = "li"}
      once(i) == {<<1, MarksBelow(path, i)>>}
  IN  CASE opening = {} -> {<<1, <<>>>>}
        [] opening # {} /\ tag \in {"p", "h"} -> once(first)
        [] opening # {} /\ tag = "pre" -> {<<1, <<>>>>}
        [] opening # {} /\ tag = "blockquote" /\ first = n -> {<<1, <<>>>>}
        [] opening # {} /\ tag = "blockquote" /\ first < n ->
             IF path[first + 1] = "p" THEN once(first + 1) ELSE {}
        [] OTHER -> {<<k, MarksBelow(path, first + 2 * k - 1)>> : k \in chain}

\* The document has each letter of the HTML as often and with the marks as it is
\* to, and no other.  Each letter is at one place of the HTML.
TextsKept(nodes, blocks) ==
  LET texts == TextsOf(blocks)
      leaves == Leaves(nodes, <<>>)
      number(text) == Cardinality({i \in DOMAIN texts : texts[i] = text})
  IN  /\ \A leaf \in leaves : \A c \in Copies(leaf[2]) :
           number(<<leaf[1], c[2]>>) = Cardinality({d \in Copies(leaf[2]) : d[2] = c[2]})
      /\ \A i \in DOMAIN texts : \E leaf \in leaves :
           leaf[1] = texts[i][1] /\ \E c \in Copies(leaf[2]) : c[2] = texts[i][2]
=============================================================================
