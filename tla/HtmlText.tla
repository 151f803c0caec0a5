----------------------------- MODULE HtmlText ------------------------------
(***************************************************************************)
(* Extract of internal/htmlx: the text and the image candidates of a       *)
(* newsletter's document tree, as they go into the parser's prompt.        *)
(*                                                                         *)
(* A document is its nodes in document order, each with its parent, so the *)
(* subtree of a node is the stretch of nodes that follows it.  The calls   *)
(* of walk and anchor that are under way are the nodes from the document   *)
(* down to at, and a call returns to the parent of its node.  Words are    *)
(* kept apart by the node they come from; of white space only the line     *)
(* breaks are kept, because only they decide what shares a paragraph.      *)
(***************************************************************************)
EXTENDS Naturals, Sequences, FiniteSetsExt, Functions

CONSTANTS
    Elements,  \* the nodes a document is made of, a subset of Element
    MaxNodes,  \* bound: nodes of a document
    NULL

\* ref: how a text's source is laid out, what an href is, what a src is.
Element ==
    [kind : {"text"}, ref : {"words", "wrapped"}, hidden : {FALSE}]
    \cup [kind : {"block", "dropped"}, ref : {""}, hidden : BOOLEAN]
    \cup [kind : {"anchor"}, ref : {"url", "mark", ""}, hidden : BOOLEAN]
    \cup [kind : {"image"}, ref : {"file", "data", ""}, hidden : BOOLEAN]

ASSUME ElementsAssumption == Elements \subseteq Element /\ MaxNodes \in Nat

VARIABLES
    doc,         \* the tree html.Parse returns
    at,          \* the node whose children are walked, 0 for the document
    cursor,      \* the last node walk was called for
    e,           \* the receiver of walk: 0 for Extract's extractor, or its anchor
    extractors,  \* the extractors in use: Extract's, and the inner of each open anchor
    extracted    \* what Extract returns, NULL before

walk_vars == <<at, cursor, e, extractors>>
doc_vars == <<doc, walk_vars, extracted>>

Token(tok, n) == [tok |-> tok, of |-> n]
Newline == Token("newline", 0)
Space == Token("space", 0)

\* The nodes whose subtree n is in.
Ancestors(n) == {a \in 1..n-1 : \A m \in a+1..n : doc[m].parent >= a}

Within(n, kind) == {a \in Ancestors(n) : doc[a].kind = kind}

-----------------------------------------------------------------------------
(* html.Parse (external): the next node in document order.                 *)

\* The open elements a next node may go into, and the document itself.  Only a
\* table cell lets a link begin inside a link.
Parents(element) ==
    {0} \cup (IF doc = <<>> THEN {}
              ELSE {n \in {Len(doc)} \cup Ancestors(Len(doc)) :
                       /\ doc[n].kind \in {"block", "dropped", "anchor"}
                       /\ {element.kind, doc[n].kind} # {"anchor"}})

Walking == DOMAIN extractors # {}

Parse(element, parent) ==
    /\ extracted = NULL /\ ~Walking
    /\ Len(doc) < MaxNodes
    /\ doc' = Append(doc, [kind |-> element.kind, ref |-> element.ref,
                           hidden |-> element.hidden, parent |-> parent])
    /\ UNCHANGED <<walk_vars, extracted>>

-----------------------------------------------------------------------------
(* An extractor holds the builder b and the candidates; outer is the       *)
(* receiver of the anchor call it is a local variable of.                  *)

NewExtractor(outer) == [b |-> <<>>, candidates |-> <<>>, outer |-> outer]

Write(tokens) == extractors' = [extractors EXCEPT ![e].b = @ \o tokens]

\* A text node as it stands in the source, where lines may be wrapped.
Data(n) ==
    IF doc[n].ref = "wrapped"
    THEN <<Token("word", n), Newline, Token("rest", n)>>
    ELSE <<Token("word", n)>>

\* dropped and hidden; a tracking pixel is a hidden image.
Skipped(n) == doc[n].kind = "dropped" \/ doc[n].hidden

\* The walk goes on to n, the next child of at.
NextChild(n) ==
    /\ n > cursor /\ doc[n].parent = at
    /\ \A m \in cursor+1..n-1 : doc[m].parent # at

NoNextChild == \A m \in cursor+1..Len(doc) : doc[m].parent # at

WalkText(n) ==
    /\ doc[n].kind = "text"
    /\ Write(Data(n))
    /\ UNCHANGED <<at, e>>

WalkSkipped(n) ==
    /\ doc[n].kind # "text" /\ Skipped(n)
    /\ UNCHANGED <<at, e, extractors>>

\* Mutant: links are rendered before anyone asks whether they are hidden.
WalkAnchorFirst(n) ==
    /\ doc[n].kind = "anchor"
    /\ at' = n /\ e' = n
    /\ extractors' = [d \in DOMAIN extractors \cup {n} |->
                         IF d = n THEN NewExtractor(e) ELSE extractors[d]]

WalkAnchor(n) ==
    /\ doc[n].kind = "anchor" /\ ~Skipped(n)
    /\ at' = n /\ e' = n
    /\ extractors' = [d \in DOMAIN extractors \cup {n} |->
                         IF d = n THEN NewExtractor(e) ELSE extractors[d]]

\* The link of what is walked next, 0 for "".  A fragment or mailto href is no
\* link of a text, but it is the images' link.
Link == IF e = 0 \/ doc[e].ref = "" THEN 0 ELSE e

WalkImage(n) ==
    /\ doc[n].kind = "image" /\ ~Skipped(n)
    /\ extractors' =
          IF doc[n].ref # "file" THEN extractors
          ELSE [extractors EXCEPT ![e].candidates =
                  Append(@, [position |-> Len(@), src |-> n, link |-> Link])]
    /\ UNCHANGED <<at, e>>

WalkBlock(n) ==
    /\ doc[n].kind = "block" /\ ~Skipped(n)
    /\ at' = n
    /\ Write(<<Newline>>)
    /\ UNCHANGED e

Walk(n) ==
    /\ Walking /\ NextChild(n)
    /\ cursor' = n
    /\ (WalkText(n) \/ WalkSkipped(n) \/ WalkAnchor(n) \/ WalkImage(n) \/ WalkBlock(n))
    /\ UNCHANGED <<doc, extracted>>

-----------------------------------------------------------------------------
(* The ends of the calls, when no child is left.                           *)

\* Mutant: a block breaks the line before it only.
LeaveBlockOpen ==
    /\ at # 0 /\ doc[at].kind = "block"
    /\ at' = doc[at].parent
    /\ UNCHANGED <<e, extractors>>

\* The deferred line break of walk.
LeaveBlock ==
    /\ at # 0 /\ doc[at].kind = "block"
    /\ at' = doc[at].parent
    /\ Write(<<Newline>>)
    /\ UNCHANGED e

\* Every run of white space, line breaks among it, becomes one space.
Collapse(tokens) ==
    [i \in DOMAIN tokens |-> IF tokens[i] = Newline THEN Space ELSE tokens[i]]

Blank(tokens) == \A i \in DOMAIN tokens : tokens[i] \in {Newline, Space}

\* The link a with what was written inside it.
Rendered(a, tokens) ==
    IF Blank(tokens) THEN <<>>
    ELSE IF doc[a].ref # "url" THEN Collapse(tokens)
    ELSE <<Token("open", a)>> \o Collapse(tokens) \o <<Token("close", a)>>

\* The rest of anchor: the inner extractor goes into the one outside.
LeaveAnchor ==
    /\ at # 0 /\ doc[at].kind = "anchor"
    /\ LET inner == extractors[at]
       IN  /\ e' = inner.outer
           /\ extractors' =
                 [d \in DOMAIN extractors \ {at} |->
                    IF d # inner.outer THEN extractors[d]
                    ELSE [b |-> extractors[d].b \o Rendered(at, inner.b),
                          candidates |-> extractors[d].candidates \o inner.candidates,
                          outer |-> extractors[d].outer]]
    /\ at' = doc[at].parent

Leave ==
    /\ Walking /\ NoNextChild
    /\ (LeaveBlock \/ LeaveAnchor)
    /\ UNCHANGED <<doc, cursor, extracted>>

\* The paragraphs: the lines that are not blank, with the places of their
\* tokens, which order them.
Normalize(tokens) ==
    LET Line(i) ==
            {k \in DOMAIN tokens : \A m \in (i..k) \cup (k..i) : tokens[m] # Newline}
    IN  {Restrict(tokens, Line(i)) :
            i \in {k \in DOMAIN tokens : tokens[k] \notin {Newline, Space}}}

\* Mutant: the positions that nested extractors counted are left.
RenumberNot(candidates) == candidates

Renumber(candidates) ==
    [i \in DOMAIN candidates |-> [candidates[i] EXCEPT !.position = i - 1]]

\* The error of html.Parse is left out: a run it ends has failed, as one that a
\* model call ends (Extraction).
Extract ==
    /\ extracted = NULL /\ ~Walking
    /\ extractors' = [d \in {0} |-> NewExtractor(0)]
    /\ UNCHANGED <<doc, at, cursor, e, extracted>>

ExtractReturn ==
    /\ Walking /\ at = 0 /\ NoNextChild
    /\ extracted' = [text |-> Normalize(extractors[0].b),
                     candidates |-> Renumber(extractors[0].candidates)]
    /\ cursor' = 0 /\ extractors' = <<>>
    /\ UNCHANGED <<doc, at, e>>

\* The lines of the prompt the model picks a featured image from.
RenderCandidates(candidates) ==
    [i \in DOMAIN candidates |->
        [index |-> candidates[i].position, src |-> candidates[i].src,
         link |-> IF candidates[i].link = 0 THEN NULL ELSE candidates[i].link]]

DocInit ==
    /\ doc = <<>>
    /\ at = 0 /\ cursor = 0 /\ e = 0 /\ extractors = <<>>
    /\ extracted = NULL

DocNext ==
    \/ \E element \in Elements : \E parent \in Parents(element) : Parse(element, parent)
    \/ Extract
    \/ \E n \in DOMAIN doc : Walk(n)
    \/ Leave
    \/ ExtractReturn

-----------------------------------------------------------------------------
(* Properties of what Extract returns, stated over the tree.               *)

Visible(n) == ~Skipped(n) /\ \A a \in Ancestors(n) : ~Skipped(a)

\* The nearest link around n, 0 if there is none.
Nearest(n) == IF Within(n, "anchor") = {} THEN 0 ELSE Max(Within(n, "anchor"))

\* Candidate [N] of the prompt is the N-th visible image of the document, and
\* its wrapping link is that of the nearest link around it, however links and
\* blocks are nested (the nested extractors of anchor).
CandidatesFollowDocument ==
    extracted # NULL =>
        LET lines == RenderCandidates(extracted.candidates)
            LinkOf(n) == IF Nearest(n) = 0 \/ doc[Nearest(n)].ref = "" THEN NULL
                         ELSE Nearest(n)
        IN  /\ {lines[i].src : i \in DOMAIN lines} =
                  {n \in DOMAIN doc : doc[n].kind = "image" /\ doc[n].ref = "file"
                                      /\ Visible(n)}
            /\ \A i, j \in DOMAIN lines : i < j => lines[i].src < lines[j].src
            /\ \A i \in DOMAIN lines :
                  lines[i].index = i - 1 /\ lines[i].link = LinkOf(lines[i].src)

\* The words of a text.
Words(n) ==
    {Token("word", n)} \cup (IF doc[n].ref = "wrapped" THEN {Token("rest", n)} ELSE {})

IsWord(token) == token.tok \in {"word", "rest"}

Before(s, t) ==
    \/ s.of < t.of
    \/ s.of = t.of /\ s.tok = "word" /\ t.tok = "rest"

\* Place i of a line stands in the link a.
Around(line, i, a) ==
    \E j, k \in DOMAIN line :
        j <= i /\ i <= k /\ line[j] = Token("open", a) /\ line[k] = Token("close", a)

\* Every visible word reaches the prompt once, in document order, inside the
\* [text](url) of exactly its own usable links, and nothing of a dropped or
\* hidden subtree does; no link is torn apart by a paragraph break.
TextFollowsDocument ==
    extracted # NULL =>
        /\ \A n \in DOMAIN doc : doc[n].kind = "text" /\ Visible(n) =>
              \A word \in Words(n) :
                 \E line \in extracted.text : \E i \in DOMAIN line : line[i] = word
        /\ \A line \in extracted.text : \A i \in DOMAIN line : IsWord(line[i]) =>
              LET n == line[i].of
              IN  /\ n \in DOMAIN doc /\ doc[n].kind = "text" /\ Visible(n)
                  /\ line[i] \in Words(n)
                  /\ \A a \in DOMAIN doc :
                        Around(line, i, a) <=> a \in Within(n, "anchor") /\ doc[a].ref = "url"
        /\ \A line, other \in extracted.text :
              \A i \in DOMAIN line, j \in DOMAIN other :
                 IsWord(line[i]) /\ IsWord(other[j]) =>
                    \/ i < j /\ Before(line[i], other[j])
                    \/ j < i /\ Before(other[j], line[i])
                    \/ i = j /\ line = other

\* The blocks that set paragraphs apart.  Those inside a link do not, though
\* blockLevel's comment makes no exception: anchor collapses a link to one line.
Separating(n) == doc[n].kind = "block" /\ Visible(n) /\ Within(n, "anchor") = {}

\* One of them begins between two nodes of the document, or ends there.
BlockBetween(m, n) ==
    \E c \in DOMAIN doc :
        Separating(c) /\ ((m < c /\ c < n) \/ c \in Ancestors(m) \ Ancestors(n))

\* Sentences of different sections never run together into one paragraph
\* (blockLevel).
BlocksStayApart ==
    extracted # NULL =>
        \A line \in extracted.text : \A i, j \in DOMAIN line :
            i < j /\ IsWord(line[i]) /\ IsWord(line[j]) =>
                ~BlockBetween(line[i].of, line[j].of)
=============================================================================
