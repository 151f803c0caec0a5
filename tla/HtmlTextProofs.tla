-------------------------- MODULE HtmlTextProofs --------------------------
(***************************************************************************)
(* Proofs about HtmlText.                                                  *)
(***************************************************************************)
EXTENDS HtmlText, TLAPS

Node ==
    [kind : {"text", "block", "dropped", "anchor", "image"},
     ref : {"words", "wrapped", "url", "mark", "file", "data", ""},
     hidden : BOOLEAN, parent : Nat]

\* What html.Parse builds: a subtree is a stretch of nodes, only elements that
\* may hold others do, and every node is reached from each node around it by
\* way of a child.
Tree ==
    /\ doc \in Seq(Node)
    /\ \A n \in DOMAIN doc :
          /\ doc[n].parent \in 0..n-1
          /\ \A m \in doc[n].parent+1..n-1 : doc[m].parent >= doc[n].parent
          /\ doc[n].parent # 0 =>
                doc[doc[n].parent].kind \in {"block", "dropped", "anchor"}
          /\ doc[n].kind = "text" => ~doc[n].hidden
    /\ \A n \in DOMAIN doc : \A a \in Ancestors(n) \cup {0} :
          \E c \in Ancestors(n) \cup {n} : doc[c].parent = a

\* The nodes whose calls are under way.
Open == {0, at} \cup Ancestors(at)

\* Everything up to the cursor has been walked, and of what follows nothing is
\* visible but what the open calls will reach.
Position ==
    /\ at \in 0..cursor /\ cursor \in 0..Len(doc)
    /\ at # 0 => Visible(at) /\ doc[at].kind \in {"block", "anchor"}
    /\ \A m \in at+1..cursor : doc[m].parent >= at
    /\ \A n \in cursor+1..Len(doc) : Visible(n) =>
          \A c \in Ancestors(n) : c > cursor \/ c \in Open

TokenType ==
    [tok : {"word", "rest", "newline", "space", "open", "close"}, of : Nat]
CandidateType == [position : Nat, src : Nat, link : Nat]
Extractor == [b : Seq(TokenType), candidates : Seq(CandidateType), outer : Nat]

\* The extractors in use are those of the open links, each inside the next.
Nesting ==
    /\ DOMAIN extractors = {d \in Open : d = 0 \/ doc[d].kind = "anchor"}
    /\ e \in DOMAIN extractors
    /\ \A d \in DOMAIN extractors : d <= e /\ extractors[d] \in Extractor
    /\ \A d \in DOMAIN extractors \ {0} :
          /\ extractors[d].outer \in DOMAIN extractors
          /\ extractors[d].outer < d
          /\ \A c \in DOMAIN extractors : c < d => c <= extractors[d].outer

\* The extractor d is the one for n, of those in use when the walk is at last.
Inside(d, n, used, last) ==
    /\ d < n /\ n <= last
    /\ \A c \in used : d < c => n < c

FileImage(n) == doc[n].kind = "image" /\ doc[n].ref = "file" /\ Visible(n)

\* What the candidate of an image is to show as its link.
HrefAround(n) ==
    IF Nearest(n) = 0 \/ doc[Nearest(n)].ref = "" THEN 0 ELSE Nearest(n)

Collected(d) ==
    LET cs == extractors[d].candidates
    IN  /\ \A i \in DOMAIN cs :
              /\ cs[i].src \in DOMAIN doc /\ FileImage(cs[i].src)
              /\ Inside(d, cs[i].src, DOMAIN extractors, cursor)
              /\ cs[i].link = HrefAround(cs[i].src)
        /\ \A i, j \in DOMAIN cs : i < j => cs[i].src < cs[j].src

Images ==
    /\ \A d \in DOMAIN extractors : Collected(d)
    /\ \A n \in 1..cursor : FileImage(n) =>
          \E d \in DOMAIN extractors : \E i \in DOMAIN extractors[d].candidates :
             extractors[d].candidates[i].src = n

TextNode(n) == doc[n].kind = "text" /\ Visible(n)

IsMark(token) == token.tok \in {"open", "close"}

IsLink(a) == doc[a].kind = "anchor" /\ doc[a].ref = "url"

\* Every token comes from where its extractor's nodes are.
Sourced(d) ==
    \A i \in DOMAIN extractors[d].b :
       LET t == extractors[d].b[i]
       IN  /\ IsWord(t) => t.of \in DOMAIN doc /\ TextNode(t.of) /\ t \in Words(t.of)
           /\ IsMark(t) => t.of \in DOMAIN doc /\ IsLink(t.of)
           /\ IsWord(t) \/ IsMark(t) => Inside(d, t.of, DOMAIN extractors, cursor)
           /\ ~IsWord(t) /\ ~IsMark(t) => t \in {Newline, Space}

Tokens == \A d \in DOMAIN extractors : Sourced(d)

Written ==
    \A n \in 1..cursor : TextNode(n) => \A w \in Words(n) :
       \E d \in DOMAIN extractors : \E i \in DOMAIN extractors[d].b :
          extractors[d].b[i] = w

Ordered(b) ==
    \A i, j \in DOMAIN b : i < j /\ IsWord(b[i]) /\ IsWord(b[j]) => Before(b[i], b[j])

\* No link is torn apart.
Whole(b) ==
    \A j, k \in DOMAIN b :
       b[j].tok = "open" /\ b[k] = Token("close", b[j].of) =>
          \A m \in j..k : b[m] # Newline

\* A word stands in those of its links that are inside d.
Linked(d, b) ==
    \A i \in DOMAIN b : IsWord(b[i]) =>
       \A a \in DOMAIN doc :
          Around(b, i, a) <=> a \in Within(b[i].of, "anchor") /\ IsLink(a) /\ a > d

Lined(d) ==
    Ordered(extractors[d].b) /\ Whole(extractors[d].b) /\ Linked(d, extractors[d].b)

Lines == \A d \in DOMAIN extractors : Lined(d)

Broken(b, i, j) == \E k \in i+1..j-1 : b[k] = Newline

Breaks ==
    LET b == extractors[0].b
    IN  \A i \in DOMAIN b : IsWord(b[i]) =>
           /\ \A j \in DOMAIN b : i < j /\ IsWord(b[j]) =>
                 (BlockBetween(b[i].of, b[j].of) => Broken(b, i, j))
           /\ \A c \in 1..cursor :
                 Separating(c) /\ (b[i].of < c \/ c \in Ancestors(b[i].of) \ Open) =>
                    Broken(b, i, Len(b) + 1)

WalkInv == Position /\ Nesting /\ Images /\ Tokens /\ Written /\ Lines /\ Breaks

DocInv ==
    /\ Tree
    /\ Walking => WalkInv /\ extracted = NULL
    /\ ~Walking => at = 0 /\ cursor = 0 /\ e = 0
    /\ CandidatesFollowDocument /\ TextFollowsDocument /\ BlocksStayApart

-----------------------------------------------------------------------------
LEMMA AppendPlaces ==
    ASSUME NEW S, NEW s \in Seq(S), NEW x \in S
    PROVE  /\ Len(s) \in Nat /\ DOMAIN s = 1..Len(s)
           /\ DOMAIN Append(s, x) = 1..Len(s)+1
           /\ \A i \in 1..Len(s) : Append(s, x)[i] = s[i]
           /\ Append(s, x)[Len(s)+1] = x
OBVIOUS

-----------------------------------------------------------------------------
(* The tree.                                                               *)

LEMMA TreeTypes ==
    ASSUME Tree
    PROVE  /\ Len(doc) \in Nat /\ DOMAIN doc = 1..Len(doc)
           /\ \A n \in DOMAIN doc : doc[n] \in Node /\ doc[n].parent \in 0..n-1
BY DEF Tree

LEMMA AncestorsAreNodes ==
    ASSUME Tree, NEW n \in DOMAIN doc, NEW a \in Ancestors(n)
    PROVE  a \in DOMAIN doc /\ a < n
BY TreeTypes DEF Ancestors

\* The recursion behind Ancestors: the parent, and what the parent is in.
LEMMA AncestorsByParent ==
    ASSUME Tree, NEW n \in DOMAIN doc
    PROVE  Ancestors(n) =
              IF doc[n].parent = 0 THEN {}
              ELSE {doc[n].parent} \cup Ancestors(doc[n].parent)
<1> DEFINE p == doc[n].parent
<1>0. /\ Len(doc) \in Nat /\ n \in 1..Len(doc) /\ p \in 0..n-1
      /\ \A m \in 1..Len(doc) : doc[m].parent \in 0..m-1
      /\ \A m \in p+1..n-1 : doc[m].parent >= p
  BY TreeTypes DEF Tree
<1>1. ASSUME NEW a \in Ancestors(n)
      PROVE  p # 0 /\ (a = p \/ a \in Ancestors(p))
  BY <1>0, <1>1 DEF Ancestors
<1>2. ASSUME p # 0
      PROVE  p \in Ancestors(n)
  BY <1>0, <1>2 DEF Ancestors
<1>3. ASSUME p # 0, NEW a \in Ancestors(p)
      PROVE  a \in Ancestors(n)
  <2>1. a \in 1..p-1 /\ \A m \in a+1..p : doc[m].parent >= a
    BY <1>3 DEF Ancestors
  <2>2. ASSUME NEW m \in a+1..n
        PROVE  doc[m].parent >= a
    <3>1. CASE m <= p
      BY <2>1, <1>0, <3>1
    <3>2. CASE m > p
      <4>1. doc[m].parent >= p
        BY <1>0, <3>2
      <4>2. doc[m].parent \in Nat
        BY <1>0, <2>1
      <4> QED
        BY <4>1, <4>2, <2>1, <1>0
    <3> QED
      BY <3>1, <3>2, <1>0, <2>1
  <2> QED
    BY <1>0, <2>1, <2>2 DEF Ancestors
<1> QED
  BY <1>1, <1>2, <1>3

\* The nodes around a node form a chain.
LEMMA AncestorsChain ==
    ASSUME Tree, NEW n \in DOMAIN doc, NEW a \in Ancestors(n)
    PROVE  /\ \A m \in a+1..n : a \in Ancestors(m)
           /\ \A c \in Ancestors(a) : c \in Ancestors(n)
           /\ \A c \in Ancestors(n) : c < a => c \in Ancestors(a)
           /\ \A c \in Ancestors(n) : c > a => a \in Ancestors(c)
<1>0. /\ Len(doc) \in Nat /\ n \in 1..Len(doc)
      /\ \A m \in 1..Len(doc) : doc[m].parent \in 0..m-1
      /\ a \in 1..n-1 /\ \A m \in a+1..n : doc[m].parent >= a
  BY TreeTypes DEF Ancestors
<1>1. ASSUME NEW m \in a+1..n
      PROVE  a \in Ancestors(m)
  BY <1>0 DEF Ancestors
<1>2. ASSUME NEW c \in Ancestors(a)
      PROVE  c \in Ancestors(n)
  <2>1. c \in 1..a-1 /\ \A m \in c+1..a : doc[m].parent >= c
    BY DEF Ancestors
  <2>2. ASSUME NEW m \in c+1..n
        PROVE  doc[m].parent >= c
    <3>1. CASE m <= a
      BY <2>1, <1>0, <3>1
    <3>2. CASE m > a
      <4>1. doc[m].parent >= a /\ doc[m].parent \in Nat
        BY <1>0, <2>1, <3>2
      <4> QED
        BY <4>1, <2>1, <1>0
    <3> QED
      BY <3>1, <3>2, <1>0, <2>1
  <2> QED
    BY <1>0, <2>1, <2>2 DEF Ancestors
<1>3. ASSUME NEW c \in Ancestors(n), c < a
      PROVE  c \in Ancestors(a)
  BY <1>0, <1>3 DEF Ancestors
<1>4. ASSUME NEW c \in Ancestors(n), c > a
      PROVE  a \in Ancestors(c)
  <2>1. c \in 1..n-1
    BY DEF Ancestors
  <2> QED
    BY <1>0, <1>1, <1>4, <2>1
<1> QED
  BY <1>1, <1>2, <1>3, <1>4

\* What is around a visible node is visible.
LEMMA VisibleAround ==
    ASSUME Tree, NEW n \in DOMAIN doc, Visible(n), NEW a \in Ancestors(n)
    PROVE  Visible(a)
BY AncestorsChain DEF Visible

LEMMA VisibleChild ==
    ASSUME Tree, NEW n \in DOMAIN doc, ~Skipped(n),
           doc[n].parent = 0 \/ Visible(doc[n].parent)
    PROVE  Visible(n)
BY AncestorsByParent DEF Visible

\* From a node, or from the document, a child leads to each node below it.
LEMMA ChildTowards ==
    ASSUME Tree, NEW n \in DOMAIN doc, NEW a \in Ancestors(n) \cup {0}
    PROVE  \E c \in Ancestors(n) \cup {n} : doc[c].parent = a
BY DEF Tree

\* html.Parse goes on from any of the elements it has open.
LEMMA ParseTree ==
    ASSUME Tree, NEW element \in Elements, NEW parent \in Parents(element),
           Parse(element, parent)
    PROVE  Tree'
<1> DEFINE N == Len(doc) + 1
           node == [kind |-> element.kind, ref |-> element.ref,
                    hidden |-> element.hidden, parent |-> parent]
<1>0. /\ Len(doc) \in Nat /\ DOMAIN doc = 1..Len(doc)
      /\ \A m \in 1..Len(doc) : doc[m].parent \in 0..m-1
  BY TreeTypes
<1>1. /\ element.kind \in {"text", "block", "dropped", "anchor", "image"}
      /\ element.ref \in {"words", "wrapped", "url", "mark", "file", "data", ""}
      /\ element.hidden \in BOOLEAN
      /\ element.kind = "text" => ~element.hidden
  BY ElementsAssumption DEF Element
<1>2. \/ parent = 0
      \/ /\ parent \in 1..Len(doc)
         /\ doc[parent].kind \in {"block", "dropped", "anchor"}
         /\ \A m \in parent+1..Len(doc) : doc[m].parent >= parent
  BY <1>0 DEF Parents, Ancestors
<1>3. /\ doc' \in Seq(Node) /\ Len(doc') = N /\ DOMAIN doc' = 1..N
      /\ doc'[N] = node
      /\ \A m \in 1..Len(doc) : doc'[m] = doc[m]
  <2>0. parent \in Nat
    BY <1>0, <1>2
  <2>1. node \in Node
    BY <1>1, <2>0 DEF Node
  <2>2. doc \in Seq(Node)
    BY DEF Tree
  <2>3. doc' = Append(doc, node)
    BY DEF Parse
  <2> QED
    BY <2>1, <2>2, <2>3, <1>0
<1>4. ASSUME NEW n \in DOMAIN doc'
      PROVE  /\ doc'[n].parent \in 0..n-1
             /\ \A m \in doc'[n].parent+1..n-1 : doc'[m].parent >= doc'[n].parent
             /\ doc'[n].parent # 0 =>
                   doc'[doc'[n].parent].kind \in {"block", "dropped", "anchor"}
             /\ doc'[n].kind = "text" => ~doc'[n].hidden
  <2>1. CASE n = N
    <3>1. doc'[n].parent = parent /\ doc'[n].kind = element.kind
          /\ doc'[n].hidden = element.hidden
      BY <1>3, <2>1
    <3>2. parent \in 0..Len(doc)
      BY <1>0, <1>2
    <3>3. \A m \in parent+1..Len(doc) : doc[m].parent >= parent
      BY <1>0, <1>2
    <3> QED
      <4>1. \A m \in parent+1..N-1 : doc'[m].parent >= parent
        BY <1>0, <1>3, <3>2, <3>3
      <4>2. parent # 0 => doc'[parent].kind \in {"block", "dropped", "anchor"}
        BY <1>2, <1>3
      <4>3. parent \in 0..N-1
        BY <1>0, <3>2
      <4> HIDE DEF N, node
      <4> QED
        BY <1>1, <2>1, <3>1, <4>1, <4>2, <4>3
  <2>2. CASE n \in 1..Len(doc)
    <3>1. doc'[n] = doc[n] /\ doc[n].parent \in 0..n-1
      BY <1>0, <1>3, <2>2
    <3>2. /\ \A m \in doc[n].parent+1..n-1 : doc[m].parent >= doc[n].parent
          /\ doc[n].parent # 0 =>
                doc[doc[n].parent].kind \in {"block", "dropped", "anchor"}
          /\ doc[n].kind = "text" => ~doc[n].hidden
      BY <1>0, <2>2 DEF Tree
    <3>3. /\ \A m \in doc[n].parent+1..n-1 : doc'[m] = doc[m]
          /\ doc[n].parent # 0 => doc'[doc[n].parent] = doc[doc[n].parent]
      BY <1>0, <1>3, <2>2, <3>1
    <3> QED
      BY <3>1, <3>2, <3>3
  <2> QED
    BY <1>0, <1>3, <2>1, <2>2
<1>5. ASSUME NEW n \in DOMAIN doc', NEW a \in Ancestors(n)' \cup {0}
      PROVE  \E c \in Ancestors(n)' \cup {n} : doc'[c].parent = a
  <2>1. CASE n \in 1..Len(doc)
    <3>1. Ancestors(n)' = Ancestors(n)
      BY <1>0, <1>3, <2>1 DEF Ancestors
    <3>2. PICK c \in Ancestors(n) \cup {n} : doc[c].parent = a
      BY <1>0, <1>5, <2>1, <3>1 DEF Tree
    <3>3. c \in 1..Len(doc)
      BY <1>0, <2>1, AncestorsAreNodes
    <3> QED
      BY <1>3, <3>1, <3>2, <3>3
  <2>2. CASE n = N /\ a = parent
    BY <1>3, <2>2
  <2>3. CASE n = N /\ a # parent
    <3>1. a < parent /\ parent # 0
      BY <1>0, <1>2, <1>3, <2>3 DEF Ancestors
    <3>2. a \in Ancestors(parent) \cup {0}
      BY <1>0, <1>2, <1>3, <2>3, <3>1 DEF Ancestors
    <3>3. PICK c \in Ancestors(parent) \cup {parent} : doc[c].parent = a
      BY <1>0, <1>2, <3>1, <3>2 DEF Tree
    <3>4. c \in 1..parent /\ \A m \in c+1..parent : doc[m].parent >= c
      BY <1>0, <1>2, <3>1, <3>3 DEF Ancestors
    <3>5. \A m \in c+1..N : doc'[m].parent >= c
      <4> SUFFICES ASSUME NEW m \in c+1..N
                   PROVE  doc'[m].parent >= c
        OBVIOUS
      <4>1. CASE m <= parent
        BY <1>0, <1>2, <1>3, <3>1, <3>4, <4>1
      <4>2. CASE m > parent /\ m <= Len(doc)
        <5>1. doc[m].parent >= parent /\ doc[m].parent \in Nat
          BY <1>0, <1>2, <3>1, <4>2
        <5> QED
          BY <1>0, <1>2, <1>3, <3>1, <3>4, <4>2, <5>1
      <4>3. CASE m = N
        BY <1>0, <1>2, <1>3, <3>1, <3>4, <4>3
      <4> QED
        BY <4>1, <4>2, <4>3, <1>0, <1>2, <3>1, <3>4
    <3>6. c \in Ancestors(n)'
      BY <1>0, <1>2, <1>3, <2>3, <3>1, <3>4, <3>5 DEF Ancestors
    <3> QED
      BY <1>0, <1>2, <1>3, <3>1, <3>3, <3>4, <3>6
  <2> QED
    BY <1>0, <1>3, <2>1, <2>2, <2>3
<1> QED
  BY <1>3, <1>4, <1>5 DEF Tree

-----------------------------------------------------------------------------
(* Where walk is.                                                          *)

\* A walk leaves the document as it is.
LEMMA SameTree ==
    ASSUME doc' = doc
    PROVE  /\ Tree => Tree'
           /\ \A n : Ancestors(n)' = Ancestors(n)
           /\ \A n : Skipped(n)' <=> Skipped(n)
           /\ \A n : Visible(n)' <=> Visible(n)
           /\ \A n, kind : Within(n, kind)' = Within(n, kind)
<1>1. \A n : Ancestors(n)' = Ancestors(n)
  BY DEF Ancestors
<1>2. \A n : Skipped(n)' <=> Skipped(n)
  BY DEF Skipped
<1>3. \A n : Visible(n)' <=> Visible(n)
  BY <1>1, <1>2 DEF Visible
<1>4. \A n, kind : Within(n, kind)' = Within(n, kind)
  BY <1>1 DEF Within
<1>5. ASSUME Tree
      PROVE  Tree'
  <2>1. \A n \in DOMAIN doc : \A a \in Ancestors(n)' \cup {0} :
           \E c \in Ancestors(n)' \cup {n} : doc[c].parent = a
    BY <1>1, <1>5, ChildTowards
  <2> QED
    BY <1>5, <2>1 DEF Tree
<1> QED
  BY <1>1, <1>2, <1>3, <1>4, <1>5

LEMMA PositionTypes ==
    ASSUME Tree, Position
    PROVE  /\ at \in 0..cursor /\ cursor \in 0..Len(doc) /\ Len(doc) \in Nat
           /\ DOMAIN doc = 1..Len(doc)
           /\ Open \subseteq 0..at /\ at \in Open /\ 0 \in Open
           /\ \A n \in DOMAIN doc : doc[n].parent \in 0..n-1
BY TreeTypes DEF Position, Open, Ancestors

LEMMA OpenAhead ==
    ASSUME Position, NEW n \in cursor+1..Len(doc), Visible(n), NEW c \in Ancestors(n)
    PROVE  c > cursor \/ c \in Open
BY DEF Position

\* What is visible beyond the cursor and below at is reached by a child of at
\* that is still to be walked.
LEMMA ChildAhead ==
    ASSUME Tree, Position, NEW k \in cursor+1..Len(doc), Visible(k),
           at \in Ancestors(k) \cup {0}
    PROVE  \E c \in cursor+1..k : doc[c].parent = at
<1>0. k \in DOMAIN doc /\ k \in Nat /\ cursor \in Nat /\ k > cursor
  BY PositionTypes
<1>1. PICK c \in Ancestors(k) \cup {k} : doc[c].parent = at
  BY <1>0, ChildTowards
<1>2. c \in 1..k
  BY <1>0, PositionTypes, AncestorsAreNodes
<1>3. ASSUME c <= cursor
      PROVE  FALSE
  <2>1. c \in Ancestors(k)
    BY <1>0, <1>1, <1>2, <1>3
  <2>2. c \in Open
    BY <1>0, <1>2, <1>3, <2>1, OpenAhead
  <2>3. c <= at
    BY <2>2, PositionTypes
  <2> QED
    BY <1>1, <1>2, <2>3, PositionTypes
<1> QED
  BY <1>0, <1>1, <1>2, <1>3

\* Nothing visible lies between the cursor and the next child.
LEMMA NothingBetween ==
    ASSUME Tree, Position, NEW n \in DOMAIN doc, NextChild(n), NEW k \in cursor+1..n-1
    PROVE  ~Visible(k)
<1> SUFFICES ASSUME Visible(k)
             PROVE  FALSE
  OBVIOUS
<1>1. \A m \in at+1..n-1 : doc[m].parent >= at
  BY DEF Tree, NextChild
<1>2. at \in Ancestors(k) \cup {0}
  BY <1>1, PositionTypes DEF Ancestors
<1>3. PICK c \in cursor+1..k : doc[c].parent = at
  BY <1>2, ChildAhead, PositionTypes
<1> QED
  BY <1>3, PositionTypes DEF NextChild

\* When no child is left, nothing visible below at is.
LEMMA NothingLeft ==
    ASSUME Tree, Position, NoNextChild, NEW k \in cursor+1..Len(doc), Visible(k)
    PROVE  at # 0 /\ at \notin Ancestors(k)
BY ChildAhead, PositionTypes DEF NoNextChild

\* The next child is in the nodes whose calls are under way.
LEMMA NextIsInOpen ==
    ASSUME Tree, Position, NEW n \in DOMAIN doc, NextChild(n)
    PROVE  /\ n > cursor /\ n > at
           /\ Ancestors(n) = Open \ {0}
           /\ ~Skipped(n) => Visible(n)
<1>1. n > cursor /\ doc[n].parent = at
  BY DEF NextChild
<1>2. Ancestors(n) = IF at = 0 THEN {} ELSE {at} \cup Ancestors(at)
  BY <1>1, AncestorsByParent
<1>3. 0 \notin Ancestors(at)
  BY DEF Ancestors
<1>4. at = 0 => Ancestors(at) = {}
  BY DEF Ancestors
<1>5. ~Skipped(n) => Visible(n)
  BY <1>1, VisibleChild DEF Position
<1> QED
  BY <1>1, <1>2, <1>3, <1>4, <1>5, PositionTypes DEF Open

\* A node without a call of its own for its children: a text, an image, or one
\* that is skipped.
LEMMA WalkPast ==
    ASSUME Tree, Position, NEW n \in DOMAIN doc, NextChild(n),
           Skipped(n) \/ doc[n].kind \in {"text", "image"},
           doc' = doc, cursor' = n, at' = at
    PROVE  Position'
<1>0. n \in 1..Len(doc) /\ n > cursor /\ n > at /\ doc[n].parent = at
  BY PositionTypes, NextIsInOpen DEF NextChild
<1>1. Open' = Open
  BY SameTree DEF Open
<1>2. \A m \in at+1..n : doc[m].parent >= at
  <2>1. at \in Nat /\ n \in Nat /\ at+1..n = (at+1..n-1) \cup {n}
    BY <1>0, PositionTypes
  <2>2. \A m \in at+1..n-1 : doc[m].parent >= at
    BY <1>0 DEF Tree
  <2> QED
    BY <1>0, <2>1, <2>2
<1>3. ASSUME NEW k \in n+1..Len(doc), Visible(k), NEW c \in Ancestors(k)
      PROVE  c > n \/ c \in Open
  <2>1. c \in DOMAIN doc /\ Visible(c)
    BY <1>0, <1>3, PositionTypes, VisibleAround, AncestorsAreNodes
  <2>2. c \notin cursor+1..n-1
    BY <2>1, NothingBetween
  <2>3. c # n
    <3>1. CASE Skipped(n)
      BY <2>1, <3>1 DEF Visible
    <3>2. CASE doc[n].kind \in {"text", "image"}
      <4>1. doc[n].kind \notin {"block", "dropped", "anchor"}
        BY <3>2
      <4>2. n \notin Ancestors(k)
        <5>1. ASSUME n \in Ancestors(k)
              PROVE  FALSE
          <6>0. k \in DOMAIN doc
            BY <1>0, <1>3, PositionTypes
          <6>1. PICK d \in Ancestors(k) \cup {k} : doc[d].parent = n
            BY <5>1, <6>0, ChildTowards
          <6>2. d \in DOMAIN doc
            BY <6>0, AncestorsAreNodes
          <6> QED
            BY <1>0, <4>1, <6>1, <6>2 DEF Tree
        <5> QED
          BY <5>1
      <4> QED
        BY <1>3, <4>2
    <3> QED
      BY <3>1, <3>2
  <2>4. c > cursor \/ c \in Open
    BY <1>0, <1>3, PositionTypes, OpenAhead
  <2> QED
    BY <1>0, <2>1, <2>2, <2>3, <2>4, PositionTypes
<1> QED
  BY <1>0, <1>1, <1>2, <1>3, SameTree, PositionTypes DEF Position

\* A block or a link.
LEMMA WalkInto ==
    ASSUME Tree, Position, NEW n \in DOMAIN doc, NextChild(n),
           ~Skipped(n), doc[n].kind \in {"block", "anchor"},
           doc' = doc, cursor' = n, at' = n
    PROVE  Position' /\ Open' = Open \cup {n}
<1>0. n \in 1..Len(doc) /\ n > cursor /\ n > at /\ Visible(n) /\ Ancestors(n) = Open \ {0}
  BY PositionTypes, NextIsInOpen
<1>1. Open' = Open \cup {n}
  BY <1>0, SameTree, PositionTypes DEF Open
<1>3. ASSUME NEW k \in n+1..Len(doc), Visible(k), NEW c \in Ancestors(k)
      PROVE  c > n \/ c \in Open \cup {n}
  <2>1. c \in DOMAIN doc /\ Visible(c)
    BY <1>0, <1>3, PositionTypes, VisibleAround, AncestorsAreNodes
  <2>2. c \notin cursor+1..n-1
    BY <2>1, NothingBetween
  <2>3. c > cursor \/ c \in Open
    BY <1>0, <1>3, PositionTypes, OpenAhead
  <2> QED
    BY <1>0, <2>1, <2>2, <2>3, PositionTypes
<1> QED
  BY <1>0, <1>1, <1>3, SameTree, PositionTypes DEF Position

\* The end of a call.
LEMMA WalkOut ==
    ASSUME Tree, Position, NoNextChild, at # 0,
           doc' = doc, cursor' = cursor, at' = doc[at].parent
    PROVE  Position' /\ Open' = Open \ {at}
<1>0. at \in DOMAIN doc /\ doc[at].parent \in 0..at-1
  BY PositionTypes
<1>1. Ancestors(at) = IF at' = 0 THEN {} ELSE {at'} \cup Ancestors(at')
  BY <1>0, AncestorsByParent
<1>2. Open' = Open \ {at}
  <2>1. at \notin Ancestors(at) /\ at \notin Ancestors(at') /\ at' # at
    BY <1>0, PositionTypes DEF Ancestors
  <2>2. at' = 0 => Ancestors(at') = {}
    BY DEF Ancestors
  <2>3. Open' = {0, at'} \cup Ancestors(at')
    BY SameTree DEF Open
  <2> QED
    BY <1>1, <2>1, <2>2, <2>3 DEF Open
<1>3. at' # 0 => Visible(at') /\ doc[at'].kind \in {"block", "anchor"}
  <2> SUFFICES ASSUME at' # 0
               PROVE  Visible(at') /\ doc[at'].kind \in {"block", "anchor"}
    OBVIOUS
  <2>1. Visible(at')
    BY <1>0, <1>1, VisibleAround DEF Position
  <2>2. doc[at'].kind \in {"block", "dropped", "anchor"}
    BY <1>0 DEF Tree
  <2> QED
    BY <2>1, <2>2 DEF Visible, Skipped
<1>4. \A m \in at'+1..cursor : doc[m].parent >= at'
  <2> SUFFICES ASSUME NEW m \in at'+1..cursor
               PROVE  doc[m].parent >= at'
    OBVIOUS
  <2>1. CASE m < at
    BY <1>0, <2>1, PositionTypes DEF Tree
  <2>2. CASE m = at
    BY <1>0, <2>2
  <2>3. CASE m > at
    <3>1. doc[m].parent >= at /\ doc[m].parent \in Nat
      BY <1>0, <2>3, PositionTypes DEF Position
    <3> QED
      BY <1>0, <3>1, PositionTypes
  <2> QED
    BY <2>1, <2>2, <2>3, <1>0, PositionTypes
<1>5. ASSUME NEW k \in cursor+1..Len(doc), Visible(k), NEW c \in Ancestors(k)
      PROVE  c > cursor \/ c \in Open \ {at}
  BY <1>5, NothingLeft, OpenAhead
<1> QED
  BY <1>0, <1>2, <1>3, <1>4, <1>5, SameTree, PositionTypes DEF Position

-----------------------------------------------------------------------------
(* The extractors.                                                         *)

LEMMA NestingTypes ==
    ASSUME Tree, Position, Nesting
    PROVE  /\ DOMAIN extractors \subseteq Open
           /\ DOMAIN extractors \subseteq 0..at /\ 0 \in DOMAIN extractors
           /\ e \in DOMAIN extractors /\ e \in 0..at
           /\ \A d \in DOMAIN extractors :
                 /\ d <= e /\ extractors[d] \in Extractor
                 /\ extractors[d].b \in Seq(TokenType)
                 /\ extractors[d].candidates \in Seq(CandidateType)
                 /\ extractors[d].outer \in Nat
BY PositionTypes DEF Nesting, Extractor

\* The links around a node to be walked are those with an extractor.
LEMMA LinksOfNext ==
    ASSUME Tree, Position, Nesting, NEW n \in DOMAIN doc, NextChild(n)
    PROVE  Within(n, "anchor") = DOMAIN extractors \ {0} /\ Nearest(n) = e
<1>1. Within(n, "anchor") = DOMAIN extractors \ {0}
  BY NextIsInOpen DEF Within, Nesting
<1>2. CASE e = 0
  BY <1>1, <1>2, NestingTypes, PositionTypes DEF Nearest
<1>3. CASE e # 0
  <2> DEFINE S == DOMAIN extractors \ {0}
  <2>1. e \in S /\ \A d \in S : e >= d
    BY <1>3, NestingTypes, PositionTypes
  <2>2. \A x \in S : (\A y \in S : x >= y) => x = e
    BY <2>1, NestingTypes, PositionTypes
  <2>3. Max(S) = e
    BY <2>1, <2>2 DEF Max
  <2> QED
    BY <1>1, <2>1, <2>3 DEF Nearest
<1> QED
  BY <1>2, <1>3

\* A write goes to the receiver.
LEMMA WriteToReceiver ==
    ASSUME Tree, Position, Nesting, NEW tokens \in Seq(TokenType), Write(tokens)
    PROVE  /\ DOMAIN extractors' = DOMAIN extractors
           /\ extractors'[e].b = extractors[e].b \o tokens
           /\ \A d \in DOMAIN extractors :
                 /\ extractors'[d] \in Extractor
                 /\ d # e => extractors'[d].b = extractors[d].b
                 /\ extractors'[d].candidates = extractors[d].candidates
                 /\ extractors'[d].outer = extractors[d].outer
<1>1. extractors' = [extractors EXCEPT ![e].b = extractors[e].b \o tokens]
  BY DEF Write
<1>2. e \in DOMAIN extractors /\ \A d \in DOMAIN extractors : extractors[d] \in Extractor
  BY NestingTypes
<1>3. extractors[e].b \o tokens \in Seq(TokenType)
  BY <1>2 DEF Extractor
<1> QED
  BY <1>1, <1>2, <1>3 DEF Extractor

\* The extractors stay nested when none comes or goes.
LEMMA NestingKept ==
    ASSUME Nesting, doc' = doc, e' = e, DOMAIN extractors' = DOMAIN extractors,
           \A d \in DOMAIN extractors :
              extractors'[d] \in Extractor /\ extractors'[d].outer = extractors[d].outer,
           {d \in Open' : d = 0 \/ doc[d].kind = "anchor"} =
              {d \in Open : d = 0 \/ doc[d].kind = "anchor"}
    PROVE  Nesting'
BY DEF Nesting

\* What went to an extractor stays with it.
LEMMA InsideKept ==
    ASSUME NEW d, NEW n \in Nat, Inside(d, n, DOMAIN extractors, cursor), cursor \in Nat, cursor' \in Nat,
           cursor <= cursor',
           \A c \in DOMAIN extractors' : c \in DOMAIN extractors \/ (c \in Nat /\ c > cursor)
    PROVE  Inside(d, n, DOMAIN extractors', cursor')
BY DEF Inside

-----------------------------------------------------------------------------
(* The images.                                                             *)

LEMMA SameImages ==
    ASSUME doc' = doc
    PROVE  /\ \A n : FileImage(n)' <=> FileImage(n)
           /\ \A n : Nearest(n)' = Nearest(n)
           /\ \A n : HrefAround(n)' = HrefAround(n)
<1>1. \A n : FileImage(n)' <=> FileImage(n)
  BY SameTree DEF FileImage
<1>2. \A n : Nearest(n)' = Nearest(n)
  BY SameTree DEF Nearest
<1>3. \A n : HrefAround(n)' = HrefAround(n)
  BY <1>2 DEF HrefAround
<1> QED
  BY <1>1, <1>2, <1>3

\* A step that collects no image and passes none.
LEMMA ImagesKept ==
    ASSUME Tree, Position, Nesting, Images, doc' = doc,
           cursor' \in Nat, cursor <= cursor',
           DOMAIN extractors \subseteq DOMAIN extractors',
           \A d \in DOMAIN extractors :
              extractors'[d].candidates = extractors[d].candidates,
           \A d \in DOMAIN extractors' :
              \/ d \in DOMAIN extractors
              \/ d \in Nat /\ d > cursor /\ extractors'[d].candidates = <<>>,
           \A n \in cursor+1..cursor' : ~FileImage(n)
    PROVE  Images'
<1>0. cursor \in Nat /\ DOMAIN extractors \subseteq Nat
  BY NestingTypes, PositionTypes
<1>1. ASSUME NEW d \in DOMAIN extractors'
      PROVE  Collected(d)'
  <2>1. CASE d \in DOMAIN extractors
    <3> DEFINE cs == extractors[d].candidates
    <3>1. Collected(d) /\ extractors'[d].candidates = cs
      BY <2>1 DEF Images
    <3>2. ASSUME NEW i \in DOMAIN cs
          PROVE  Inside(d, cs[i].src, DOMAIN extractors', cursor')
      <4>1. cs[i].src \in Nat /\ Inside(d, cs[i].src, DOMAIN extractors, cursor)
        BY <3>1, PositionTypes DEF Collected
      <4>2. \A c \in DOMAIN extractors' : c \in DOMAIN extractors \/ (c \in Nat /\ c > cursor)
        OBVIOUS
      <4> QED
        BY <1>0, <3>1, <4>1, <4>2 DEF Inside
    <3> QED
      BY <3>1, <3>2, SameImages DEF Collected, Inside
  <2>2. CASE extractors'[d].candidates = <<>>
    BY <2>2 DEF Collected
  <2> QED
    BY <2>1, <2>2
<1>2. ASSUME NEW n \in 1..cursor', FileImage(n)
      PROVE  \E d \in DOMAIN extractors' : \E i \in DOMAIN extractors'[d].candidates :
                extractors'[d].candidates[i].src = n
  <2>1. n \in 1..cursor
    BY <1>0, <1>2
  <2>2. PICK d \in DOMAIN extractors : \E i \in DOMAIN extractors[d].candidates :
           extractors[d].candidates[i].src = n
    BY <1>2, <2>1 DEF Images
  <2> QED
    BY <2>2
<1> QED
  BY <1>1, <1>2, SameImages DEF Images

LEMMA LinkType ==
    ASSUME Tree, Position, Nesting
    PROVE  Link \in Nat
<1>1. e \in Nat
  BY NestingTypes, PositionTypes
<1> QED
  BY <1>1 DEF Link

\* An image goes to the end of the receiver's candidates: everything there comes
\* before it, and the nearest link around it is the receiver's.
LEMMA ImageCollected ==
    ASSUME Tree, Position, Nesting, Images, doc' = doc,
           NEW n \in DOMAIN doc, NextChild(n), FileImage(n), cursor' = n,
           DOMAIN extractors' = DOMAIN extractors,
           \A d \in DOMAIN extractors \ {e} :
              extractors'[d].candidates = extractors[d].candidates,
           NEW position \in Nat,
           extractors'[e].candidates =
              Append(extractors[e].candidates,
                     [position |-> position, src |-> n, link |-> Link])
    PROVE  Images'
<1> DEFINE image == [position |-> position, src |-> n, link |-> Link]
           cs == extractors[e].candidates
<1>0. /\ cursor \in Nat /\ n \in 1..Len(doc) /\ n > cursor /\ e \in 0..at /\ at \in 0..cursor
      /\ DOMAIN extractors \subseteq 0..at /\ e \in DOMAIN extractors
      /\ \A d \in DOMAIN extractors : d <= e
  BY NestingTypes, PositionTypes, NextIsInOpen
<1>1. /\ cs \in Seq(CandidateType) /\ Len(cs) \in Nat /\ DOMAIN cs = 1..Len(cs)
      /\ DOMAIN extractors'[e].candidates = 1..Len(cs)+1
      /\ \A i \in 1..Len(cs) : extractors'[e].candidates[i] = cs[i]
      /\ extractors'[e].candidates[Len(cs)+1] = image
  <2>1. cs \in Seq(CandidateType)
    BY <1>0, NestingTypes
  <2>2. extractors'[e].candidates = Append(cs, image)
    OBVIOUS
  <2>3. n \in Nat /\ Link \in Nat
    BY <1>0, PositionTypes, LinkType
  <2>4. image \in CandidateType
    BY <2>3 DEF CandidateType
  <2> HIDE DEF cs, image
  <2>5. /\ Len(cs) \in Nat /\ DOMAIN cs = 1..Len(cs)
        /\ DOMAIN Append(cs, image) = 1..Len(cs)+1
        /\ \A i \in 1..Len(cs) : Append(cs, image)[i] = cs[i]
        /\ Append(cs, image)[Len(cs)+1] = image
    BY <2>1, <2>4, AppendPlaces
  <2> QED
    BY <2>1, <2>2, <2>5
<1>2. ASSUME NEW d \in DOMAIN extractors, NEW m \in Nat, Inside(d, m, DOMAIN extractors, cursor)
      PROVE  Inside(d, m, DOMAIN extractors', cursor')
  BY <1>0, <1>2 DEF Inside
<1>3. ASSUME NEW d \in DOMAIN extractors, d # e
      PROVE  Collected(d)'
  <2>1. Collected(d) /\ extractors'[d].candidates = extractors[d].candidates
    BY <1>3 DEF Images
  <2>2. \A i \in DOMAIN extractors[d].candidates :
           Inside(d, extractors[d].candidates[i].src, DOMAIN extractors', cursor')
    BY <1>2, <2>1, PositionTypes DEF Collected
  <2> QED
    BY <2>1, <2>2, SameImages DEF Collected
<1>4. ASSUME NEW d, d = e
      PROVE  Collected(d)'
  <2>1. Collected(e)
    BY <1>0 DEF Images
  <2>2. ASSUME NEW i \in 1..Len(cs)
        PROVE  /\ cs[i].src \in DOMAIN doc /\ FileImage(cs[i].src)
               /\ Inside(d, cs[i].src, DOMAIN extractors', cursor') /\ cs[i].src < n
               /\ cs[i].link = HrefAround(cs[i].src)
    <3>1. /\ cs[i].src \in DOMAIN doc /\ FileImage(cs[i].src) /\ Inside(d, cs[i].src, DOMAIN extractors, cursor)
          /\ cs[i].link = HrefAround(cs[i].src)
      BY <1>1, <1>4, <2>1 DEF Collected
    <3>2. cs[i].src \in Nat /\ cs[i].src < n
      BY <1>0, <3>1, PositionTypes DEF Inside
    <3>3. Inside(d, cs[i].src, DOMAIN extractors', cursor')
      BY <1>0, <1>2, <1>4, <3>1, <3>2
    <3> QED
      BY <3>1, <3>2, <3>3
  <2>3. image.src = n /\ image.link = HrefAround(n)
    BY <1>0, LinksOfNext DEF HrefAround, Link
  <2>4. Inside(d, n, DOMAIN extractors', cursor')
    BY <1>0, <1>4 DEF Inside
  <2>5. \A i, j \in 1..Len(cs) : i < j => cs[i].src < cs[j].src
    BY <1>1, <2>1 DEF Collected
  <2> DEFINE new == extractors'[e].candidates
  <2>6. ASSUME NEW i \in DOMAIN new
        PROVE  /\ new[i].src \in DOMAIN doc /\ FileImage(new[i].src)
               /\ Inside(d, new[i].src, DOMAIN extractors', cursor') /\ new[i].link = HrefAround(new[i].src)
    <3>1. CASE i \in 1..Len(cs)
      BY <1>1, <2>2, <3>1
    <3>2. CASE i = Len(cs) + 1
      BY <1>1, <2>3, <2>4, <3>2
    <3> QED
      BY <1>1, <3>1, <3>2
  <2>7. ASSUME NEW i \in DOMAIN new, NEW j \in DOMAIN new, i < j
        PROVE  new[i].src < new[j].src
    <3>1. i \in 1..Len(cs) /\ new[i] = cs[i]
      BY <1>1, <2>7
    <3>2. CASE j \in 1..Len(cs)
      BY <1>1, <2>5, <2>7, <3>1, <3>2
    <3>3. CASE j = Len(cs) + 1
      BY <1>1, <2>2, <2>3, <3>1, <3>3
    <3> QED
      BY <1>1, <3>2, <3>3
  <2> HIDE DEF cs, image
  <2> QED
    BY <1>4, <2>6, <2>7, SameImages DEF Collected
<1>5. ASSUME NEW m \in 1..n, FileImage(m)
      PROVE  \E d \in DOMAIN extractors : \E i \in DOMAIN extractors'[d].candidates :
                extractors'[d].candidates[i].src = m
  <2>1. CASE m = n
    BY <1>0, <1>1, <2>1
  <2>2. CASE m < n
    <3>1. m \in 1..cursor
      BY <1>0, <1>5, <2>2, NothingBetween DEF FileImage
    <3>2a. PICK d \in DOMAIN extractors : \E i \in DOMAIN extractors[d].candidates :
              extractors[d].candidates[i].src = m
      BY <1>5, <3>1 DEF Images
    <3>2. PICK i \in DOMAIN extractors[d].candidates : extractors[d].candidates[i].src = m
      BY <3>2a
    <3>3. CASE d = e
      <4>1. i \in 1..Len(cs) /\ extractors'[d].candidates[i].src = m
        BY <1>1, <3>2, <3>3
      <4> QED
        BY <1>1, <3>3, <4>1
    <3>4. CASE d # e
      BY <3>2, <3>4
    <3> QED
      BY <3>3, <3>4
  <2> QED
    BY <1>0, <2>1, <2>2
<1> QED
  BY <1>3, <1>4, <1>5, SameImages DEF Images

\* The end of a link: its extractor's nodes lie between those the extractor
\* outside had before and those it will get.
LEMMA InnermostLink ==
    ASSUME Tree, Position, Nesting, at # 0, doc[at].kind = "anchor"
    PROVE  /\ e = at
           /\ extractors[at].outer \in DOMAIN extractors /\ extractors[at].outer < at
           /\ \A c \in DOMAIN extractors : c # at => c <= extractors[at].outer
<1>1. at \in DOMAIN extractors
  BY PositionTypes DEF Nesting
<1>2. e = at
  BY <1>1, NestingTypes, PositionTypes
<1> QED
  BY <1>1, <1>2, NestingTypes, PositionTypes DEF Nesting

LEMMA InsideOuter ==
    ASSUME Tree, Position, Nesting, at # 0, doc[at].kind = "anchor", cursor' = cursor,
           DOMAIN extractors' = DOMAIN extractors \ {at},
           NEW a, a = at, NEW o, o = extractors[at].outer
    PROVE  /\ \A n \in Nat : Inside(a, n, DOMAIN extractors, cursor) => Inside(o, n, DOMAIN extractors', cursor')
           /\ \A d, n \in Nat : Inside(d, n, DOMAIN extractors, cursor) => Inside(d, n, DOMAIN extractors', cursor')
           /\ \A m, n \in Nat : Inside(o, m, DOMAIN extractors, cursor) /\ Inside(a, n, DOMAIN extractors, cursor) => m < n
<1>0. /\ o \in DOMAIN extractors /\ o < a /\ o \in Nat /\ a \in Nat /\ a \in DOMAIN extractors
      /\ \A c \in DOMAIN extractors : c # a => c <= o
      /\ DOMAIN extractors \subseteq Nat /\ cursor \in Nat
  BY InnermostLink, NestingTypes, PositionTypes
<1> QED
  BY <1>0 DEF Inside

\* The candidates of a link follow those outside it.
LEMMA ImagesJoined ==
    ASSUME Tree, Position, Nesting, Images, doc' = doc, at # 0, doc[at].kind = "anchor",
           cursor' = cursor, DOMAIN extractors' = DOMAIN extractors \ {at},
           NEW o, o = extractors[at].outer,
           extractors'[o].candidates = extractors[o].candidates \o extractors[at].candidates,
           \A d \in DOMAIN extractors \ {at, o} :
              extractors'[d].candidates = extractors[d].candidates
    PROVE  Images'
<1> DEFINE cs == extractors[o].candidates
           inner == extractors[at].candidates
           new == extractors'[o].candidates
<1>0. /\ o \in DOMAIN extractors /\ o # at /\ o \in Nat
      /\ at \in DOMAIN extractors /\ at \in Nat /\ DOMAIN extractors \subseteq Nat
  BY InnermostLink, NestingTypes, PositionTypes
<1>1. /\ cs \in Seq(CandidateType) /\ Len(cs) \in Nat /\ DOMAIN cs = 1..Len(cs)
      /\ inner \in Seq(CandidateType) /\ Len(inner) \in Nat /\ DOMAIN inner = 1..Len(inner)
      /\ DOMAIN new = 1..Len(cs)+Len(inner)
      /\ \A i \in 1..Len(cs) : new[i] = cs[i]
      /\ \A i \in Len(cs)+1..Len(cs)+Len(inner) : new[i] = inner[i - Len(cs)]
  <2>1. cs \in Seq(CandidateType) /\ inner \in Seq(CandidateType)
    BY <1>0, NestingTypes
  <2>2. new = cs \o inner
    OBVIOUS
  <2> HIDE DEF cs, inner, new
  <2> QED
    BY <2>1, <2>2
<1>2. /\ \A n \in Nat : Inside(at, n, DOMAIN extractors, cursor) =>
                           Inside(o, n, DOMAIN extractors', cursor')
      /\ \A d, n \in Nat : Inside(d, n, DOMAIN extractors, cursor) =>
                              Inside(d, n, DOMAIN extractors', cursor')
      /\ \A m, n \in Nat : Inside(o, m, DOMAIN extractors, cursor)
                           /\ Inside(at, n, DOMAIN extractors, cursor) => m < n
  BY InsideOuter
<1>3. ASSUME NEW d \in DOMAIN extractors', d # o
      PROVE  Collected(d)'
  <2>1. Collected(d) /\ extractors'[d].candidates = extractors[d].candidates /\ d \in Nat
    BY <1>0, <1>3 DEF Images
  <2>2. \A i \in DOMAIN extractors[d].candidates :
           /\ Inside(d, extractors[d].candidates[i].src, DOMAIN extractors, cursor)
           /\ extractors[d].candidates[i].src \in Nat
    BY <2>1, PositionTypes DEF Collected
  <2>3. \A i \in DOMAIN extractors[d].candidates :
           Inside(d, extractors[d].candidates[i].src, DOMAIN extractors', cursor')
    BY <1>2, <2>1, <2>2
  <2> QED
    BY <2>1, <2>3, SameImages DEF Collected
<1>4. Collected(o)'
  <2>1. Collected(o) /\ Collected(at)
    BY <1>0 DEF Images
  <2>2. \A i \in 1..Len(cs) :
           /\ cs[i].src \in DOMAIN doc /\ FileImage(cs[i].src)
           /\ Inside(o, cs[i].src, DOMAIN extractors, cursor)
           /\ cs[i].link = HrefAround(cs[i].src)
    BY <1>1, <2>1 DEF Collected
  <2>3. \A i \in 1..Len(inner) :
           /\ inner[i].src \in DOMAIN doc /\ FileImage(inner[i].src)
           /\ Inside(at, inner[i].src, DOMAIN extractors, cursor)
           /\ inner[i].link = HrefAround(inner[i].src)
    BY <1>1, <2>1 DEF Collected
  <2>4. /\ \A i, j \in 1..Len(cs) : i < j => cs[i].src < cs[j].src
        /\ \A i, j \in 1..Len(inner) : i < j => inner[i].src < inner[j].src
    BY <1>1, <2>1 DEF Collected
  <2>5. DOMAIN doc \subseteq Nat
    BY PositionTypes
  <2> HIDE DEF cs, inner, new
  <2>6. ASSUME NEW i \in DOMAIN new
        PROVE  /\ new[i].src \in DOMAIN doc /\ FileImage(new[i].src)
               /\ Inside(o, new[i].src, DOMAIN extractors', cursor')
               /\ new[i].link = HrefAround(new[i].src)
    <3>1. CASE i \in 1..Len(cs)
      BY <1>0, <1>1, <1>2, <2>2, <2>5, <3>1
    <3>2. CASE i \in Len(cs)+1..Len(cs)+Len(inner)
      <4>1. i - Len(cs) \in 1..Len(inner) /\ new[i] = inner[i - Len(cs)]
        BY <1>1, <3>2
      <4> QED
        BY <1>2, <2>3, <2>5, <4>1
    <3> QED
      BY <1>1, <3>1, <3>2
  <2>7. ASSUME NEW i \in DOMAIN new, NEW j \in DOMAIN new, i < j
        PROVE  new[i].src < new[j].src
    <3>1. CASE j \in 1..Len(cs)
      <4>1. i \in 1..Len(cs)
        BY <1>1, <2>7, <3>1
      <4> QED
        BY <1>1, <2>4, <2>7, <3>1, <4>1
    <3>2. CASE i \in 1..Len(cs) /\ j \notin 1..Len(cs)
      <4>1. j - Len(cs) \in 1..Len(inner) /\ new[j] = inner[j - Len(cs)]
        BY <1>1, <3>2
      <4> QED
        BY <1>1, <1>2, <2>2, <2>3, <2>5, <3>2, <4>1
    <3>3. CASE i \notin 1..Len(cs)
      <4>1. /\ i - Len(cs) \in 1..Len(inner) /\ new[i] = inner[i - Len(cs)]
            /\ j - Len(cs) \in 1..Len(inner) /\ new[j] = inner[j - Len(cs)]
            /\ i - Len(cs) < j - Len(cs)
        BY <1>1, <2>7, <3>3
      <4> QED
        BY <2>4, <4>1
    <3> QED
      BY <3>1, <3>2, <3>3
  <2> QED
    BY <2>6, <2>7, SameImages DEF Collected, new
<1>5. ASSUME NEW n \in 1..cursor, FileImage(n)
      PROVE  \E d \in DOMAIN extractors' : \E i \in DOMAIN extractors'[d].candidates :
                extractors'[d].candidates[i].src = n
  <2>1. PICK d \in DOMAIN extractors : \E i \in DOMAIN extractors[d].candidates :
           extractors[d].candidates[i].src = n
    BY <1>5 DEF Images
  <2>2. PICK i \in DOMAIN extractors[d].candidates : extractors[d].candidates[i].src = n
    BY <2>1
  <2>3. CASE d = at
    <3>1. i \in 1..Len(inner) /\ inner[i].src = n
      BY <1>1, <2>2, <2>3
    <3> HIDE DEF cs, inner, new
    <3>2. i + Len(cs) \in DOMAIN new /\ new[i + Len(cs)] = inner[i]
      BY <1>1, <3>1
    <3>3. new[i + Len(cs)].src = n
      BY <3>1, <3>2
    <3> QED
      BY <1>0, <3>2, <3>3 DEF new
  <2>4. CASE d = o
    <3>1. i \in 1..Len(cs) /\ cs[i].src = n
      BY <1>1, <2>2, <2>4
    <3> HIDE DEF cs, inner, new
    <3>2. i \in DOMAIN new /\ new[i].src = n
      BY <1>1, <3>1
    <3> QED
      BY <1>0, <3>2 DEF new
  <2>5. CASE d \notin {at, o}
    BY <2>2, <2>5
  <2> QED
    BY <2>3, <2>4, <2>5
<1> QED
  BY <1>3, <1>4, <1>5, SameImages DEF Images

-----------------------------------------------------------------------------
(* Sequences of tokens.                                                    *)

LEMMA TokenTypes ==
    /\ Newline \in TokenType /\ ~IsWord(Newline) /\ ~IsMark(Newline)
    /\ Space \in TokenType /\ ~IsWord(Space) /\ ~IsMark(Space) /\ Space # Newline
    /\ \A n : Token("word", n).of = n /\ Token("rest", n).of = n
    /\ \A n \in Nat : /\ Token("word", n) \in TokenType /\ IsWord(Token("word", n))
                      /\ Token("rest", n) \in TokenType /\ IsWord(Token("rest", n))
    /\ \A a : /\ Token("open", a).tok = "open" /\ Token("open", a).of = a
              /\ Token("close", a).tok = "close" /\ Token("close", a).of = a
              /\ IsMark(Token("open", a)) /\ IsMark(Token("close", a))
              /\ Token("open", a) # Newline /\ Token("close", a) # Newline
              /\ Token("open", a) # Token("close", a)
    /\ \A a \in Nat : Token("open", a) \in TokenType /\ Token("close", a) \in TokenType
    /\ \A t : ~(IsWord(t) /\ IsMark(t))
BY DEF Token, Newline, Space, TokenType, IsWord, IsMark

LEMMA ConcatPlaces ==
    ASSUME NEW s \in Seq(TokenType), NEW t \in Seq(TokenType)
    PROVE  /\ s \o t \in Seq(TokenType)
           /\ Len(s) \in Nat /\ DOMAIN s = 1..Len(s)
           /\ Len(t) \in Nat /\ DOMAIN t = 1..Len(t)
           /\ Len(s \o t) = Len(s) + Len(t) /\ DOMAIN (s \o t) = 1..Len(s) + Len(t)
           /\ \A i \in DOMAIN s : (s \o t)[i] = s[i]
           /\ \A i \in DOMAIN t : (s \o t)[Len(s) + i] = t[i]
           /\ \A i \in DOMAIN (s \o t) :
                 \/ i \in DOMAIN s
                 \/ i > Len(s) /\ i - Len(s) \in DOMAIN t /\ (s \o t)[i] = t[i - Len(s)]
OBVIOUS

\* The words of s come before those of t.
LEMMA OrderedConcat ==
    ASSUME NEW s \in Seq(TokenType), NEW t \in Seq(TokenType), Ordered(s), Ordered(t),
           \A i \in DOMAIN s, j \in DOMAIN t :
              IsWord(s[i]) /\ IsWord(t[j]) => Before(s[i], t[j])
    PROVE  Ordered(s \o t)
<1> DEFINE u == s \o t
<1> SUFFICES ASSUME NEW i \in DOMAIN u, NEW j \in DOMAIN u, i < j, IsWord(u[i]), IsWord(u[j])
             PROVE  Before(u[i], u[j])
  BY DEF Ordered
<1>0. Len(s) \in Nat /\ DOMAIN s = 1..Len(s) /\ DOMAIN u = 1..Len(s)+Len(t) /\ Len(t) \in Nat
  BY ConcatPlaces
<1>1. CASE j \in DOMAIN s
  <2>1. i \in DOMAIN s /\ u[i] = s[i] /\ u[j] = s[j]
    BY <1>0, <1>1, ConcatPlaces
  <2> QED
    BY <1>1, <2>1 DEF Ordered
<1>2. CASE i \in DOMAIN s /\ j \notin DOMAIN s
  <2>1. u[i] = s[i] /\ j - Len(s) \in DOMAIN t /\ u[j] = t[j - Len(s)]
    BY <1>2, ConcatPlaces
  <2> QED
    BY <1>2, <2>1
<1>3. CASE i \notin DOMAIN s
  <2>1. /\ i - Len(s) \in DOMAIN t /\ u[i] = t[i - Len(s)]
        /\ j - Len(s) \in DOMAIN t /\ u[j] = t[j - Len(s)]
        /\ i - Len(s) < j - Len(s)
    <3>1. j \notin DOMAIN s
      BY <1>0, <1>3
    <3> QED
      BY <1>0, <1>3, <3>1, ConcatPlaces
  <2> QED
    BY <2>1 DEF Ordered
<1> QED
  BY <1>1, <1>2, <1>3

\* No link begins in s and ends in t.
Apart(s, t) ==
    \A i \in DOMAIN s, j \in DOMAIN t :
       s[i].tok = "open" => t[j] # Token("close", s[i].of)

LEMMA WholeConcat ==
    ASSUME NEW s \in Seq(TokenType), NEW t \in Seq(TokenType), Whole(s), Whole(t), Apart(s, t)
    PROVE  Whole(s \o t)
<1> DEFINE u == s \o t
<1> SUFFICES ASSUME NEW j \in DOMAIN u, NEW k \in DOMAIN u, u[j].tok = "open",
                    u[k] = Token("close", u[j].of), NEW m \in j..k
             PROVE  u[m] # Newline
  BY DEF Whole
<1>0. Len(s) \in Nat /\ DOMAIN s = 1..Len(s) /\ DOMAIN u = 1..Len(s)+Len(t) /\ Len(t) \in Nat
  BY ConcatPlaces
<1>1. CASE k \in DOMAIN s
  <2>1. j \in DOMAIN s /\ m \in DOMAIN s
    BY <1>0, <1>1
  <2>2. u[j] = s[j] /\ u[k] = s[k] /\ u[m] = s[m]
    BY <1>1, <2>1, ConcatPlaces
  <2> QED
    BY <1>1, <2>1, <2>2 DEF Whole
<1>2. CASE j \in DOMAIN s /\ k \notin DOMAIN s
  <2>1. u[j] = s[j] /\ k - Len(s) \in DOMAIN t /\ u[k] = t[k - Len(s)]
    BY <1>2, ConcatPlaces
  <2> QED
    BY <1>2, <2>1 DEF Apart
<1>3. CASE j \notin DOMAIN s /\ k \notin DOMAIN s
  <2>1. m \in DOMAIN u /\ m \notin DOMAIN s
    BY <1>0, <1>3
  <2>2. /\ j - Len(s) \in DOMAIN t /\ u[j] = t[j - Len(s)]
        /\ k - Len(s) \in DOMAIN t /\ u[k] = t[k - Len(s)]
        /\ m - Len(s) \in (j - Len(s))..(k - Len(s)) /\ u[m] = t[m - Len(s)]
    BY <1>0, <1>3, <2>1, ConcatPlaces
  <2> QED
    BY <2>2 DEF Whole
<1> QED
  BY <1>1, <1>2, <1>3

LEMMA AroundConcat ==
    ASSUME NEW s \in Seq(TokenType), NEW t \in Seq(TokenType), Apart(s, t), NEW a
    PROVE  /\ \A i \in DOMAIN s : Around(s \o t, i, a) <=> Around(s, i, a)
           /\ \A i \in DOMAIN t : Around(s \o t, Len(s) + i, a) <=> Around(t, i, a)
<1> DEFINE u == s \o t
<1>0. Len(s) \in Nat /\ DOMAIN s = 1..Len(s) /\ DOMAIN u = 1..Len(s)+Len(t)
      /\ Len(t) \in Nat /\ DOMAIN t = 1..Len(t)
  BY ConcatPlaces
<1>1. ASSUME NEW j \in DOMAIN s, NEW k \in DOMAIN u \ DOMAIN s,
             u[j] = Token("open", a), u[k] = Token("close", a)
      PROVE  FALSE
  <2>1. u[j] = s[j] /\ k - Len(s) \in DOMAIN t /\ u[k] = t[k - Len(s)]
    BY <1>1, ConcatPlaces
  <2> QED
    BY <1>1, <2>1, TokenTypes DEF Apart
<1>2. ASSUME NEW i \in DOMAIN s, Around(u, i, a)
      PROVE  Around(s, i, a)
  <2>1. PICK j \in DOMAIN u, k \in DOMAIN u :
           j <= i /\ i <= k /\ u[j] = Token("open", a) /\ u[k] = Token("close", a)
    BY <1>2 DEF Around
  <2>2. j \in DOMAIN s
    BY <1>0, <2>1
  <2>3. k \in DOMAIN s
    BY <1>1, <2>1, <2>2
  <2> QED
    BY <2>1, <2>2, <2>3, ConcatPlaces DEF Around
<1>3. ASSUME NEW i \in DOMAIN s, Around(s, i, a)
      PROVE  Around(u, i, a)
  BY <1>0, <1>3, ConcatPlaces DEF Around
<1>4. ASSUME NEW i \in DOMAIN t, Around(u, Len(s) + i, a)
      PROVE  Around(t, i, a)
  <2>1. PICK j \in DOMAIN u, k \in DOMAIN u :
           /\ j <= Len(s) + i /\ Len(s) + i <= k
           /\ u[j] = Token("open", a) /\ u[k] = Token("close", a)
    BY <1>4 DEF Around
  <2>2. k \notin DOMAIN s
    BY <1>0, <2>1
  <2>3. j \notin DOMAIN s
    BY <1>1, <2>1, <2>2
  <2>4. /\ j - Len(s) \in DOMAIN t /\ t[j - Len(s)] = Token("open", a)
        /\ k - Len(s) \in DOMAIN t /\ t[k - Len(s)] = Token("close", a)
    BY <2>1, <2>2, <2>3, ConcatPlaces
  <2>5. j - Len(s) <= i /\ i <= k - Len(s)
    BY <1>0, <2>1
  <2> QED
    BY <2>4, <2>5 DEF Around
<1>5. ASSUME NEW i \in DOMAIN t, Around(t, i, a)
      PROVE  Around(u, Len(s) + i, a)
  <2>1. PICK j \in DOMAIN t, k \in DOMAIN t :
           j <= i /\ i <= k /\ t[j] = Token("open", a) /\ t[k] = Token("close", a)
    BY <1>5 DEF Around
  <2>2. /\ Len(s) + j \in DOMAIN u /\ u[Len(s) + j] = Token("open", a)
        /\ Len(s) + k \in DOMAIN u /\ u[Len(s) + k] = Token("close", a)
    BY <1>0, <2>1, ConcatPlaces
  <2>3. Len(s) + j <= Len(s) + i /\ Len(s) + i <= Len(s) + k
    BY <1>0, <2>1
  <2> QED
    BY <2>2, <2>3 DEF Around
<1> QED
  BY <1>2, <1>3, <1>4, <1>5

-----------------------------------------------------------------------------
(* The text.                                                               *)

LEMMA SameText ==
    ASSUME doc' = doc
    PROVE  /\ \A n : TextNode(n)' <=> TextNode(n)
           /\ \A n : Words(n)' = Words(n)
           /\ \A a : IsLink(a)' <=> IsLink(a)
           /\ \A n, kind : Within(n, kind)' = Within(n, kind)
<1>1. \A n : TextNode(n)' <=> TextNode(n)
  BY SameTree DEF TextNode
<1>2. \A n : Words(n)' = Words(n)
  BY DEF Words
<1>3. \A a : IsLink(a)' <=> IsLink(a)
  BY DEF IsLink
<1> QED
  BY <1>1, <1>2, <1>3, SameTree

\* An extractor that nothing was written to keeps what it has.
LEMMA TextKept ==
    ASSUME Tree, Position, Nesting, Tokens, Lines, doc' = doc,
           cursor' \in Nat, cursor <= cursor',
           \A c \in DOMAIN extractors' :
              c \in DOMAIN extractors \/ (c \in Nat /\ c > cursor),
           NEW d \in DOMAIN extractors, d \in DOMAIN extractors',
           extractors'[d].b = extractors[d].b
    PROVE  Sourced(d)' /\ Lined(d)'
<1> DEFINE b == extractors[d].b
<1>0. cursor \in Nat /\ DOMAIN doc \subseteq Nat /\ Sourced(d) /\ Lined(d)
  BY PositionTypes DEF Tokens, Lines
<1>1. ASSUME NEW n \in Nat, Inside(d, n, DOMAIN extractors, cursor)
      PROVE  Inside(d, n, DOMAIN extractors', cursor')
  BY <1>0, <1>1 DEF Inside
<1>2. Sourced(d)'
  BY <1>0, <1>1, SameText DEF Sourced
<1>3. Lined(d)'
  BY <1>0, SameText DEF Lined, Linked
<1> QED
  BY <1>2, <1>3

\* A new extractor has no text.
LEMMA TextOfNew ==
    ASSUME NEW d, extractors'[d].b = <<>>
    PROVE  Sourced(d)' /\ Lined(d)'
BY DEF Sourced, Lined, Linked, Ordered, Whole

LEMMA WrittenKept ==
    ASSUME Written, doc' = doc, cursor \in Nat, cursor' \in Nat, cursor <= cursor',
           DOMAIN extractors \subseteq DOMAIN extractors',
           \A d \in DOMAIN extractors : extractors'[d].b = extractors[d].b,
           \A n \in cursor+1..cursor' : ~TextNode(n)
    PROVE  Written'
<1> SUFFICES ASSUME NEW n \in 1..cursor', TextNode(n), NEW w \in Words(n)
             PROVE  \E d \in DOMAIN extractors' : \E i \in DOMAIN extractors'[d].b :
                       extractors'[d].b[i] = w
  BY SameText DEF Written
<1>1. n \in 1..cursor
  OBVIOUS
<1>2. PICK d \in DOMAIN extractors : \E i \in DOMAIN extractors[d].b : extractors[d].b[i] = w
  BY <1>1 DEF Written
<1> QED
  BY <1>2

\* Words and line breaks are written at the end of the receiver's text: all words
\* there come before them, and none of its links is open.
LEMMA TextAppended ==
    ASSUME Tree, Position, Nesting, Tokens, Lines, doc' = doc, e' = e,
           cursor' \in Nat, cursor <= cursor', DOMAIN extractors' = DOMAIN extractors,
           NEW t \in Seq(TokenType), Ordered(t), extractors'[e].b = extractors[e].b \o t,
           NEW n,
           \A i \in DOMAIN t :
              \/ t[i] = Newline
              \/ /\ t[i] \in Words(n)
                 /\ n \in DOMAIN doc /\ TextNode(n) /\ NextChild(n) /\ cursor' = n,
           NEW d, d = e
    PROVE  Sourced(d)' /\ Lined(d)'
<1> DEFINE s == extractors[d].b
           u == extractors'[d].b
<1>0. /\ cursor \in Nat /\ d \in 0..at /\ at \in 0..cursor /\ DOMAIN extractors \subseteq 0..at
      /\ d \in DOMAIN extractors /\ \A c \in DOMAIN extractors : c <= d
      /\ DOMAIN doc \subseteq Nat /\ Sourced(d) /\ Lined(d)
  BY NestingTypes, PositionTypes DEF Tokens, Lines
<1>1. s \in Seq(TokenType) /\ u = s \o t
  BY <1>0, NestingTypes
<1> HIDE DEF s, u
<1>11. /\ Len(s) \in Nat /\ DOMAIN s = 1..Len(s) /\ DOMAIN t \subseteq Nat
      /\ \A i \in DOMAIN s : u[i] = s[i]
  BY <1>1, ConcatPlaces
<1>13. ASSUME NEW i \in DOMAIN u, i \notin DOMAIN s
       PROVE  i \in Nat /\ i - Len(s) \in DOMAIN t /\ u[i] = t[i - Len(s)]
  BY <1>1, <1>13, ConcatPlaces
<1>2. ASSUME NEW i \in DOMAIN t, t[i] # Newline
      PROVE  /\ IsWord(t[i]) /\ t[i].of = n /\ t[i] \in Words(n)
             /\ n \in DOMAIN doc /\ TextNode(n) /\ NextChild(n) /\ cursor' = n /\ n > cursor
             /\ Inside(d, n, DOMAIN extractors', cursor')
  <2>1. /\ t[i] \in Words(n) /\ n \in DOMAIN doc /\ TextNode(n) /\ NextChild(n)
        /\ cursor' = n /\ n > cursor
    BY <1>2, NextIsInOpen
  <2>2. Inside(d, n, DOMAIN extractors', cursor')
    BY <1>0, <2>1 DEF Inside
  <2>3. IsWord(t[i]) /\ t[i].of = n
    BY <1>0, <2>1, TokenTypes DEF Words
  <2> QED
    BY <2>1, <2>2, <2>3
<1>3. \A i \in DOMAIN t : ~IsMark(t[i])
  BY <1>2, TokenTypes
<1>4. ASSUME NEW m \in Nat, Inside(d, m, DOMAIN extractors, cursor)
      PROVE  Inside(d, m, DOMAIN extractors', cursor')
  BY <1>0, <1>4 DEF Inside
<1>5. Sourced(d)'
  <2>1. \A i \in DOMAIN s :
           /\ IsWord(s[i]) => s[i].of \in DOMAIN doc /\ TextNode(s[i].of) /\ s[i] \in Words(s[i].of)
           /\ IsMark(s[i]) => s[i].of \in DOMAIN doc /\ IsLink(s[i].of)
           /\ IsWord(s[i]) \/ IsMark(s[i]) => Inside(d, s[i].of, DOMAIN extractors', cursor')
           /\ ~IsWord(s[i]) /\ ~IsMark(s[i]) => s[i] \in {Newline, Space}
    BY <1>0, <1>4 DEF Sourced, s
  <2>2. \A i \in DOMAIN t :
           /\ IsWord(t[i]) => t[i].of \in DOMAIN doc /\ TextNode(t[i].of) /\ t[i] \in Words(t[i].of)
           /\ IsMark(t[i]) => t[i].of \in DOMAIN doc /\ IsLink(t[i].of)
           /\ IsWord(t[i]) \/ IsMark(t[i]) => Inside(d, t[i].of, DOMAIN extractors', cursor')
           /\ ~IsWord(t[i]) /\ ~IsMark(t[i]) => t[i] \in {Newline, Space}
    BY <1>2, <1>3, TokenTypes
  <2>3. \A i \in DOMAIN u :
           /\ IsWord(u[i]) => u[i].of \in DOMAIN doc /\ TextNode(u[i].of) /\ u[i] \in Words(u[i].of)
           /\ IsMark(u[i]) => u[i].of \in DOMAIN doc /\ IsLink(u[i].of)
           /\ IsWord(u[i]) \/ IsMark(u[i]) => Inside(d, u[i].of, DOMAIN extractors', cursor')
           /\ ~IsWord(u[i]) /\ ~IsMark(u[i]) => u[i] \in {Newline, Space}
    <3> SUFFICES ASSUME NEW i \in DOMAIN u
                 PROVE  \/ \E j \in DOMAIN s : u[i] = s[j]
                        \/ \E j \in DOMAIN t : u[i] = t[j]
      BY <2>1, <2>2
    <3>1. CASE i \in DOMAIN s
      BY <1>11, <3>1
    <3>2. CASE i \notin DOMAIN s
      <4>1. i - Len(s) \in DOMAIN t /\ u[i] = t[i - Len(s)]
        BY <1>13, <3>2
      <4> QED
        BY <4>1
    <3> QED
      BY <3>1, <3>2
  <2> QED
    BY <2>3, SameText DEF Sourced, u
<1>6. Ordered(u)
  <2>1. ASSUME NEW i \in DOMAIN s, NEW j \in DOMAIN t, IsWord(s[i]), IsWord(t[j])
        PROVE  Before(s[i], t[j])
    <3>1. s[i].of \in Nat /\ s[i].of <= cursor
      BY <1>0, <2>1 DEF Sourced, Inside, s
    <3>2. t[j].of = n /\ n \in Nat /\ n > cursor
      BY <1>0, <1>2, <2>1, TokenTypes
    <3> QED
      BY <1>0, <3>1, <3>2 DEF Before
  <2>2. Ordered(s)
    BY <1>0 DEF Lined, s
  <2> QED
    BY <1>1, <2>1, <2>2, OrderedConcat
<1>7. Apart(s, t)
  BY <1>3, TokenTypes DEF Apart
<1>12. ASSUME NEW a
      PROVE  /\ \A i \in DOMAIN s : Around(u, i, a) <=> Around(s, i, a)
             /\ \A i \in DOMAIN t : Around(u, Len(s) + i, a) <=> Around(t, i, a)
  BY <1>1, <1>7, AroundConcat
<1>8. Whole(u)
  <2>1. Whole(t)
    BY <1>3 DEF Whole, IsMark
  <2>2. Whole(s)
    BY <1>0 DEF Lined, s
  <2> QED
    BY <1>1, <1>7, <2>1, <2>2, WholeConcat
<1>9. ASSUME NEW i \in DOMAIN u, IsWord(u[i]), NEW a \in DOMAIN doc
      PROVE  Around(u, i, a) <=> a \in Within(u[i].of, "anchor") /\ IsLink(a) /\ a > d
  <2>1. CASE i \in DOMAIN s
    <3>1. u[i] = s[i] /\ (Around(u, i, a) <=> Around(s, i, a))
      BY <1>11, <1>12, <2>1
    <3> QED
      BY <1>0, <1>9, <2>1, <3>1 DEF Lined, Linked, s
  <2>2. CASE i \notin DOMAIN s
    <3>0. i \in Nat /\ i - Len(s) \in DOMAIN t /\ u[i] = t[i - Len(s)]
      BY <1>13, <1>9, <2>2
    <3>1. PICK j \in DOMAIN t : u[i] = t[j] /\ i = Len(s) + j
      <4>1. i = Len(s) + (i - Len(s))
        BY <1>11, <3>0
      <4> QED
        BY <3>0, <4>1
    <3>2. Around(u, i, a) <=> Around(t, j, a)
      BY <1>12, <3>1
    <3>3. ~Around(t, j, a)
      BY <1>3, TokenTypes DEF Around
    <3>4. a \in Within(u[i].of, "anchor") => a <= d
      BY <1>0, <1>2, <1>9, <3>1, LinksOfNext, TokenTypes
    <3>5. ~(a \in Within(u[i].of, "anchor") /\ a > d)
      BY <1>0, <3>4
    <3> QED
      BY <3>2, <3>3, <3>5
  <2> QED
    BY <2>1, <2>2
<1>10. Lined(d)'
  BY <1>6, <1>8, <1>9, SameText DEF Lined, Linked, u
<1> QED
  BY <1>5, <1>10

\* What a text node writes.
LEMMA DataTokens ==
    ASSUME NEW n \in Nat
    PROVE  /\ Data(n) \in Seq(TokenType) /\ Ordered(Data(n))
           /\ \A i \in DOMAIN Data(n) : Data(n)[i] = Newline \/ Data(n)[i] \in Words(n)
           /\ \A w \in Words(n) : \E i \in DOMAIN Data(n) : Data(n)[i] = w
<1> DEFINE t == Data(n)
<1>1. CASE doc[n].ref = "wrapped"
  <2>1. t = <<Token("word", n), Newline, Token("rest", n)>>
    BY <1>1 DEF Data
  <2>2. Words(n) = {Token("word", n), Token("rest", n)}
    BY <1>1 DEF Words
  <2>3. t \in Seq(TokenType)
    BY <2>1, TokenTypes
  <2>4. /\ DOMAIN t = 1..3 /\ t[1] = Token("word", n) /\ t[2] = Newline
        /\ t[3] = Token("rest", n)
    BY <2>1
  <2>5. Before(Token("word", n), Token("rest", n))
    BY DEF Before, Token
  <2> HIDE DEF t
  <2>6. \A i \in DOMAIN t : i = 1 \/ i = 2 \/ i = 3
    BY <2>4
  <2>7. ASSUME NEW i \in DOMAIN t, NEW j \in DOMAIN t, i < j, IsWord(t[i]), IsWord(t[j])
        PROVE  Before(t[i], t[j])
    <3>1. i # 2 /\ j # 2
      BY <2>4, <2>7, TokenTypes
    <3>2. i = 1 /\ j = 3
      BY <2>6, <2>7, <3>1
    <3> QED
      BY <2>4, <2>5, <3>2
  <2>8. \A i \in DOMAIN t : t[i] = Newline \/ t[i] \in Words(n)
    BY <2>2, <2>4, <2>6
  <2>9. \A w \in Words(n) : \E i \in DOMAIN t : t[i] = w
    BY <2>2, <2>4
  <2> QED
    BY <2>3, <2>7, <2>8, <2>9 DEF Ordered, t
<1>2. CASE doc[n].ref # "wrapped"
  <2>1. t = <<Token("word", n)>> /\ Words(n) = {Token("word", n)}
    BY <1>2 DEF Data, Words
  <2>2. t \in Seq(TokenType) /\ DOMAIN t = {1} /\ t[1] = Token("word", n)
    BY <2>1, TokenTypes
  <2> HIDE DEF t
  <2>3. Ordered(t)
    BY <2>2 DEF Ordered
  <2> QED
    BY <2>1, <2>2, <2>3 DEF t
<1> QED
  BY <1>1, <1>2

LEMMA NewlineTokens ==
    /\ <<Newline>> \in Seq(TokenType) /\ Ordered(<<Newline>>)
    /\ DOMAIN <<Newline>> = {1} /\ <<Newline>>[1] = Newline
BY TokenTypes DEF Ordered

\* Words of the node that is walked next, and line breaks, are written.
LEMMA TextWritten ==
    ASSUME Tree, Position, Nesting, Tokens, Lines, doc' = doc, e' = e,
           cursor' \in Nat, cursor <= cursor',
           NEW t \in Seq(TokenType), Ordered(t), Write(t), NEW n,
           \A i \in DOMAIN t :
              \/ t[i] = Newline
              \/ /\ t[i] \in Words(n)
                 /\ n \in DOMAIN doc /\ TextNode(n) /\ NextChild(n) /\ cursor' = n
    PROVE  Tokens' /\ Lines'
<1>1. /\ DOMAIN extractors' = DOMAIN extractors
      /\ extractors'[e].b = extractors[e].b \o t
      /\ \A d \in DOMAIN extractors : d # e => extractors'[d].b = extractors[d].b
  BY WriteToReceiver
<1>2. ASSUME NEW d, d = e
      PROVE  Sourced(d)' /\ Lined(d)'
  BY <1>1, <1>2, TextAppended
<1>3. ASSUME NEW d \in DOMAIN extractors, d # e
      PROVE  Sourced(d)' /\ Lined(d)'
  BY <1>1, <1>3, TextKept
<1> QED
  BY <1>1, <1>2, <1>3 DEF Tokens, Lines

LEMMA WordsWritten ==
    ASSUME Tree, Position, Nesting, Written, doc' = doc,
           cursor' \in Nat, cursor <= cursor',
           NEW t \in Seq(TokenType), Write(t),
           \A n \in cursor+1..cursor' : TextNode(n) =>
              \A w \in Words(n) : \E i \in DOMAIN t : t[i] = w
    PROVE  Written'
<1> SUFFICES ASSUME NEW n \in 1..cursor', TextNode(n), NEW w \in Words(n)
             PROVE  \E d \in DOMAIN extractors' : \E i \in DOMAIN extractors'[d].b :
                       extractors'[d].b[i] = w
  BY SameText DEF Written
<1>1. /\ DOMAIN extractors' = DOMAIN extractors /\ e \in DOMAIN extractors
      /\ extractors'[e].b = extractors[e].b \o t
      /\ \A d \in DOMAIN extractors : d # e => extractors'[d].b = extractors[d].b
      /\ extractors[e].b \in Seq(TokenType) /\ cursor \in Nat
  BY WriteToReceiver, NestingTypes, PositionTypes
<1> DEFINE s == extractors[e].b
           u == extractors'[e].b
<1>2. s \in Seq(TokenType) /\ u = s \o t
  BY <1>1
<1> HIDE DEF s, u
<1>3. /\ \A i \in DOMAIN s : i \in DOMAIN u /\ u[i] = s[i]
      /\ \A i \in DOMAIN t : Len(s) + i \in DOMAIN u /\ u[Len(s) + i] = t[i]
  BY <1>2, ConcatPlaces
<1>4. CASE n \in 1..cursor
  <2>1. PICK d \in DOMAIN extractors : \E i \in DOMAIN extractors[d].b : extractors[d].b[i] = w
    BY <1>4 DEF Written
  <2>2. CASE d = e
    <3>1. \E i \in DOMAIN s : s[i] = w
      BY <2>1, <2>2 DEF s
    <3>2. \E i \in DOMAIN u : u[i] = w
      BY <1>3, <3>1
    <3> QED
      BY <1>1, <3>2 DEF u
  <2>3. CASE d # e
    BY <1>1, <2>1, <2>3
  <2> QED
    BY <2>2, <2>3
<1>5. CASE n \in cursor+1..cursor'
  <2>1. \E i \in DOMAIN t : t[i] = w
    BY <1>5
  <2>2. \E i \in DOMAIN u : u[i] = w
    BY <1>3, <2>1
  <2> QED
    BY <1>1, <2>2 DEF u
<1> QED
  BY <1>1, <1>4, <1>5

-----------------------------------------------------------------------------
(* The line breaks of the document.                                        *)

LEMMA SameBlocks ==
    ASSUME doc' = doc
    PROVE  /\ \A c : Separating(c)' <=> Separating(c)
           /\ \A m, n : BlockBetween(m, n)' <=> BlockBetween(m, n)
<1>1. \A c : Separating(c)' <=> Separating(c)
  BY SameTree DEF Separating
<1> QED
  BY <1>1, SameTree DEF BlockBetween

\* A block between the text s and what is added to it, t, has begun or ended by now.
Announced(s, t) ==
    \A i \in DOMAIN s, j \in DOMAIN t :
       IsWord(s[i]) /\ IsWord(t[j]) /\ BlockBetween(s[i].of, t[j].of) =>
          \E c \in 1..cursor :
             Separating(c) /\ (s[i].of < c \/ c \in Ancestors(s[i].of) \ Open)

OneSection(t) ==
    \A i, j \in DOMAIN t :
       IsWord(t[i]) /\ IsWord(t[j]) => ~BlockBetween(t[i].of, t[j].of)

\* No block has begun or ended after the words of t.
NothingSince(t, last, open) ==
    \A j \in DOMAIN t : IsWord(t[j]) => \A c \in 1..last :
       Separating(c) => ~(t[j].of < c) /\ c \notin Ancestors(t[j].of) \ open

\* The document's text grows by t.  Where t has words, the breaks before them are
\* there already; where a block begins or ends, t has the break.
LEMMA BreaksAppended ==
    ASSUME Tree, Position, Nesting, Breaks, doc' = doc,
           cursor' \in Nat, cursor <= cursor',
           NEW t \in Seq(TokenType), extractors'[0].b = extractors[0].b \o t,
           Announced(extractors[0].b, t), OneSection(t), NothingSince(t, cursor', Open'),
           \A c \in 1..cursor' : Separating(c) =>
              \/ c <= cursor /\ (c \in Open => c \in Open')
              \/ \E k \in DOMAIN t : t[k] = Newline
    PROVE  Breaks'
<1> DEFINE s == extractors[0].b
           u == extractors'[0].b
           End(w, i) == Broken(w, i, Len(w) + 1)
<1>1. s \in Seq(TokenType) /\ u = s \o t /\ cursor \in Nat
  BY NestingTypes, PositionTypes
<1>2. /\ \A i \in DOMAIN s : IsWord(s[i]) =>
            /\ \A j \in DOMAIN s : i < j /\ IsWord(s[j]) =>
                  (BlockBetween(s[i].of, s[j].of) => Broken(s, i, j))
            /\ \A c \in 1..cursor :
                  Separating(c) /\ (s[i].of < c \/ c \in Ancestors(s[i].of) \ Open) =>
                     End(s, i)
      /\ \A i \in DOMAIN s, j \in DOMAIN t :
            IsWord(s[i]) /\ IsWord(t[j]) /\ BlockBetween(s[i].of, t[j].of) =>
            \E c \in 1..cursor :
               Separating(c) /\ (s[i].of < c \/ c \in Ancestors(s[i].of) \ Open)
  BY DEF Breaks, Announced
<1> HIDE DEF s, u
<1>3. /\ Len(s) \in Nat /\ DOMAIN s = 1..Len(s) /\ Len(t) \in Nat /\ DOMAIN t = 1..Len(t)
      /\ Len(u) = Len(s) + Len(t) /\ DOMAIN u = 1..Len(u)
      /\ \A i \in DOMAIN s : i \in DOMAIN u /\ u[i] = s[i]
      /\ \A i \in DOMAIN t : Len(s) + i \in DOMAIN u /\ u[Len(s) + i] = t[i]
  BY <1>1, ConcatPlaces
<1>4. ASSUME NEW i \in DOMAIN u, i \notin DOMAIN s
      PROVE  i > Len(s) /\ i - Len(s) \in DOMAIN t /\ u[i] = t[i - Len(s)]
  BY <1>1, <1>4, ConcatPlaces
<1>5. ASSUME NEW i \in DOMAIN s, End(s, i), NEW j \in Nat, j > Len(s)
      PROVE  Broken(u, i, j)
  <2>1. PICK k \in i+1..Len(s) : s[k] = Newline
    BY <1>3, <1>5 DEF Broken
  <2>2. k \in i+1..j-1 /\ u[k] = Newline
    BY <1>3, <1>5, <2>1
  <2> QED
    BY <2>2 DEF Broken
<1>6. ASSUME NEW i \in DOMAIN u, NEW j \in DOMAIN u, i < j, IsWord(u[i]), IsWord(u[j]),
             BlockBetween(u[i].of, u[j].of)
      PROVE  Broken(u, i, j)
  <2>1. CASE j \in DOMAIN s
    <3>1. i \in DOMAIN s /\ u[i] = s[i] /\ u[j] = s[j]
      BY <1>3, <1>6, <2>1
    <3>2. Broken(s, i, j)
      BY <1>2, <1>6, <2>1, <3>1
    <3>3. PICK k \in i+1..j-1 : s[k] = Newline
      BY <3>2 DEF Broken
    <3>4. k \in DOMAIN s
      BY <1>3, <2>1, <3>1, <3>3
    <3> QED
      BY <1>3, <3>3, <3>4 DEF Broken
  <2>2. CASE i \in DOMAIN s /\ j \notin DOMAIN s
    <3>1. u[i] = s[i] /\ j > Len(s) /\ j - Len(s) \in DOMAIN t /\ u[j] = t[j - Len(s)]
      BY <1>3, <1>4, <2>2
    <3>2. End(s, i)
      BY <1>2, <1>6, <2>2, <3>1
    <3> QED
      BY <1>3, <1>5, <2>2, <3>1, <3>2
  <2>3. CASE i \notin DOMAIN s
    <3>1. j \notin DOMAIN s
      BY <1>3, <1>6, <2>3
    <3>2. /\ i - Len(s) \in DOMAIN t /\ u[i] = t[i - Len(s)]
          /\ j - Len(s) \in DOMAIN t /\ u[j] = t[j - Len(s)]
      BY <1>4, <2>3, <3>1
    <3> QED
      BY <1>6, <3>2 DEF OneSection
  <2> QED
    BY <2>1, <2>2, <2>3
<1>7. ASSUME NEW i \in DOMAIN u, IsWord(u[i]), NEW c \in 1..cursor', Separating(c),
             u[i].of < c \/ c \in Ancestors(u[i].of) \ Open'
      PROVE  End(u, i)
  <2>1. CASE i \notin DOMAIN s
    <3>1. i - Len(s) \in DOMAIN t /\ u[i] = t[i - Len(s)]
      BY <1>4, <2>1
    <3> QED
      BY <1>7, <3>1 DEF NothingSince
  <2>2. CASE i \in DOMAIN s /\ \E k \in DOMAIN t : t[k] = Newline
    <3>1. PICK k \in DOMAIN t : t[k] = Newline
      BY <2>2
    <3>2. Len(s) + k \in i+1..Len(u) /\ u[Len(s) + k] = Newline
      BY <1>3, <2>2, <3>1
    <3> QED
      BY <1>3, <3>2 DEF Broken
  <2>3. CASE i \in DOMAIN s /\ c <= cursor /\ (c \in Open => c \in Open')
    <3>1. u[i] = s[i] /\ c \in 1..cursor
      BY <1>1, <1>3, <2>3
    <3>2. End(s, i)
      BY <1>2, <1>7, <2>3, <3>1
    <3> QED
      BY <1>3, <1>5, <2>3, <3>2
  <2> QED
    BY <1>7, <2>1, <2>2, <2>3
<1> QED
  BY <1>6, <1>7, SameBlocks, SameTree DEF Breaks, u

\* A step that leaves the document's text, and passes no block that sets
\* paragraphs apart.
LEMMA BreaksKept ==
    ASSUME Tree, Position, Nesting, Breaks, doc' = doc,
           cursor' \in Nat, cursor <= cursor', extractors'[0].b = extractors[0].b,
           \A c \in cursor+1..cursor' : ~Separating(c),
           \A c \in Open : c \in Open' \/ ~Separating(c)
    PROVE  Breaks'
<1>1. extractors[0].b \in Seq(TokenType) /\ cursor \in Nat
  BY NestingTypes, PositionTypes
<1>2. extractors'[0].b = extractors[0].b \o <<>>
  BY <1>1
<1>3. \A c \in 1..cursor' : Separating(c) => c <= cursor /\ (c \in Open => c \in Open')
  BY <1>1
<1> DEFINE t == <<>>
<1>4. t \in Seq(TokenType) /\ DOMAIN t = {} /\ extractors'[0].b = extractors[0].b \o t
  BY <1>2
<1>5. Announced(extractors[0].b, t) /\ OneSection(t) /\ NothingSince(t, cursor', Open')
  BY <1>4 DEF Announced, OneSection, NothingSince
<1> HIDE DEF t
<1> QED
  BY <1>3, <1>4, <1>5, BreaksAppended

\* A line break in the document's text.
LEMMA BreakWritten ==
    ASSUME Tree, Position, Nesting, Breaks, doc' = doc,
           cursor' \in Nat, cursor <= cursor',
           extractors'[0].b = extractors[0].b \o <<Newline>>
    PROVE  Breaks'
<1> DEFINE t == <<Newline>>
<1>1. /\ t \in Seq(TokenType) /\ \A j \in DOMAIN t : ~IsWord(t[j])
      /\ \E k \in DOMAIN t : t[k] = Newline
  BY NewlineTokens, TokenTypes
<1>2. extractors'[0].b = extractors[0].b \o t
  OBVIOUS
<1> HIDE DEF t
<1>3. Announced(extractors[0].b, t) /\ OneSection(t) /\ NothingSince(t, cursor', Open')
  BY <1>1 DEF Announced, OneSection, NothingSince
<1> QED
  BY <1>1, <1>2, <1>3, BreaksAppended

\* A text outside all links: whatever begins or ends between an earlier word and
\* it has been passed.
LEMMA TextBreaks ==
    ASSUME Tree, Position, Nesting, Tokens, Breaks, doc' = doc, e = 0, at' = at,
           NEW n \in DOMAIN doc, NextChild(n), TextNode(n), cursor' = n,
           NEW t \in Seq(TokenType), extractors'[0].b = extractors[0].b \o t,
           \A i \in DOMAIN t : t[i] = Newline \/ t[i] \in Words(n)
    PROVE  Breaks'
<1>0. /\ n \in 1..Len(doc) /\ cursor \in Nat /\ n > cursor /\ Ancestors(n) = Open \ {0}
      /\ Open' = Open /\ 0 \in DOMAIN extractors
  BY PositionTypes, NextIsInOpen, NestingTypes, SameTree DEF Open
<1>1. \A i \in DOMAIN t : IsWord(t[i]) => t[i].of = n
  BY TokenTypes DEF Words
<1>2. doc[n].kind = "text"
  BY DEF TextNode
<1>3. ASSUME NEW c \in DOMAIN doc, Separating(c), c \in cursor+1..n
      PROVE  FALSE
  <2>1. c # n
    BY <1>2, <1>3 DEF Separating
  <2> QED
    BY <1>0, <1>3, <2>1, NothingBetween DEF Separating
<1>4. ASSUME NEW m \in DOMAIN doc, m <= cursor, BlockBetween(m, n)
      PROVE  \E c \in 1..cursor : Separating(c) /\ (m < c \/ c \in Ancestors(m) \ Open)
  <2>1. PICK c \in DOMAIN doc :
           Separating(c) /\ ((m < c /\ c < n) \/ c \in Ancestors(m) \ Ancestors(n))
    BY <1>4 DEF BlockBetween
  <2>2. c < n
    BY <1>0, <1>4, <2>1, AncestorsAreNodes, PositionTypes
  <2>3. c \in 1..cursor
    BY <1>0, <1>3, <2>1, <2>2, PositionTypes
  <2> QED
    BY <1>0, <2>1, <2>3, PositionTypes
<1>5. \A i \in DOMAIN extractors[0].b : IsWord(extractors[0].b[i]) =>
         extractors[0].b[i].of \in DOMAIN doc /\ extractors[0].b[i].of <= cursor
  BY <1>0 DEF Tokens, Sourced, Inside
<1>6. ~BlockBetween(n, n)
  BY <1>0, PositionTypes DEF BlockBetween
<1>7. \A c \in 1..cursor' : Separating(c) => ~(n < c) /\ c \notin Ancestors(n) \ Open'
  <2>1. \A c \in 1..cursor' : ~(n < c)
    BY <1>0
  <2>2. \A c : c \notin Ancestors(n) \ Open'
    BY <1>0
  <2> QED
    BY <2>1, <2>2
<1>8. \A c \in 1..cursor' : Separating(c) => c <= cursor /\ (c \in Open => c \in Open')
  <2> SUFFICES ASSUME NEW c \in 1..cursor', Separating(c)
               PROVE  c <= cursor
    BY <1>0
  <2>1. c \in DOMAIN doc /\ c \in 1..n
    BY <1>0, PositionTypes
  <2>2. c \notin cursor+1..n
    BY <1>3, <2>1
  <2> QED
    BY <1>0, <2>1, <2>2
<1> QED
  <2>1. Announced(extractors[0].b, t)
    BY <1>1, <1>4, <1>5 DEF Announced
  <2>2. OneSection(t)
    BY <1>1, <1>6 DEF OneSection
  <2>3. NothingSince(t, cursor', Open')
    BY <1>1, <1>7 DEF NothingSince
  <2> QED
    BY <1>0, <1>8, <2>1, <2>2, <2>3, BreaksAppended

\* A step that writes nothing.
LEMMA NothingWritten ==
    ASSUME Tree, Position, Nesting, Tokens, Lines, Written, doc' = doc,
           cursor' \in Nat, cursor <= cursor',
           DOMAIN extractors \subseteq DOMAIN extractors',
           \A d \in DOMAIN extractors : extractors'[d].b = extractors[d].b,
           \A d \in DOMAIN extractors' :
              \/ d \in DOMAIN extractors
              \/ d \in Nat /\ d > cursor /\ extractors'[d].b = <<>>,
           \A n \in cursor+1..cursor' : ~TextNode(n)
    PROVE  Tokens' /\ Lines' /\ Written'
<1>0. cursor \in Nat
  BY PositionTypes
<1>1. ASSUME NEW d \in DOMAIN extractors'
      PROVE  Sourced(d)' /\ Lined(d)'
  <2>1. CASE d \in DOMAIN extractors
    <3>1. \A c \in DOMAIN extractors' : c \in DOMAIN extractors \/ (c \in Nat /\ c > cursor)
      OBVIOUS
    <3> QED
      BY <2>1, <3>1, TextKept
  <2>2. CASE extractors'[d].b = <<>>
    BY <2>2, TextOfNew
  <2> QED
    BY <2>1, <2>2
<1>2. Written'
  BY <1>0, WrittenKept
<1> QED
  BY <1>1, <1>2 DEF Tokens, Lines

-----------------------------------------------------------------------------
(* The steps of the walk.                                                  *)

LEMMA TextStep ==
    ASSUME Tree, WalkInv, NEW n \in DOMAIN doc, Walk(n), WalkText(n)
    PROVE  WalkInv'
<1> USE DEF WalkInv
<1>0. /\ doc' = doc /\ cursor' = n /\ at' = at /\ e' = e /\ NextChild(n)
      /\ Write(Data(n)) /\ doc[n].kind = "text" /\ n \in Nat /\ n > cursor
      /\ cursor \in Nat /\ ~doc[n].hidden
  <2>1. /\ doc' = doc /\ cursor' = n /\ at' = at /\ e' = e /\ NextChild(n)
        /\ Write(Data(n)) /\ doc[n].kind = "text"
    BY DEF Walk, WalkText
  <2>2. n \in Nat /\ n > cursor /\ cursor \in Nat
    BY <2>1, PositionTypes, NextIsInOpen
  <2>3. ~doc[n].hidden
    BY <2>1 DEF Tree
  <2> QED
    BY <2>1, <2>2, <2>3
<1>1. TextNode(n)
  BY <1>0, NextIsInOpen DEF TextNode, Skipped
<1> DEFINE t == Data(n)
<1>2. /\ t \in Seq(TokenType) /\ Ordered(t) /\ Write(t)
      /\ \A i \in DOMAIN t : t[i] = Newline \/ t[i] \in Words(n)
      /\ \A w \in Words(n) : \E i \in DOMAIN t : t[i] = w
  BY <1>0, DataTokens
<1> HIDE DEF t
<1>3. /\ DOMAIN extractors' = DOMAIN extractors
      /\ extractors'[e].b = extractors[e].b \o t
      /\ \A d \in DOMAIN extractors :
            /\ extractors'[d] \in Extractor
            /\ d # e => extractors'[d].b = extractors[d].b
            /\ extractors'[d].candidates = extractors[d].candidates
            /\ extractors'[d].outer = extractors[d].outer
  BY <1>2, WriteToReceiver
<1>4. Position'
  BY <1>0, WalkPast
<1>5. Open' = Open
  BY <1>0, SameTree DEF Open
<1>6. Nesting'
  BY <1>0, <1>3, <1>5, NestingKept
<1>7. ASSUME NEW m \in cursor+1..cursor', Visible(m)
      PROVE  m = n
  BY <1>0, <1>7, NothingBetween, PositionTypes
<1>8. Images'
  <2>1. \A m \in cursor+1..cursor' : ~FileImage(m)
    BY <1>0, <1>7 DEF FileImage
  <2> QED
    BY <1>0, <1>3, <2>1, ImagesKept
<1>9. Tokens' /\ Lines'
  BY <1>0, <1>1, <1>2, TextWritten
<1>10. Written'
  BY <1>0, <1>2, <1>7, WordsWritten DEF TextNode
<1>11. Breaks'
  <2>1. CASE e = 0
    BY <1>0, <1>1, <1>2, <1>3, <2>1, TextBreaks
  <2>2. CASE e # 0
    <3>1. extractors'[0].b = extractors[0].b
      BY <1>3, <2>2, NestingTypes
    <3>2. \A c \in cursor+1..cursor' : ~Separating(c)
      BY <1>0, <1>7 DEF Separating
    <3> QED
      BY <1>0, <1>5, <3>1, <3>2, BreaksKept
  <2> QED
    BY <2>1, <2>2
<1> QED
  BY <1>4, <1>6, <1>8, <1>9, <1>10, <1>11

LEMMA SkippedStep ==
    ASSUME Tree, WalkInv, NEW n \in DOMAIN doc, Walk(n), WalkSkipped(n)
    PROVE  WalkInv'
<1> USE DEF WalkInv
<1>0. /\ doc' = doc /\ cursor' = n /\ at' = at /\ e' = e /\ NextChild(n)
      /\ extractors' = extractors /\ Skipped(n)
  BY DEF Walk, WalkSkipped
<1>1. /\ n \in Nat /\ n > cursor /\ cursor \in Nat
      /\ DOMAIN extractors \subseteq Nat /\ 0 \in DOMAIN extractors
      /\ \A d \in DOMAIN extractors : extractors[d] \in Extractor
  BY <1>0, PositionTypes, NextIsInOpen, NestingTypes
<1>2. Position'
  BY <1>0, WalkPast
<1>3. Open' = Open
  BY <1>0, SameTree DEF Open
<1>4. Nesting'
  BY <1>0, <1>1, <1>3, NestingKept
<1>5. ASSUME NEW m \in cursor+1..cursor'
      PROVE  ~Visible(m)
  <2>1. CASE m = n
    BY <1>0, <2>1 DEF Visible
  <2>2. CASE m # n
    BY <1>0, <1>1, <1>5, <2>2, NothingBetween
  <2> QED
    BY <2>1, <2>2
<1>6. Images'
  <2>1. \A m \in cursor+1..cursor' : ~FileImage(m)
    BY <1>5 DEF FileImage
  <2> QED
    BY <1>0, <1>1, <2>1, ImagesKept
<1>7. Tokens' /\ Lines' /\ Written'
  <2>1. \A m \in cursor+1..cursor' : ~TextNode(m)
    BY <1>5 DEF TextNode
  <2> QED
    BY <1>0, <1>1, <2>1, NothingWritten
<1>8. Breaks'
  <2>1. \A m \in cursor+1..cursor' : ~Separating(m)
    BY <1>5 DEF Separating
  <2> QED
    BY <1>0, <1>1, <1>3, <2>1, BreaksKept
<1> QED
  BY <1>2, <1>4, <1>6, <1>7, <1>8

LEMMA AnchorStep ==
    ASSUME Tree, WalkInv, NEW n \in DOMAIN doc, Walk(n), WalkAnchor(n)
    PROVE  WalkInv'
<1> USE DEF WalkInv
<1>0. /\ doc' = doc /\ cursor' = n /\ at' = n /\ e' = n /\ NextChild(n)
      /\ doc[n].kind = "anchor" /\ ~Skipped(n)
      /\ DOMAIN extractors' = DOMAIN extractors \cup {n}
      /\ extractors'[n] = NewExtractor(e)
      /\ \A d \in DOMAIN extractors \ {n} : extractors'[d] = extractors[d]
  BY DEF Walk, WalkAnchor
<1>1. /\ n \in Nat /\ n > cursor /\ cursor \in Nat /\ n > at /\ at \in Nat
      /\ DOMAIN extractors \subseteq 0..at /\ 0 \in DOMAIN extractors
      /\ e \in DOMAIN extractors
      /\ \A d \in DOMAIN extractors : d <= e /\ extractors[d] \in Extractor
  BY <1>0, PositionTypes, NextIsInOpen, NestingTypes
<1>2. Position' /\ Open' = Open \cup {n}
  BY <1>0, WalkInto
<1>3. /\ \A d \in DOMAIN extractors : d \in Nat /\ d < n /\ extractors'[d] = extractors[d]
      /\ n \notin DOMAIN extractors
  BY <1>0, <1>1
<1>4. Nesting'
  <2>1. DOMAIN extractors' = {d \in Open' : d = 0 \/ doc[d].kind = "anchor"}
    BY <1>0, <1>2 DEF Nesting
  <2>2. NewExtractor(e) \in Extractor /\ NewExtractor(e).outer = e
    BY <1>1 DEF NewExtractor, Extractor
  <2>3. \A d \in DOMAIN extractors' : d <= n /\ extractors'[d] \in Extractor
    BY <1>0, <1>1, <1>3, <2>2
  <2>4. ASSUME NEW d \in DOMAIN extractors' \ {0}
        PROVE  /\ extractors'[d].outer \in DOMAIN extractors'
               /\ extractors'[d].outer < d
               /\ \A c \in DOMAIN extractors' : c < d => c <= extractors'[d].outer
    <3>1. CASE d = n
      <4>1. extractors'[d].outer = e
        BY <1>0, <2>2, <3>1
      <4> QED
        BY <1>0, <1>1, <1>3, <3>1, <4>1
    <3>2. CASE d \in DOMAIN extractors
      <4>1. /\ extractors[d].outer \in DOMAIN extractors /\ extractors[d].outer < d
            /\ \A c \in DOMAIN extractors : c < d => c <= extractors[d].outer
        BY <3>2 DEF Nesting
      <4>2. ~(n < d)
        BY <1>1, <1>3, <3>2
      <4> QED
        BY <1>0, <1>3, <3>2, <4>1, <4>2
    <3> QED
      BY <1>0, <3>1, <3>2
  <2> QED
    BY <1>0, <2>1, <2>3, <2>4 DEF Nesting
<1>5. ASSUME NEW m \in cursor+1..cursor', Visible(m)
      PROVE  m = n
  BY <1>0, <1>1, <1>5, NothingBetween
<1>6. /\ extractors'[n].b = <<>> /\ extractors'[n].candidates = <<>>
      /\ \A d \in DOMAIN extractors' :
            \/ d \in DOMAIN extractors
            \/ /\ d \in Nat /\ d > cursor
               /\ extractors'[d].candidates = <<>> /\ extractors'[d].b = <<>>
  BY <1>0, <1>1 DEF NewExtractor
<1>7. Images'
  <2>1. \A m \in cursor+1..cursor' : ~FileImage(m)
    BY <1>0, <1>5 DEF FileImage
  <2> QED
    BY <1>0, <1>1, <1>3, <1>6, <2>1, ImagesKept
<1>8. Tokens' /\ Lines' /\ Written'
  <2>1. \A m \in cursor+1..cursor' : ~TextNode(m)
    BY <1>0, <1>5 DEF TextNode
  <2> QED
    BY <1>0, <1>1, <1>3, <1>6, <2>1, NothingWritten
<1>9. Breaks'
  <2>1. \A m \in cursor+1..cursor' : ~Separating(m)
    BY <1>0, <1>5 DEF Separating
  <2> QED
    BY <1>0, <1>1, <1>2, <1>3, <2>1, BreaksKept
<1> QED
  BY <1>2, <1>4, <1>7, <1>8, <1>9

LEMMA ImageStep ==
    ASSUME Tree, WalkInv, NEW n \in DOMAIN doc, Walk(n), WalkImage(n)
    PROVE  WalkInv'
<1> USE DEF WalkInv
<1>0. /\ doc' = doc /\ cursor' = n /\ at' = at /\ e' = e /\ NextChild(n)
      /\ doc[n].kind = "image" /\ ~Skipped(n)
      /\ doc[n].ref # "file" => extractors' = extractors
      /\ doc[n].ref = "file" =>
            extractors' = [extractors EXCEPT ![e].candidates =
               Append(extractors[e].candidates,
                      [position |-> Len(extractors[e].candidates), src |-> n, link |-> Link])]
  BY DEF Walk, WalkImage
<1>1. /\ n \in Nat /\ n > cursor /\ cursor \in Nat /\ Visible(n)
      /\ DOMAIN extractors \subseteq Nat /\ 0 \in DOMAIN extractors
      /\ e \in DOMAIN extractors
      /\ \A d \in DOMAIN extractors :
            /\ extractors[d] \in Extractor
            /\ extractors[d].candidates \in Seq(CandidateType)
  BY <1>0, PositionTypes, NextIsInOpen, NestingTypes
<1> DEFINE cs == extractors[e].candidates
           image == [position |-> Len(cs), src |-> n, link |-> Link]
<1>2. Len(cs) \in Nat /\ Append(cs, image) \in Seq(CandidateType)
  <2>1. cs \in Seq(CandidateType)
    BY <1>1
  <2> HIDE DEF cs
  <2>2. Len(cs) \in Nat /\ image \in CandidateType
    BY <1>1, <2>1, LinkType DEF CandidateType
  <2> QED
    BY <2>1, <2>2
<1>3. /\ DOMAIN extractors' = DOMAIN extractors
      /\ \A d \in DOMAIN extractors :
            /\ extractors'[d].b = extractors[d].b
            /\ extractors'[d].outer = extractors[d].outer
            /\ extractors'[d] \in Extractor
            /\ extractors'[d].candidates =
                  IF d = e /\ doc[n].ref = "file" THEN Append(cs, image)
                  ELSE extractors[d].candidates
  <2>1. CASE doc[n].ref # "file"
    BY <1>0, <1>1, <2>1
  <2>2. CASE doc[n].ref = "file"
    <3>1. extractors' = [extractors EXCEPT ![e].candidates = Append(cs, image)]
      BY <1>0, <2>2
    <3> HIDE DEF cs, image
    <3> QED
      BY <1>1, <1>2, <2>2, <3>1 DEF Extractor
  <2> QED
    BY <2>1, <2>2
<1>4. Position'
  BY <1>0, WalkPast
<1>5. Open' = Open
  BY <1>0, SameTree DEF Open
<1>6. Nesting'
  BY <1>0, <1>3, <1>5, NestingKept
<1>7. ASSUME NEW m \in cursor+1..cursor', Visible(m)
      PROVE  m = n
  BY <1>0, <1>1, <1>7, NothingBetween
<1>8. Images'
  <2>1. CASE doc[n].ref = "file"
    <3>1. FileImage(n)
      BY <1>0, <1>1, <2>1 DEF FileImage
    <3>2. extractors'[e].candidates = Append(cs, image)
      BY <1>1, <1>3, <2>1
    <3>3. \A d \in DOMAIN extractors \ {e} :
             extractors'[d].candidates = extractors[d].candidates
      BY <1>3
    <3> QED
      BY <1>0, <1>2, <1>3, <3>1, <3>2, <3>3, ImageCollected
  <2>2. CASE doc[n].ref # "file"
    <3>1. \A m \in cursor+1..cursor' : ~FileImage(m)
      BY <1>0, <1>7, <2>2 DEF FileImage
    <3>2. \A d \in DOMAIN extractors : extractors'[d].candidates = extractors[d].candidates
      BY <1>3, <2>2
    <3> QED
      BY <1>0, <1>1, <1>3, <3>1, <3>2, ImagesKept
  <2> QED
    BY <2>1, <2>2
<1>9. Tokens' /\ Lines' /\ Written'
  <2>1. \A m \in cursor+1..cursor' : ~TextNode(m)
    BY <1>0, <1>7 DEF TextNode
  <2> QED
    BY <1>0, <1>1, <1>3, <2>1, NothingWritten
<1>10. Breaks'
  <2>1. \A m \in cursor+1..cursor' : ~Separating(m)
    BY <1>0, <1>7 DEF Separating
  <2> QED
    BY <1>0, <1>1, <1>3, <1>5, <2>1, BreaksKept
<1> QED
  BY <1>4, <1>6, <1>8, <1>9, <1>10

\* The line breaks of a block, as it begins and as it ends.
LEMMA NewlineWritten ==
    ASSUME Tree, WalkInv, doc' = doc, e' = e, Write(<<Newline>>),
           cursor' \in Nat, cursor <= cursor', Position',
           {d \in Open' : d = 0 \/ doc[d].kind = "anchor"} =
              {d \in Open : d = 0 \/ doc[d].kind = "anchor"},
           \A n \in cursor+1..cursor' : Visible(n) => doc[n].kind = "block",
           e # 0 =>
              /\ \A c \in cursor+1..cursor' : ~Separating(c)
              /\ \A c \in Open : c \in Open' \/ ~Separating(c)
    PROVE  WalkInv'
<1> USE DEF WalkInv
<1>0. e \in DOMAIN extractors /\ 0 \in DOMAIN extractors /\ DOMAIN extractors \subseteq Nat
  BY NestingTypes, PositionTypes
<1> DEFINE t == <<Newline>>
<1>1. /\ t \in Seq(TokenType) /\ Ordered(t) /\ Write(t)
      /\ \A i \in DOMAIN t : t[i] = Newline
  BY NewlineTokens
<1>2. /\ DOMAIN extractors' = DOMAIN extractors
      /\ extractors'[e].b = extractors[e].b \o <<Newline>>
      /\ \A d \in DOMAIN extractors :
            /\ extractors'[d] \in Extractor
            /\ d # e => extractors'[d].b = extractors[d].b
            /\ extractors'[d].candidates = extractors[d].candidates
            /\ extractors'[d].outer = extractors[d].outer
  BY <1>1, WriteToReceiver
<1> HIDE DEF t
<1>3. Nesting'
  BY <1>2, NestingKept
<1>4. Images'
  <2>1. \A m \in cursor+1..cursor' : ~FileImage(m)
    BY DEF FileImage
  <2> QED
    BY <1>0, <1>2, <2>1, ImagesKept
<1>5. Tokens' /\ Lines'
  BY <1>1, TextWritten
<1>6. Written'
  <2>1. \A m \in cursor+1..cursor' : ~TextNode(m)
    BY DEF TextNode
  <2> QED
    BY <1>1, <2>1, WordsWritten
<1>7. Breaks'
  <2>1. CASE e = 0
    BY <1>2, <2>1, BreakWritten
  <2>2. CASE e # 0
    <3>1. extractors'[0].b = extractors[0].b
      BY <1>0, <1>2, <2>2
    <3> QED
      BY <2>2, <3>1, BreaksKept
  <2> QED
    BY <2>1, <2>2
<1> QED
  BY <1>3, <1>4, <1>5, <1>6, <1>7

LEMMA BlockStep ==
    ASSUME Tree, WalkInv, NEW n \in DOMAIN doc, Walk(n), WalkBlock(n)
    PROVE  WalkInv'
<1> USE DEF WalkInv
<1>0. /\ doc' = doc /\ cursor' = n /\ at' = n /\ e' = e /\ NextChild(n)
      /\ doc[n].kind = "block" /\ ~Skipped(n) /\ Write(<<Newline>>)
  BY DEF Walk, WalkBlock
<1>1. n \in Nat /\ n > cursor /\ cursor \in Nat
  BY <1>0, PositionTypes, NextIsInOpen
<1>2. Position' /\ Open' = Open \cup {n}
  BY <1>0, WalkInto
<1>3. ASSUME NEW m \in cursor+1..cursor', Visible(m)
      PROVE  m = n
  BY <1>0, <1>1, <1>3, NothingBetween
<1>4. {d \in Open' : d = 0 \/ doc[d].kind = "anchor"} =
         {d \in Open : d = 0 \/ doc[d].kind = "anchor"}
  BY <1>0, <1>1, <1>2
<1>5. ASSUME e # 0
      PROVE  ~Separating(n)
  BY <1>0, <1>5, LinksOfNext, NestingTypes DEF Separating
<1>6. e # 0 => \A c \in cursor+1..cursor' : ~Separating(c)
  BY <1>3, <1>5 DEF Separating
<1> QED
  BY <1>0, <1>1, <1>2, <1>3, <1>4, <1>6, NewlineWritten

LEMMA LeaveBlockStep ==
    ASSUME Tree, WalkInv, Leave, LeaveBlock
    PROVE  WalkInv'
<1> USE DEF WalkInv
<1>0. /\ doc' = doc /\ cursor' = cursor /\ at' = doc[at].parent /\ e' = e
      /\ at # 0 /\ doc[at].kind = "block" /\ Write(<<Newline>>) /\ NoNextChild
  BY DEF Leave, LeaveBlock
<1>1. cursor \in Nat
  BY PositionTypes
<1>2. Position' /\ Open' = Open \ {at}
  BY <1>0, WalkOut
<1>3. {d \in Open' : d = 0 \/ doc[d].kind = "anchor"} =
         {d \in Open : d = 0 \/ doc[d].kind = "anchor"}
  BY <1>0, <1>2
<1>4. ASSUME e # 0
      PROVE  ~Separating(at)
  <2>1. e \in Open /\ doc[e].kind = "anchor"
    BY <1>4 DEF Nesting
  <2>2. e \in Within(at, "anchor")
    BY <1>0, <1>4, <2>1 DEF Open, Within
  <2> QED
    BY <2>2 DEF Separating
<1>5. e # 0 => \A c \in Open : c \in Open' \/ ~Separating(c)
  BY <1>2, <1>4
<1>6. \A n \in cursor+1..cursor' : FALSE
  BY <1>0, <1>1
<1> QED
  BY <1>0, <1>1, <1>2, <1>3, <1>5, <1>6, NewlineWritten

-----------------------------------------------------------------------------
(* The end of a link.                                                      *)

Shift(a) == IF doc[a].ref = "url" THEN 1 ELSE 0

\* A link that is not blank: its tokens in one line, between its marks if it has
\* any.
LEMMA RenderedPlaces ==
    ASSUME NEW w \in Seq(TokenType), NEW a \in Nat, ~Blank(w)
    PROVE  LET r == Rendered(a, w)
               n == Shift(a)
           IN  /\ r \in Seq(TokenType) /\ Len(w) \in Nat /\ DOMAIN w = 1..Len(w)
               /\ Len(r) = Len(w) + n + n /\ DOMAIN r = 1..Len(w) + n + n
               /\ \A k \in DOMAIN w :
                     r[k + n] = IF w[k] = Newline THEN Space ELSE w[k]
               /\ n = 1 => r[1] = Token("open", a) /\ r[Len(w) + 2] = Token("close", a)
<1> DEFINE c == Collapse(w)
           r == Rendered(a, w)
<1>0. w \in [1..Len(w) -> TokenType] /\ Len(w) \in Nat /\ DOMAIN w = 1..Len(w)
  OBVIOUS
<1>1. /\ c \in Seq(TokenType) /\ Len(c) = Len(w) /\ DOMAIN c = 1..Len(w)
      /\ \A k \in 1..Len(w) : c[k] = IF w[k] = Newline THEN Space ELSE w[k]
  <2>1. c = [i \in 1..Len(w) |-> IF w[i] = Newline THEN Space ELSE w[i]]
    BY <1>0 DEF Collapse
  <2>2. \A i \in 1..Len(w) : (IF w[i] = Newline THEN Space ELSE w[i]) \in TokenType
    BY <1>0, TokenTypes
  <2> HIDE DEF c
  <2> QED
    BY <1>0, <2>1, <2>2
<1> HIDE DEF c
<1>2. CASE doc[a].ref # "url"
  <2>1. r = c /\ Shift(a) = 0
    BY <1>2 DEF Rendered, Shift, c
  <2> HIDE DEF r
  <2>2. \A k \in 1..Len(w) : k + 0 = k
    BY <1>0
  <2> QED
    BY <1>0, <1>1, <2>1, <2>2 DEF r
<1>3. CASE doc[a].ref = "url"
  <2> DEFINE open == Token("open", a)
             close == Token("close", a)
  <2>1. r = <<open>> \o c \o <<close>> /\ Shift(a) = 1
    BY <1>3 DEF Rendered, Shift, c
  <2>2. open \in TokenType /\ close \in TokenType
    BY TokenTypes
  <2> HIDE DEF r, open, close
  <2>3. /\ r \in Seq(TokenType) /\ Len(r) = Len(w) + 2 /\ DOMAIN r = 1..Len(w) + 2
        /\ r[1] = open /\ r[Len(w) + 2] = close
        /\ \A k \in 1..Len(w) : r[k + 1] = c[k]
    BY <1>0, <1>1, <2>1, <2>2
  <2>4. Len(w) + 1 + 1 = Len(w) + 2
    BY <1>0
  <2> QED
    BY <1>0, <1>1, <2>1, <2>3, <2>4 DEF r, open, close
<1> QED
  BY <1>2, <1>3

\* The line r is the text w of a link a, whose marks it gets if they are shown.
LineOf(r, w, a, shown) ==
    /\ r \in Seq(TokenType)
    /\ \A i \in DOMAIN r :
          /\ r[i] # Newline
          /\ \/ r[i] = Space
             \/ shown /\ r[i] \in {Token("open", a), Token("close", a)}
             \/ \E k \in DOMAIN w : r[i] = w[k]
    /\ \A k \in DOMAIN w :
          w[k] \notin {Newline, Space} => \E i \in DOMAIN r : r[i] = w[k]
    /\ Ordered(w) => Ordered(r)
    /\ \A i \in DOMAIN r : IsWord(r[i]) =>
          \E k \in DOMAIN w :
             /\ r[i] = w[k]
             /\ \A x : Around(r, i, x) <=> Around(w, k, x) \/ (x = a /\ shown)

LEMMA RenderedTokens ==
    ASSUME NEW w \in Seq(TokenType), NEW a \in Nat, NEW r, r = Rendered(a, w)
    PROVE  LineOf(r, w, a, doc[a].ref = "url")
<1>1. CASE Blank(w)
  <2>1. r = <<>> /\ \A k \in DOMAIN w : w[k] \in {Newline, Space}
    BY <1>1 DEF Rendered, Blank
  <2> QED
    BY <2>1 DEF Ordered, LineOf
<1>2. CASE ~Blank(w)
  <2> DEFINE n == Shift(a)
             N == Len(w)
  <2>0. n \in Nat /\ (n = 1 <=> doc[a].ref = "url") /\ (n = 0 <=> doc[a].ref # "url")
    BY DEF Shift
  <2> HIDE DEF n
  <2>1. /\ r \in Seq(TokenType) /\ N \in Nat /\ DOMAIN w = 1..N
        /\ Len(r) = N + n + n /\ DOMAIN r = 1..N + n + n
        /\ \A k \in DOMAIN w : r[k + n] = IF w[k] = Newline THEN Space ELSE w[k]
        /\ n = 1 => r[1] = Token("open", a) /\ r[N + 2] = Token("close", a)
    BY <1>2, RenderedPlaces DEF n
  <2> HIDE DEF N
  <2>2. ASSUME NEW i \in DOMAIN r
        PROVE  \/ i - n \in DOMAIN w
               \/ n = 1 /\ r[i] \in {Token("open", a), Token("close", a)}
    <3>1. CASE n = 0
      BY <2>1, <3>1
    <3>2. CASE n = 1
      <4>1. i \in 1..N + 2
        BY <2>1, <3>2
      <4>2. i = 1 \/ i = N + 2 \/ i - 1 \in 1..N
        BY <2>1, <4>1
      <4> QED
        BY <2>1, <3>2, <4>2
    <3> QED
      BY <2>0, <3>1, <3>2
  <2>3. ASSUME NEW i \in DOMAIN r, i - n \in DOMAIN w
        PROVE  r[i] = IF w[i - n] = Newline THEN Space ELSE w[i - n]
    <3>1. (i - n) + n = i
      BY <2>0, <2>1
    <3> QED
      BY <2>1, <2>3, <3>1
  <2>4. \A k \in DOMAIN w : k + n \in DOMAIN r
    BY <2>0, <2>1
  <2>5. ASSUME NEW i \in DOMAIN r
        PROVE  /\ r[i] # Newline
               /\ \/ r[i] = Space
                  \/ doc[a].ref = "url" /\ r[i] \in {Token("open", a), Token("close", a)}
                  \/ \E k \in DOMAIN w : r[i] = w[k]
    <3>1. CASE i - n \in DOMAIN w
      BY <2>3, <3>1, TokenTypes
    <3>2. CASE n = 1 /\ r[i] \in {Token("open", a), Token("close", a)}
      BY <2>0, <3>2, TokenTypes
    <3> QED
      BY <2>2, <3>1, <3>2
  <2>6. \A k \in DOMAIN w :
           w[k] \notin {Newline, Space} => \E i \in DOMAIN r : r[i] = w[k]
    BY <2>1, <2>4
  <2>7. ASSUME NEW i \in DOMAIN r, IsWord(r[i])
        PROVE  i - n \in DOMAIN w /\ r[i] = w[i - n]
    <3>1. i - n \in DOMAIN w
      BY <2>2, <2>7, TokenTypes
    <3> QED
      BY <2>3, <2>7, <3>1, TokenTypes
  <2>8. ASSUME Ordered(w)
        PROVE  Ordered(r)
    <3> SUFFICES ASSUME NEW i \in DOMAIN r, NEW j \in DOMAIN r, i < j, IsWord(r[i]), IsWord(r[j])
                 PROVE  Before(r[i], r[j])
      BY DEF Ordered
    <3>1. /\ i - n \in DOMAIN w /\ r[i] = w[i - n]
          /\ j - n \in DOMAIN w /\ r[j] = w[j - n]
      BY <2>7
    <3>2. i - n < j - n
      BY <2>0, <2>1
    <3> QED
      BY <2>8, <3>1, <3>2 DEF Ordered
  <2>9. ASSUME NEW i \in DOMAIN r, IsWord(r[i]), NEW x
        PROVE  Around(r, i, x) <=>
                  Around(w, i - n, x) \/ (x = a /\ doc[a].ref = "url")
    <3>0. i - n \in DOMAIN w
      BY <2>7, <2>9
    <3>1. ASSUME Around(w, i - n, x)
          PROVE  Around(r, i, x)
      <4>1. PICK j \in DOMAIN w, k \in DOMAIN w :
               /\ j <= i - n /\ i - n <= k
               /\ w[j] = Token("open", x) /\ w[k] = Token("close", x)
        BY <3>1 DEF Around
      <4>2. r[j + n] = Token("open", x) /\ r[k + n] = Token("close", x)
        BY <2>1, <4>1, TokenTypes
      <4>3. j + n <= i /\ i <= k + n
        BY <2>0, <2>1, <3>0, <4>1
      <4> QED
        BY <2>4, <4>2, <4>3 DEF Around
    <3>2. ASSUME x = a, n = 1
          PROVE  Around(r, i, x)
      <4>1. r[1] = Token("open", x) /\ r[N + 2] = Token("close", x)
        BY <2>1, <3>2
      <4>2. 1 \in DOMAIN r /\ N + 2 \in DOMAIN r /\ 1 <= i /\ i <= N + 2
        BY <2>1, <3>2
      <4> QED
        BY <4>1, <4>2 DEF Around
    <3>3. ASSUME Around(r, i, x), ~(x = a /\ n = 1)
          PROVE  Around(w, i - n, x)
      <4>1. PICK j \in DOMAIN r, k \in DOMAIN r :
               j <= i /\ i <= k /\ r[j] = Token("open", x) /\ r[k] = Token("close", x)
        BY <3>3 DEF Around
      <4>2. j - n \in DOMAIN w /\ k - n \in DOMAIN w
        BY <2>2, <3>3, <4>1, TokenTypes
      <4>3. w[j - n] = Token("open", x) /\ w[k - n] = Token("close", x)
        BY <2>3, <4>1, <4>2, TokenTypes
      <4>4. j - n <= i - n /\ i - n <= k - n
        BY <2>0, <2>1, <4>1
      <4> QED
        BY <4>2, <4>3, <4>4 DEF Around
    <3> QED
      BY <2>0, <3>1, <3>2, <3>3
  <2>10. \A i \in DOMAIN r : IsWord(r[i]) =>
            \E k \in DOMAIN w :
               /\ r[i] = w[k]
               /\ \A x : Around(r, i, x) <=>
                            Around(w, k, x) \/ (x = a /\ doc[a].ref = "url")
    BY <2>7, <2>9
  <2> QED
    BY <2>1, <2>5, <2>6, <2>8, <2>10 DEF LineOf
<1> QED
  BY <1>1, <1>2

\* What an extractor's words and marks are.
LEMMA SourcedTokens ==
    ASSUME Tree, Position, Tokens, Lines, NEW d \in DOMAIN extractors
    PROVE  LET b == extractors[d].b
           IN  /\ \A i \in DOMAIN b :
                     /\ IsWord(b[i]) => /\ b[i].of \in DOMAIN doc /\ TextNode(b[i].of)
                                        /\ b[i] \in Words(b[i].of)
                     /\ IsMark(b[i]) => b[i].of \in DOMAIN doc /\ IsLink(b[i].of)
                     /\ IsWord(b[i]) \/ IsMark(b[i]) =>
                           b[i].of \in Nat /\ Inside(d, b[i].of, DOMAIN extractors, cursor)
                     /\ ~IsWord(b[i]) /\ ~IsMark(b[i]) => b[i] \in {Newline, Space}
               /\ Ordered(b) /\ Whole(b) /\ Linked(d, b)
BY PositionTypes DEF Tokens, Lines, Lined, Sourced

\* The nodes of an open link.
LEMMA InnerNodes ==
    ASSUME Tree, Position, Nesting, at # 0, doc[at].kind = "anchor",
           NEW a, a = at, NEW n \in DOMAIN doc, Inside(a, n, DOMAIN extractors, cursor)
    PROVE  /\ n > a /\ n <= cursor
           /\ a \in Within(n, "anchor")
           /\ \A x \in Within(n, "anchor") : x < a => x <= extractors[a].outer
<1>0. a \in 1..Len(doc) /\ cursor \in 0..Len(doc) /\ DOMAIN doc = 1..Len(doc) /\ Len(doc) \in Nat
  BY PositionTypes
<1>1. n > a /\ n <= cursor
  BY DEF Inside
<1>2. a \in Ancestors(n)
  <2>1. \A m \in a+1..n : doc[m].parent >= a
    BY <1>0, <1>1 DEF Position
  <2> QED
    BY <1>0, <1>1, <2>1 DEF Ancestors
<1>3. ASSUME NEW x \in Within(n, "anchor"), x < a
      PROVE  x <= extractors[a].outer
  <2>1. x \in Ancestors(a) /\ doc[x].kind = "anchor"
    BY <1>2, <1>3, AncestorsChain DEF Within
  <2>2. x \in DOMAIN extractors
    BY <2>1 DEF Open, Nesting
  <2>3. x # at
    BY <1>0, <1>3
  <2> QED
    BY <2>2, <2>3, InnermostLink
<1> QED
  BY <1>1, <1>2, <1>3 DEF Within

\* The link's line goes to the end of the text outside: its words come after those
\* that are there, and stand in the link itself besides those links they stood in.
LEMMA TextJoined ==
    ASSUME Tree, Position, Nesting, Tokens, Lines, doc' = doc,
           at # 0, doc[at].kind = "anchor",
           cursor' = cursor, DOMAIN extractors' = DOMAIN extractors \ {at},
           NEW a, a = at, NEW o, o = extractors[at].outer,
           NEW r, r = Rendered(a, extractors[a].b),
           extractors'[o].b = extractors[o].b \o r
    PROVE  Sourced(o)' /\ Lined(o)'
<1> DEFINE s == extractors[o].b
           w == extractors[a].b
           u == extractors'[o].b
           In(d, n) == Inside(d, n, DOMAIN extractors, cursor)
           In1(d, n) == Inside(d, n, DOMAIN extractors', cursor')
<1>0. /\ o \in DOMAIN extractors /\ o < a /\ a \in DOMAIN extractors
      /\ o \in Nat /\ a \in Nat /\ a \in DOMAIN doc /\ a <= cursor /\ cursor \in Nat
      /\ \A c \in DOMAIN extractors : c # a => c <= o
      /\ DOMAIN extractors \subseteq Nat /\ DOMAIN doc \subseteq Nat
  BY InnermostLink, NestingTypes, PositionTypes
<1>1. s \in Seq(TokenType) /\ w \in Seq(TokenType) /\ u = s \o r
  BY <1>0, NestingTypes
<1>2. /\ \A n \in Nat : In(a, n) => In1(o, n)
      /\ \A d, n \in Nat : In(d, n) => In1(d, n)
      /\ \A m, n \in Nat : In(o, m) /\ In(a, n) => m < n
  BY InsideOuter
<1>3. /\ \A i \in DOMAIN s :
            /\ IsWord(s[i]) => s[i].of \in DOMAIN doc /\ TextNode(s[i].of) /\ s[i] \in Words(s[i].of)
            /\ IsMark(s[i]) => s[i].of \in DOMAIN doc /\ IsLink(s[i].of)
            /\ IsWord(s[i]) \/ IsMark(s[i]) => s[i].of \in Nat /\ In(o, s[i].of)
            /\ ~IsWord(s[i]) /\ ~IsMark(s[i]) => s[i] \in {Newline, Space}
      /\ Ordered(s) /\ Whole(s) /\ Linked(o, s)
  BY <1>0, SourcedTokens
<1>4. /\ \A i \in DOMAIN w :
            /\ IsWord(w[i]) => w[i].of \in DOMAIN doc /\ TextNode(w[i].of) /\ w[i] \in Words(w[i].of)
            /\ IsMark(w[i]) => w[i].of \in DOMAIN doc /\ IsLink(w[i].of)
            /\ IsWord(w[i]) \/ IsMark(w[i]) => w[i].of \in Nat /\ In(a, w[i].of)
            /\ ~IsWord(w[i]) /\ ~IsMark(w[i]) => w[i] \in {Newline, Space}
      /\ Ordered(w) /\ Linked(a, w)
  BY <1>0, SourcedTokens
<1>5. /\ \A n \in DOMAIN doc : In(a, n) =>
            /\ a \in Within(n, "anchor")
            /\ \A x \in Within(n, "anchor") : x < a => x <= o
      /\ IsLink(a) <=> doc[a].ref = "url"
  BY InnerNodes DEF IsLink
<1>6. In1(o, a) /\ ~In(o, a)
  BY <1>0 DEF Inside
<1>7. r = Rendered(a, w)
  OBVIOUS
<1> HIDE DEF s, w, u, In, In1
<1>8. /\ r \in Seq(TokenType)
      /\ \A i \in DOMAIN r :
            /\ r[i] # Newline
            /\ \/ r[i] = Space
               \/ IsLink(a) /\ r[i] \in {Token("open", a), Token("close", a)}
               \/ \E k \in DOMAIN w : r[i] = w[k]
      /\ Ordered(r)
      /\ \A i \in DOMAIN r : IsWord(r[i]) =>
            \E k \in DOMAIN w :
               /\ r[i] = w[k]
               /\ \A x : Around(r, i, x) <=> Around(w, k, x) \/ (x = a /\ IsLink(a))
  <2>1. w \in Seq(TokenType) /\ a \in Nat
    BY <1>0, <1>1
  <2>2. LineOf(r, w, a, doc[a].ref = "url")
    BY <1>7, <2>1, RenderedTokens
  <2> QED
    BY <1>4, <1>5, <2>2 DEF LineOf
<1>9. /\ Len(s) \in Nat
      /\ \A i \in DOMAIN s : u[i] = s[i]
  BY <1>1, <1>8, ConcatPlaces
<1>10. ASSUME NEW i \in DOMAIN u, i \notin DOMAIN s
       PROVE  i \in Nat /\ i - Len(s) \in DOMAIN r /\ u[i] = r[i - Len(s)]
  BY <1>1, <1>8, <1>10, ConcatPlaces
<1>11. ASSUME NEW i \in DOMAIN r
       PROVE  /\ IsWord(r[i]) => /\ r[i].of \in DOMAIN doc /\ TextNode(r[i].of)
                                 /\ r[i] \in Words(r[i].of) /\ In(a, r[i].of)
              /\ IsMark(r[i]) => /\ r[i].of \in DOMAIN doc /\ IsLink(r[i].of)
                                 /\ r[i].of = a \/ In(a, r[i].of)
              /\ IsWord(r[i]) \/ IsMark(r[i]) => In1(o, r[i].of)
              /\ ~IsWord(r[i]) /\ ~IsMark(r[i]) => r[i] \in {Newline, Space}
  <2>1. CASE r[i] = Space
    BY <2>1, TokenTypes
  <2>2. CASE IsLink(a) /\ r[i] \in {Token("open", a), Token("close", a)}
    <3>1. r[i].of = a /\ IsMark(r[i]) /\ ~IsWord(r[i])
      BY <2>2, TokenTypes
    <3> QED
      BY <1>0, <1>6, <2>2, <3>1
  <2>3. CASE \E k \in DOMAIN w : r[i] = w[k]
    <3>1. PICK k \in DOMAIN w : r[i] = w[k]
      BY <2>3
    <3> QED
      BY <1>2, <1>4, <3>1
  <2> QED
    BY <1>8, <2>1, <2>2, <2>3
<1>12. Sourced(o)'
  <2>1. ASSUME NEW i \in DOMAIN u
        PROVE  /\ IsWord(u[i]) => u[i].of \in DOMAIN doc /\ TextNode(u[i].of) /\ u[i] \in Words(u[i].of)
               /\ IsMark(u[i]) => u[i].of \in DOMAIN doc /\ IsLink(u[i].of)
               /\ IsWord(u[i]) \/ IsMark(u[i]) => In1(o, u[i].of)
               /\ ~IsWord(u[i]) /\ ~IsMark(u[i]) => u[i] \in {Newline, Space}
    <3>1. CASE i \in DOMAIN s
      BY <1>0, <1>2, <1>3, <1>9, <3>1
    <3>2. CASE i \notin DOMAIN s
      <4>1. i - Len(s) \in DOMAIN r /\ u[i] = r[i - Len(s)]
        BY <1>10, <3>2
      <4> QED
        BY <1>11, <4>1
    <3> QED
      BY <3>1, <3>2
  <2> QED
    BY <2>1, SameText DEF Sourced, u, In1
<1>13. Ordered(u)
  <2>1. ASSUME NEW i \in DOMAIN s, NEW j \in DOMAIN r, IsWord(s[i]), IsWord(r[j])
        PROVE  Before(s[i], r[j])
    <3>1. s[i].of < r[j].of
      BY <1>0, <1>2, <1>3, <1>11, <2>1
    <3> QED
      BY <3>1 DEF Before
  <2> QED
    BY <1>1, <1>3, <1>8, <2>1, OrderedConcat
<1>14. Apart(s, r)
  <2> SUFFICES ASSUME NEW i \in DOMAIN s, NEW j \in DOMAIN r,
                      s[i].tok = "open", r[j] = Token("close", s[i].of)
               PROVE  FALSE
    BY DEF Apart
  <2>1. IsMark(s[i]) /\ IsMark(r[j]) /\ r[j].of = s[i].of
    BY TokenTypes DEF IsMark
  <2>2. s[i].of \in Nat /\ In(o, s[i].of)
    BY <1>3, <2>1
  <2>3. r[j].of = a \/ In(a, r[j].of)
    BY <1>11, <2>1
  <2> QED
    BY <1>2, <1>6, <2>1, <2>2, <2>3
<1>15. Whole(u)
  <2>1. Whole(r)
    <3> SUFFICES ASSUME NEW j \in DOMAIN r, NEW k \in DOMAIN r, NEW m \in j..k
                 PROVE  r[m] # Newline
      BY DEF Whole
    <3>1. m \in DOMAIN r
      BY <1>8
    <3> QED
      BY <1>8, <3>1
  <2> QED
    BY <1>1, <1>3, <1>8, <1>14, <2>1, WholeConcat
<1>16. ASSUME NEW x
       PROVE  /\ \A i \in DOMAIN s : Around(u, i, x) <=> Around(s, i, x)
              /\ \A i \in DOMAIN r : Around(u, Len(s) + i, x) <=> Around(r, i, x)
  BY <1>1, <1>8, <1>14, AroundConcat
<1>17. ASSUME NEW i \in DOMAIN u, IsWord(u[i]), NEW x \in DOMAIN doc
       PROVE  Around(u, i, x) <=> x \in Within(u[i].of, "anchor") /\ IsLink(x) /\ x > o
  <2>1. CASE i \in DOMAIN s
    <3>1. u[i] = s[i] /\ (Around(u, i, x) <=> Around(s, i, x))
      BY <1>9, <1>16, <2>1
    <3> QED
      BY <1>3, <1>17, <2>1, <3>1 DEF Linked
  <2>2. CASE i \notin DOMAIN s
    <3>0. i \in Nat /\ i - Len(s) \in DOMAIN r /\ u[i] = r[i - Len(s)]
      BY <1>10, <2>2
    <3>1. PICK j \in DOMAIN r : u[i] = r[j] /\ i = Len(s) + j
      <4>1. i = Len(s) + (i - Len(s))
        BY <1>9, <3>0
      <4> QED
        BY <3>0, <4>1
    <3>2. Around(u, i, x) <=> Around(r, j, x)
      BY <1>16, <3>1
    <3>3. PICK k \in DOMAIN w :
             /\ r[j] = w[k]
             /\ Around(r, j, x) <=> Around(w, k, x) \/ (x = a /\ IsLink(a))
      BY <1>8, <1>17, <3>1
    <3>4. IsWord(w[k]) /\ w[k].of \in DOMAIN doc /\ In(a, w[k].of) /\ u[i] = w[k]
      BY <1>4, <1>17, <3>1, <3>3
    <3>5. Around(w, k, x) <=> x \in Within(w[k].of, "anchor") /\ IsLink(x) /\ x > a
      BY <1>4, <3>4 DEF Linked
    <3>6. /\ a \in Within(w[k].of, "anchor")
          /\ x \in Within(w[k].of, "anchor") => (x < a => x <= o)
      BY <1>5, <3>4
    <3>7. x \in Within(w[k].of, "anchor") => (x > o <=> x = a \/ x > a)
      BY <1>0, <3>6
    <3> QED
      BY <1>0, <3>2, <3>3, <3>4, <3>5, <3>6, <3>7
  <2> QED
    BY <2>1, <2>2
<1>18. Lined(o)'
  <2>1. PICK v : v = u
    OBVIOUS
  <2>2. Linked(o, v)
    BY <1>17, <2>1 DEF Linked
  <2>3. Linked(o, v)'
    BY <2>2, SameText DEF Linked
  <2> QED
    BY <1>13, <1>15, <2>1, <2>3 DEF Lined, u
<1> QED
  BY <1>12, <1>18

LEMMA WordsJoined ==
    ASSUME Tree, Position, Nesting, Tokens, Lines, Written, doc' = doc,
           at # 0, doc[at].kind = "anchor",
           cursor' = cursor, DOMAIN extractors' = DOMAIN extractors \ {at},
           NEW a, a = at, NEW o, o = extractors[at].outer,
           NEW shown, NEW r, LineOf(r, extractors[a].b, a, shown),
           extractors'[o].b = extractors[o].b \o r,
           \A d \in DOMAIN extractors \ {a, o} : extractors'[d].b = extractors[d].b
    PROVE  Written'
<1> SUFFICES ASSUME NEW n \in 1..cursor, TextNode(n), NEW word \in Words(n)
             PROVE  \E d \in DOMAIN extractors' : \E i \in DOMAIN extractors'[d].b :
                       extractors'[d].b[i] = word
  BY SameText DEF Written
<1> DEFINE s == extractors[o].b
           w == extractors[a].b
           u == extractors'[o].b
<1>0. o \in DOMAIN extractors /\ o < a /\ a \in DOMAIN extractors /\ o \in Nat /\ a \in Nat
  BY InnermostLink, NestingTypes, PositionTypes
<1>1. /\ s \in Seq(TokenType) /\ u = s \o r /\ r \in Seq(TokenType)
      /\ \A k \in DOMAIN w :
            w[k] \notin {Newline, Space} => \E i \in DOMAIN r : r[i] = w[k]
  BY <1>0, NestingTypes DEF LineOf
<1>2. word \notin {Newline, Space}
  BY TokenTypes DEF Words
<1>3. PICK d \in DOMAIN extractors : \E i \in DOMAIN extractors[d].b : extractors[d].b[i] = word
  BY DEF Written
<1>4. d = a => \E i \in DOMAIN w : w[i] = word
  BY <1>3
<1>5. d = o => \E i \in DOMAIN s : s[i] = word
  BY <1>3
<1>6. o \in DOMAIN extractors'
  BY <1>0
<1>7. (\E i \in DOMAIN u : u[i] = word) =>
         \E c \in DOMAIN extractors' : \E i \in DOMAIN extractors'[c].b :
            extractors'[c].b[i] = word
  BY <1>6
<1> HIDE DEF s, w, u
<1>8. /\ \A i \in DOMAIN s : i \in DOMAIN u /\ u[i] = s[i]
      /\ \A i \in DOMAIN r : Len(s) + i \in DOMAIN u /\ u[Len(s) + i] = r[i]
  BY <1>1, ConcatPlaces
<1>9. CASE d = a
  <2>1. \E i \in DOMAIN r : r[i] = word
    BY <1>1, <1>2, <1>4, <1>9
  <2> QED
    BY <1>7, <1>8, <2>1
<1>10. CASE d = o
  BY <1>5, <1>7, <1>8, <1>10
<1>11. CASE d \notin {a, o}
  BY <1>3, <1>11
<1> QED
  BY <1>9, <1>10, <1>11

\* A link in the document's own text.  No block inside it sets paragraphs apart,
\* and those before it have been passed.
LEMMA LinkBreaks ==
    ASSUME Tree, Position, Nesting, Tokens, Lines, Breaks, doc' = doc,
           at # 0, doc[at].kind = "anchor", extractors[at].outer = 0,
           cursor' = cursor, Open' = Open \ {at},
           NEW a, a = at,
           NEW r, LineOf(r, extractors[a].b, a, doc[a].ref = "url"),
           extractors'[0].b = extractors[0].b \o r
    PROVE  Breaks'
<1> DEFINE s == extractors[0].b
           w == extractors[a].b
           In(d, n) == Inside(d, n, DOMAIN extractors, cursor)
<1>0. /\ 0 \in DOMAIN extractors /\ a \in DOMAIN extractors /\ a \in DOMAIN doc
      /\ a <= cursor /\ cursor \in Nat /\ DOMAIN doc \subseteq Nat
      /\ DOMAIN doc = 1..Len(doc) /\ Len(doc) \in Nat /\ cursor <= Len(doc)
      /\ Open = {0, a} \cup Ancestors(a)
  BY InnermostLink, NestingTypes, PositionTypes DEF Open
<1>1. \A i \in DOMAIN s : IsWord(s[i]) => s[i].of \in DOMAIN doc /\ s[i].of < a
  <2>1. \A i \in DOMAIN s : IsWord(s[i]) => s[i].of \in DOMAIN doc /\ In(0, s[i].of)
    BY <1>0, SourcedTokens
  <2> QED
    BY <1>0, <2>1 DEF Inside
<1>2. \A i \in DOMAIN w : IsWord(w[i]) => w[i].of \in DOMAIN doc /\ In(a, w[i].of)
  BY <1>0, SourcedTokens, NestingTypes
<1>3. /\ r \in Seq(TokenType)
      /\ \A i \in DOMAIN r : IsWord(r[i]) => \E k \in DOMAIN w : r[i] = w[k]
  BY DEF LineOf
<1>4. \A j \in DOMAIN r : IsWord(r[j]) => r[j].of \in DOMAIN doc /\ In(a, r[j].of)
  BY <1>2, <1>3
<1>5. ASSUME NEW n \in DOMAIN doc, In(a, n)
      PROVE  n > a /\ n <= cursor /\ a \in Ancestors(n)
  BY <1>5, InnerNodes DEF Within
<1>6. ASSUME NEW c \in DOMAIN doc, Separating(c), c <= cursor
      PROVE  c < a
  <2>1. c # a
    BY <1>6 DEF Separating
  <2>2. ASSUME c > a
        PROVE  FALSE
    <3>1. \A m \in a+1..c : doc[m].parent >= a
      BY <1>0, <1>6 DEF Position
    <3>2. a \in Within(c, "anchor")
      BY <1>0, <2>2, <3>1 DEF Within, Ancestors
    <3> QED
      BY <1>6, <3>2 DEF Separating
  <2> QED
    BY <1>0, <2>1, <2>2
<1>7. ASSUME NEW n \in DOMAIN doc, In(a, n), NEW c \in DOMAIN doc, Separating(c), c \in Ancestors(n)
      PROVE  c \in Ancestors(a)
  <2>1. c < n
    BY <1>7, AncestorsAreNodes
  <2>2. c <= cursor
    BY <1>0, <1>5, <1>7, <2>1
  <2>3. c < a
    BY <1>6, <1>7, <2>2
  <2> QED
    BY <1>5, <1>7, <2>3, AncestorsChain
<1>8. ASSUME NEW m \in DOMAIN doc, m < a, NEW n \in DOMAIN doc, In(a, n), BlockBetween(m, n)
      PROVE  \E c \in 1..cursor : Separating(c) /\ (m < c \/ c \in Ancestors(m) \ Open)
  <2>1. PICK c \in DOMAIN doc :
           Separating(c) /\ ((m < c /\ c < n) \/ c \in Ancestors(m) \ Ancestors(n))
    BY <1>8 DEF BlockBetween
  <2>2. CASE m < c /\ c < n
    <3>1. c \in 1..cursor
      BY <1>0, <1>5, <1>8, <2>2
    <3> QED
      BY <2>1, <2>2, <3>1
  <2>3. CASE c \in Ancestors(m) \ Ancestors(n)
    <3>1. c < m
      BY <1>8, <2>3, AncestorsAreNodes
    <3>2. c \in 1..cursor /\ c # a /\ c # 0
      BY <1>0, <1>8, <3>1
    <3>3. c \notin Ancestors(a)
      BY <1>5, <1>8, <2>3, AncestorsChain
    <3> QED
      BY <1>0, <2>1, <2>3, <3>2, <3>3
  <2> QED
    BY <2>1, <2>2, <2>3
<1>9. ASSUME NEW m \in DOMAIN doc, In(a, m), NEW n \in DOMAIN doc, In(a, n)
      PROVE  ~BlockBetween(m, n)
  <2> SUFFICES ASSUME NEW c \in DOMAIN doc, Separating(c),
                      (m < c /\ c < n) \/ c \in Ancestors(m) \ Ancestors(n)
               PROVE  FALSE
    BY DEF BlockBetween
  <2>1. CASE m < c /\ c < n
    <3>1. c <= cursor /\ c > a
      BY <1>0, <1>5, <1>9, <2>1
    <3> QED
      BY <1>0, <1>6, <3>1
  <2>2. CASE c \in Ancestors(m) \ Ancestors(n)
    <3>1. c \in Ancestors(a)
      BY <1>7, <1>9, <2>2
    <3>2. c \in Ancestors(n)
      BY <1>5, <1>9, <3>1, AncestorsChain
    <3> QED
      BY <2>2, <3>2
  <2> QED
    BY <2>1, <2>2
<1>10. ASSUME NEW n \in DOMAIN doc, In(a, n), NEW c \in 1..cursor, Separating(c)
       PROVE  ~(n < c) /\ c \notin Ancestors(n) \ Open'
  <2>0. c \in DOMAIN doc /\ c <= cursor
    BY <1>0
  <2>1. c < a
    BY <1>6, <1>10, <2>0
  <2>2. ~(n < c)
    BY <1>0, <1>5, <1>10, <2>0, <2>1
  <2>3. c \in Ancestors(n) => c \in Open'
    BY <1>0, <1>7, <1>10, <2>0, <2>1
  <2> QED
    BY <2>2, <2>3
<1>11. \A c \in 1..cursor' : Separating(c) => c <= cursor /\ (c \in Open => c \in Open')
  BY <1>0 DEF Separating
<1> HIDE DEF In, w
<1>12. Announced(s, r)
  BY <1>1, <1>4, <1>8 DEF Announced
<1>13. OneSection(r)
  BY <1>4, <1>9 DEF OneSection
<1>14. NothingSince(r, cursor', Open')
  BY <1>0, <1>4, <1>10 DEF NothingSince
<1>15. /\ cursor' \in Nat /\ cursor <= cursor' /\ r \in Seq(TokenType)
       /\ \A c \in 1..cursor' : Separating(c) =>
             \/ c <= cursor /\ (c \in Open => c \in Open')
             \/ \E k \in DOMAIN r : r[k] = Newline
  BY <1>0, <1>11 DEF LineOf
<1> HIDE DEF s
<1>16. s = extractors[0].b
  BY DEF s
<1> QED
  BY <1>12, <1>13, <1>14, <1>15, <1>16, BreaksAppended

LEMMA LeaveAnchorStep ==
    ASSUME Tree, WalkInv, Leave, LeaveAnchor
    PROVE  WalkInv'
<1> USE DEF WalkInv
<1>1. PICK a, o, r : a = at /\ o = extractors[at].outer /\ r = Rendered(a, extractors[a].b)
  OBVIOUS
<1>2. /\ doc' = doc /\ cursor' = cursor /\ at' = doc[at].parent /\ e' = o
      /\ at # 0 /\ doc[at].kind = "anchor" /\ NoNextChild
      /\ DOMAIN extractors' = DOMAIN extractors \ {a}
      /\ \A d \in DOMAIN extractors \ {a, o} : extractors'[d] = extractors[d]
      /\ o \in DOMAIN extractors \ {a} => extractors'[o] =
            [b |-> extractors[o].b \o r,
             candidates |-> extractors[o].candidates \o extractors[a].candidates,
             outer |-> extractors[o].outer]
  BY <1>1 DEF Leave, LeaveAnchor
<1>3. /\ o \in DOMAIN extractors /\ o < a /\ a \in DOMAIN extractors /\ cursor \in Nat
      /\ o \in Nat /\ a \in Nat /\ DOMAIN extractors \subseteq Nat
      /\ \A c \in DOMAIN extractors : c # a => c <= o
      /\ 0 \in DOMAIN extractors
  BY <1>1, <1>2, InnermostLink, NestingTypes, PositionTypes
<1>4. Position' /\ Open' = Open \ {a}
  BY <1>1, <1>2, WalkOut
<1>5. LineOf(r, extractors[a].b, a, doc[a].ref = "url")
  <2>1. extractors[a].b \in Seq(TokenType)
    BY <1>3, NestingTypes
  <2> QED
    BY <1>1, <1>3, <2>1, RenderedTokens
<1>6. /\ extractors'[o].b = extractors[o].b \o r
      /\ extractors'[o].candidates = extractors[o].candidates \o extractors[a].candidates
      /\ extractors'[o].outer = extractors[o].outer
      /\ extractors'[o] \in Extractor
  <2>1. /\ extractors[o].b \in Seq(TokenType) /\ r \in Seq(TokenType)
        /\ extractors[o].candidates \in Seq(CandidateType)
        /\ extractors[a].candidates \in Seq(CandidateType)
        /\ extractors[o].outer \in Nat
    BY <1>3, <1>5, NestingTypes DEF LineOf
  <2>2. /\ extractors[o].b \o r \in Seq(TokenType)
        /\ extractors[o].candidates \o extractors[a].candidates \in Seq(CandidateType)
    BY <2>1
  <2> DEFINE text == extractors[o].b \o r
             images == extractors[o].candidates \o extractors[a].candidates
  <2>3. extractors'[o] = [b |-> text, candidates |-> images, outer |-> extractors[o].outer]
    BY <1>2, <1>3
  <2>4. text \in Seq(TokenType) /\ images \in Seq(CandidateType)
    BY <2>2
  <2> HIDE DEF text, images
  <2>5. /\ extractors'[o].b = text /\ extractors'[o].candidates = images
        /\ extractors'[o].outer = extractors[o].outer /\ extractors'[o] \in Extractor
    BY <2>1, <2>3, <2>4 DEF Extractor
  <2> QED
    BY <2>5 DEF text, images
<1>7. Nesting'
  <2>1. DOMAIN extractors' = {d \in Open' : d = 0 \/ doc[d].kind = "anchor"}
    BY <1>2, <1>4 DEF Nesting
  <2>2. \A d \in DOMAIN extractors' :
           /\ d <= o /\ extractors'[d] \in Extractor
           /\ extractors'[d].outer = extractors[d].outer
    BY <1>2, <1>3, <1>6, NestingTypes
  <2>3. \A d \in DOMAIN extractors' \ {0} :
           /\ extractors'[d].outer \in DOMAIN extractors'
           /\ extractors'[d].outer < d
           /\ \A c \in DOMAIN extractors' : c < d => c <= extractors'[d].outer
    <3> SUFFICES ASSUME NEW d \in DOMAIN extractors' \ {0}
                 PROVE  /\ extractors[d].outer \in DOMAIN extractors'
                        /\ extractors[d].outer < d
                        /\ \A c \in DOMAIN extractors' : c < d => c <= extractors[d].outer
      BY <2>2
    <3>1. /\ extractors[d].outer \in DOMAIN extractors /\ extractors[d].outer < d
          /\ \A c \in DOMAIN extractors : c < d => c <= extractors[d].outer
      BY <1>2 DEF Nesting
    <3>2. extractors[d].outer # a
      BY <1>2, <1>3, <3>1
    <3> QED
      BY <1>2, <3>1, <3>2
  <2>4. e' = o /\ o \in DOMAIN extractors'
    BY <1>2, <1>3
  <2>5. {d \in Open' : d = 0 \/ doc[d].kind = "anchor"} =
           {d \in Open : d = 0 \/ doc[d].kind = "anchor"}'
    BY <1>2
  <2> QED
    BY <2>1, <2>2, <2>3, <2>4, <2>5 DEF Nesting
<1>8. Images'
  <2>1. \A d \in DOMAIN extractors \ {at, o} :
           extractors'[d].candidates = extractors[d].candidates
    BY <1>1, <1>2
  <2> QED
    BY <1>1, <1>2, <1>6, <2>1, ImagesJoined
<1>9. Tokens' /\ Lines'
  <2>1. Sourced(o)' /\ Lined(o)'
    BY <1>1, <1>2, <1>6, TextJoined
  <2>2. ASSUME NEW d \in DOMAIN extractors \ {a, o}
        PROVE  Sourced(d)' /\ Lined(d)'
    <3>1. extractors'[d].b = extractors[d].b /\ d \in DOMAIN extractors'
      BY <1>2
    <3> QED
      BY <1>2, <1>3, <3>1, TextKept
  <2> QED
    BY <1>2, <2>1, <2>2 DEF Tokens, Lines
<1>10. Written'
  <2>1. \A d \in DOMAIN extractors \ {a, o} : extractors'[d].b = extractors[d].b
    BY <1>2
  <2>2. /\ doc' = doc /\ at # 0 /\ doc[at].kind = "anchor" /\ cursor' = cursor
        /\ DOMAIN extractors' = DOMAIN extractors \ {at}
        /\ a = at /\ o = extractors[at].outer
    BY <1>1, <1>2
  <2>3. extractors'[o].b = extractors[o].b \o r
    BY <1>6
  <2>4. PICK shown : LineOf(r, extractors[a].b, a, shown)
    BY <1>5
  <2> QED
    BY <2>1, <2>2, <2>3, <2>4, WordsJoined
<1>11. Breaks'
  <2>1. CASE o = 0
    BY <1>1, <1>2, <1>4, <1>5, <1>6, <2>1, LinkBreaks
  <2>2. CASE o # 0
    <3>1. extractors'[0].b = extractors[0].b
      BY <1>2, <1>3, <2>2
    <3>2. \A c \in Open : c \in Open' \/ ~Separating(c)
      BY <1>1, <1>2, <1>4 DEF Separating
    <3>3. \A c \in cursor+1..cursor' : ~Separating(c)
      BY <1>2, <1>3
    <3> QED
      BY <1>2, <1>3, <3>1, <3>2, <3>3, BreaksKept
  <2> QED
    BY <2>1, <2>2
<1> QED
  BY <1>4, <1>7, <1>8, <1>9, <1>10, <1>11

-----------------------------------------------------------------------------
(* The beginning and the end of Extract.                                   *)

LEMMA ExtractStep ==
    ASSUME Tree, at = 0, cursor = 0, e = 0, Extract
    PROVE  WalkInv'
<1>0. /\ doc' = doc /\ at' = 0 /\ cursor' = 0 /\ e' = 0
      /\ extractors' = [d \in {0} |-> NewExtractor(0)]
  BY DEF Extract
<1>1. /\ DOMAIN extractors' = {0} /\ extractors'[0].b = <<>>
      /\ extractors'[0].candidates = <<>> /\ extractors'[0].outer = 0
      /\ extractors'[0] \in Extractor
  BY <1>0 DEF NewExtractor, Extractor
<1>2. Open' = {0}
  BY <1>0 DEF Open, Ancestors
<1>3. Len(doc) \in Nat
  BY TreeTypes
<1>4. Position'
  <2>1. \A n \in 1..Len(doc) : \A c \in Ancestors(n) : c > 0
    BY <1>3 DEF Ancestors
  <2> QED
    BY <1>0, <1>3, <2>1, SameTree DEF Position
<1>5. Nesting'
  BY <1>0, <1>1, <1>2 DEF Nesting
<1>6. Images'
  BY <1>0, <1>1 DEF Images, Collected
<1>7. Tokens' /\ Lines'
  <2>1. \A d \in DOMAIN extractors' : Sourced(d)' /\ Lined(d)'
    BY <1>1, TextOfNew
  <2> QED
    BY <2>1 DEF Tokens, Lines
<1>8. Written'
  BY <1>0 DEF Written
<1>9. Breaks'
  BY <1>1 DEF Breaks
<1> QED
  BY <1>4, <1>5, <1>6, <1>7, <1>8, <1>9 DEF WalkInv

\* At the end everything visible has been walked, and there is one extractor left.
LEMMA AllWalked ==
    ASSUME Tree, Position, Nesting, at = 0, NoNextChild
    PROVE  /\ DOMAIN extractors = {0}
           /\ \A n \in DOMAIN doc : Visible(n) => n \in 1..cursor
<1>1. Open = {0}
  BY DEF Open, Ancestors
<1>2. DOMAIN extractors = {0}
  BY <1>1 DEF Nesting
<1>3. ASSUME NEW n \in DOMAIN doc, Visible(n)
      PROVE  n \in 1..cursor
  BY <1>3, NothingLeft, PositionTypes
<1> QED
  BY <1>2, <1>3

LEMMA CandidatesReturned ==
    ASSUME Tree, WalkInv, ExtractReturn
    PROVE  CandidatesFollowDocument'
<1> USE DEF WalkInv
<1> DEFINE cs == extractors[0].candidates
           lines == RenderCandidates(Renumber(cs))
           LinkOf(n) == IF Nearest(n) = 0 \/ doc[Nearest(n)].ref = "" THEN NULL
                        ELSE Nearest(n)
<1>0. doc' = doc /\ extracted'.candidates = Renumber(cs) /\ at = 0 /\ NoNextChild
  BY DEF ExtractReturn
<1>1. DOMAIN extractors = {0} /\ \A n \in DOMAIN doc : Visible(n) => n \in 1..cursor
  BY <1>0, AllWalked
<1>2. cs \in Seq(CandidateType) /\ Collected(0)
  BY <1>1, NestingTypes DEF Images
<1>3. /\ \A i \in DOMAIN cs : /\ cs[i].src \in DOMAIN doc /\ FileImage(cs[i].src)
                              /\ cs[i].link = HrefAround(cs[i].src)
      /\ \A i, j \in DOMAIN cs : i < j => cs[i].src < cs[j].src
  BY <1>2 DEF Collected
<1>4. \A n \in DOMAIN doc : FileImage(n) => \E i \in DOMAIN cs : cs[i].src = n
  BY <1>1 DEF Images, FileImage
<1> HIDE DEF cs
<1>5. /\ DOMAIN lines = DOMAIN cs
      /\ \A i \in DOMAIN cs :
            /\ lines[i].index = i - 1 /\ lines[i].src = cs[i].src
            /\ lines[i].link = IF cs[i].link = 0 THEN NULL ELSE cs[i].link
  <2>1. /\ DOMAIN Renumber(cs) = DOMAIN cs
        /\ \A i \in DOMAIN cs :
              /\ Renumber(cs)[i].position = i - 1
              /\ Renumber(cs)[i].src = cs[i].src /\ Renumber(cs)[i].link = cs[i].link
    <3>1. \A i \in DOMAIN cs : cs[i] \in CandidateType
      BY <1>2
    <3> QED
      BY <3>1 DEF Renumber, CandidateType
  <2> QED
    BY <2>1 DEF RenderCandidates
<1>6. ASSUME NEW n \in DOMAIN doc
      PROVE  LinkOf(n) = IF HrefAround(n) = 0 THEN NULL ELSE HrefAround(n)
  BY DEF HrefAround
<1> HIDE DEF lines, LinkOf
<1>7. {lines[i].src : i \in DOMAIN lines} =
         {n \in DOMAIN doc : doc[n].kind = "image" /\ doc[n].ref = "file" /\ Visible(n)}
  <2>1. \A n \in DOMAIN doc :
           FileImage(n) <=> doc[n].kind = "image" /\ doc[n].ref = "file" /\ Visible(n)
    BY DEF FileImage
  <2> QED
    BY <1>3, <1>4, <1>5, <2>1
<1>8. \A i, j \in DOMAIN lines : i < j => lines[i].src < lines[j].src
  BY <1>3, <1>5
<1>9. \A i \in DOMAIN lines : lines[i].index = i - 1 /\ lines[i].link = LinkOf(lines[i].src)
  BY <1>3, <1>5, <1>6
<1>10. RenderCandidates(extracted.candidates)' = lines
  BY <1>0 DEF lines, RenderCandidates
<1> QED
  BY <1>0, <1>7, <1>8, <1>9, <1>10, SameTree, SameImages DEF CandidatesFollowDocument, LinkOf

\* A paragraph is a stretch of b without a line break, as long as it can be.
Stretch(b, line) ==
    /\ DOMAIN line \subseteq DOMAIN b
    /\ \A i \in DOMAIN line : line[i] = b[i]
    /\ \A i, j \in DOMAIN line : \A m \in i..j : b[m] # Newline
    /\ \A i \in DOMAIN line, j \in DOMAIN b :
          (\A m \in (i..j) \cup (j..i) : b[m] # Newline) => j \in DOMAIN line

LEMMA NormalizeStretches ==
    ASSUME NEW b \in Seq(TokenType)
    PROVE  /\ \A line \in Normalize(b) : Stretch(b, line)
           /\ \A i \in DOMAIN b : b[i] \notin {Newline, Space} =>
                 \E line \in Normalize(b) : i \in DOMAIN line
           /\ \A line \in Normalize(b) : line = [i \in DOMAIN line |-> b[i]]
<1> DEFINE Line(i) ==
              {k \in DOMAIN b : \A m \in (i..k) \cup (k..i) : b[m] # Newline}
<1>0. Len(b) \in Nat /\ DOMAIN b = 1..Len(b)
  OBVIOUS
<1>1. Normalize(b) = {[k \in Line(i) |-> b[k]] :
                         i \in {k \in DOMAIN b : b[k] \notin {Newline, Space}}}
  BY DEF Normalize, Restrict
<1>2. ASSUME NEW i \in DOMAIN b, b[i] \notin {Newline, Space}
      PROVE  i \in Line(i)
  BY <1>0, <1>2
<1>3. ASSUME NEW i \in DOMAIN b, NEW j \in Line(i), NEW k \in Line(i), NEW m \in j..k
      PROVE  b[m] # Newline
  <2>1. m \in i..k \/ m \in j..i
    BY <1>0
  <2> QED
    BY <1>0, <2>1
<1>4. ASSUME NEW i \in DOMAIN b, NEW k \in Line(i), NEW j \in DOMAIN b,
             \A m \in (k..j) \cup (j..k) : b[m] # Newline
      PROVE  j \in Line(i)
  <2> SUFFICES ASSUME NEW m \in (i..j) \cup (j..i)
               PROVE  b[m] # Newline
    OBVIOUS
  <2>1. m \in (i..k) \cup (k..i) \cup (k..j) \cup (j..k)
    BY <1>0
  <2> QED
    BY <1>4, <2>1
<1> HIDE DEF Line
<1>5. \A i : Line(i) \subseteq DOMAIN b
  BY DEF Line
<1>6. ASSUME NEW line \in Normalize(b)
      PROVE  /\ Stretch(b, line)
             /\ line = [i \in DOMAIN line |-> b[i]]
  <2>1. PICK i \in DOMAIN b : line = [k \in Line(i) |-> b[k]]
    BY <1>1
  <2>2. DOMAIN line = Line(i) /\ \A k \in Line(i) : line[k] = b[k]
    BY <2>1
  <2>3. Stretch(b, line)
    BY <1>3, <1>4, <1>5, <2>2 DEF Stretch
  <2> QED
    BY <2>1, <2>2, <2>3
<1>7. ASSUME NEW i \in DOMAIN b, b[i] \notin {Newline, Space}
      PROVE  \E line \in Normalize(b) : i \in DOMAIN line
  <2>1. [k \in Line(i) |-> b[k]] \in Normalize(b)
    BY <1>1, <1>7
  <2>2. i \in DOMAIN [k \in Line(i) |-> b[k]]
    BY <1>2, <1>7
  <2> QED
    BY <2>1, <2>2
<1> QED
  BY <1>6, <1>7

\* Paragraphs that share a place are the same.
LEMMA StretchesApart ==
    ASSUME NEW b \in Seq(TokenType), NEW line \in Normalize(b), NEW other \in Normalize(b),
           NEW i \in DOMAIN line, i \in DOMAIN other
    PROVE  line = other
<1>0. /\ Stretch(b, line) /\ Stretch(b, other)
      /\ line = [k \in DOMAIN line |-> b[k]] /\ other = [k \in DOMAIN other |-> b[k]]
  BY NormalizeStretches
<1>1. ASSUME NEW p, NEW q, Stretch(b, p), Stretch(b, q), i \in DOMAIN p, i \in DOMAIN q,
             NEW k \in DOMAIN p
      PROVE  k \in DOMAIN q
  <2>1. \A m \in (i..k) \cup (k..i) : b[m] # Newline
    BY <1>1 DEF Stretch
  <2>2. k \in DOMAIN b
    BY <1>1 DEF Stretch
  <2> QED
    BY <1>1, <2>1, <2>2 DEF Stretch
<1>2. DOMAIN line = DOMAIN other
  BY <1>0, <1>1
<1> QED
  BY <1>0, <1>2

LEMMA StretchAround ==
    ASSUME NEW b \in Seq(TokenType), Whole(b), NEW line, Stretch(b, line),
           NEW i \in DOMAIN line, NEW a
    PROVE  Around(line, i, a) <=> Around(b, i, a)
<1>0. DOMAIN b \subseteq Nat /\ DOMAIN line \subseteq DOMAIN b /\ \A k \in DOMAIN line : line[k] = b[k]
  BY DEF Stretch
<1>1. ASSUME Around(line, i, a)
      PROVE  Around(b, i, a)
  BY <1>0, <1>1 DEF Around
<1>2. ASSUME Around(b, i, a)
      PROVE  Around(line, i, a)
  <2>1. PICK j \in DOMAIN b, k \in DOMAIN b :
           j <= i /\ i <= k /\ b[j] = Token("open", a) /\ b[k] = Token("close", a)
    BY <1>2 DEF Around
  <2>2. \A m \in j..k : b[m] # Newline
    BY <2>1, TokenTypes DEF Whole
  <2>3. /\ \A m \in (i..j) \cup (j..i) : b[m] # Newline
        /\ \A m \in (i..k) \cup (k..i) : b[m] # Newline
    BY <1>0, <2>1, <2>2
  <2>4. j \in DOMAIN line /\ k \in DOMAIN line
    BY <2>3 DEF Stretch
  <2> QED
    BY <1>0, <2>1, <2>4 DEF Around
<1> QED
  BY <1>1, <1>2

LEMMA TextReturned ==
    ASSUME Tree, WalkInv, ExtractReturn
    PROVE  TextFollowsDocument'
<1> USE DEF WalkInv
<1> DEFINE b == extractors[0].b
           text == Normalize(b)
<1>0. doc' = doc /\ extracted'.text = text /\ at = 0 /\ NoNextChild
  BY DEF ExtractReturn
<1>1. DOMAIN extractors = {0} /\ \A n \in DOMAIN doc : Visible(n) => n \in 1..cursor
  BY <1>0, AllWalked
<1>2. /\ b \in Seq(TokenType) /\ Ordered(b) /\ Whole(b) /\ Linked(0, b)
      /\ \A i \in DOMAIN b : IsWord(b[i]) =>
            b[i].of \in DOMAIN doc /\ TextNode(b[i].of) /\ b[i] \in Words(b[i].of)
  BY <1>1, NestingTypes, SourcedTokens
<1>3. \A n \in DOMAIN doc : TextNode(n) => \A w \in Words(n) : \E i \in DOMAIN b : b[i] = w
  BY <1>1 DEF Written, TextNode
<1>4. DOMAIN doc \subseteq Nat \ {0}
  BY PositionTypes
<1> HIDE DEF b
<1>5. /\ \A line \in text : Stretch(b, line)
      /\ \A i \in DOMAIN b : b[i] \notin {Newline, Space} =>
            \E line \in text : i \in DOMAIN line
  BY <1>2, NormalizeStretches
<1>6. \A line, other \in text : \A i \in DOMAIN line :
         i \in DOMAIN other => line = other
  BY <1>2, StretchesApart
<1> HIDE DEF text
<1>7. ASSUME NEW n \in DOMAIN doc, doc[n].kind = "text" /\ Visible(n), NEW word \in Words(n)
      PROVE  \E line \in text : \E i \in DOMAIN line : line[i] = word
  <2>1. word \notin {Newline, Space}
    BY <1>4, TokenTypes DEF Words
  <2>2. PICK i \in DOMAIN b : b[i] = word
    BY <1>3, <1>7 DEF TextNode
  <2>3. PICK line \in text : i \in DOMAIN line
    BY <1>5, <2>1, <2>2
  <2> QED
    BY <1>5, <2>2, <2>3 DEF Stretch
<1>8. ASSUME NEW line \in text, NEW i \in DOMAIN line, IsWord(line[i])
      PROVE  LET n == line[i].of
             IN  /\ n \in DOMAIN doc /\ doc[n].kind = "text" /\ Visible(n)
                 /\ line[i] \in Words(n)
                 /\ \A a \in DOMAIN doc :
                       Around(line, i, a) <=> a \in Within(n, "anchor") /\ doc[a].ref = "url"
  <2>1. i \in DOMAIN b /\ line[i] = b[i] /\ Stretch(b, line)
    BY <1>5 DEF Stretch
  <2>2. b[i].of \in DOMAIN doc /\ TextNode(b[i].of) /\ b[i] \in Words(b[i].of)
    BY <1>2, <1>8, <2>1
  <2>3. ASSUME NEW a \in DOMAIN doc
        PROVE  Around(line, i, a) <=> a \in Within(b[i].of, "anchor") /\ doc[a].ref = "url"
    <3>1. Around(line, i, a) <=> Around(b, i, a)
      BY <1>2, <2>1, StretchAround
    <3>2. Around(b, i, a) <=> a \in Within(b[i].of, "anchor") /\ IsLink(a) /\ a > 0
      BY <1>2, <1>8, <2>1 DEF Linked
    <3>3. a > 0
      BY <1>4
    <3> QED
      BY <3>1, <3>2, <3>3 DEF IsLink, Within
  <2> QED
    BY <2>1, <2>2, <2>3 DEF TextNode
<1>9. ASSUME NEW line \in text, NEW other \in text, NEW i \in DOMAIN line, NEW j \in DOMAIN other,
             IsWord(line[i]), IsWord(other[j])
      PROVE  \/ i < j /\ Before(line[i], other[j])
             \/ j < i /\ Before(other[j], line[i])
             \/ i = j /\ line = other
  <2>1. i \in DOMAIN b /\ line[i] = b[i] /\ j \in DOMAIN b /\ other[j] = b[j]
    BY <1>5 DEF Stretch
  <2>2. i \in Nat /\ j \in Nat
    BY <1>2, <2>1
  <2>3. i < j => Before(b[i], b[j])
    BY <1>2, <1>9, <2>1 DEF Ordered
  <2>4. j < i => Before(b[j], b[i])
    BY <1>2, <1>9, <2>1 DEF Ordered
  <2>5. i = j => line = other
    BY <1>6
  <2> QED
    BY <2>1, <2>2, <2>3, <2>4, <2>5
<1> QED
  BY <1>0, <1>7, <1>8, <1>9, SameTree, SameText DEF TextFollowsDocument

LEMMA BlocksReturned ==
    ASSUME Tree, WalkInv, ExtractReturn
    PROVE  BlocksStayApart'
<1> USE DEF WalkInv
<1> DEFINE b == extractors[0].b
           text == Normalize(b)
<1>0. doc' = doc /\ extracted'.text = text
  BY DEF ExtractReturn
<1>1. b \in Seq(TokenType)
  BY NestingTypes
<1>2. \A i, j \in DOMAIN b : i < j /\ IsWord(b[i]) /\ IsWord(b[j]) =>
         (BlockBetween(b[i].of, b[j].of) => Broken(b, i, j))
  BY DEF Breaks
<1> HIDE DEF b
<1>3. \A line \in text : Stretch(b, line)
  BY <1>1, NormalizeStretches
<1> HIDE DEF text
<1>4. ASSUME NEW line \in text, NEW i \in DOMAIN line, NEW j \in DOMAIN line,
             i < j, IsWord(line[i]), IsWord(line[j])
      PROVE  ~BlockBetween(line[i].of, line[j].of)
  <2>1. /\ i \in DOMAIN b /\ line[i] = b[i] /\ j \in DOMAIN b /\ line[j] = b[j]
        /\ \A m \in i..j : b[m] # Newline
    BY <1>3 DEF Stretch
  <2>2. i \in Nat /\ j \in Nat
    BY <1>1, <2>1
  <2>3. ~Broken(b, i, j)
    BY <2>1, <2>2 DEF Broken
  <2> QED
    BY <1>2, <1>4, <2>1, <2>3
<1> QED
  BY <1>0, <1>4, SameBlocks DEF BlocksStayApart

-----------------------------------------------------------------------------
(* The whole.                                                              *)

\* Nothing is claimed of what Extract has not returned.
LEMMA NothingReturned ==
    ASSUME extracted' = NULL
    PROVE  CandidatesFollowDocument' /\ TextFollowsDocument' /\ BlocksStayApart'
BY DEF CandidatesFollowDocument, TextFollowsDocument, BlocksStayApart

LEMMA DocInitInv ==
    ASSUME DocInit
    PROVE  DocInv
<1>1. doc = <<>> /\ DOMAIN doc = {}
  BY DEF DocInit
<1>2. Tree
  BY <1>1 DEF Tree
<1>3. ~Walking
  BY DEF DocInit, Walking
<1>4. CandidatesFollowDocument /\ TextFollowsDocument /\ BlocksStayApart
  BY DEF DocInit, CandidatesFollowDocument, TextFollowsDocument, BlocksStayApart
<1> QED
  BY <1>2, <1>3, <1>4 DEF DocInv, DocInit

LEMMA WalkStep ==
    ASSUME Tree, WalkInv, NEW n \in DOMAIN doc, Walk(n)
    PROVE  WalkInv'
<1>1. CASE WalkText(n)
  BY <1>1, TextStep
<1>2. CASE WalkSkipped(n)
  BY <1>2, SkippedStep
<1>3. CASE WalkAnchor(n)
  BY <1>3, AnchorStep
<1>4. CASE WalkImage(n)
  BY <1>4, ImageStep
<1>5. CASE WalkBlock(n)
  BY <1>5, BlockStep
<1> QED
  BY <1>1, <1>2, <1>3, <1>4, <1>5 DEF Walk

LEMMA DocStepInv ==
    ASSUME DocInv, DocNext
    PROVE  DocInv'
<1>0. Tree /\ (Walking => WalkInv /\ extracted = NULL) /\ (~Walking => at = 0 /\ cursor = 0 /\ e = 0)
  BY DEF DocInv
<1>1. ASSUME NEW element \in Elements, NEW parent \in Parents(element), Parse(element, parent)
      PROVE  DocInv'
  <2>1. Tree'
    BY <1>0, <1>1, ParseTree
  <2>2. /\ extracted' = NULL /\ ~Walking /\ extractors' = extractors
        /\ at' = at /\ cursor' = cursor /\ e' = e
    BY <1>1 DEF Parse, walk_vars
  <2>3. ~Walking'
    BY <2>2 DEF Walking
  <2> QED
    BY <1>0, <2>1, <2>2, <2>3, NothingReturned DEF DocInv
<1>2. ASSUME Extract
      PROVE  DocInv'
  <2>1. /\ extracted' = NULL /\ ~Walking /\ doc' = doc
        /\ extractors' = [d \in {0} |-> NewExtractor(0)]
    BY <1>2 DEF Extract
  <2>2. WalkInv'
    BY <1>0, <1>2, <2>1, ExtractStep
  <2>3. Walking'
    BY <2>1 DEF Walking
  <2> QED
    BY <1>0, <2>1, <2>2, <2>3, SameTree, NothingReturned DEF DocInv
<1>3. ASSUME Walking, WalkInv', doc' = doc, extracted' = extracted
      PROVE  DocInv'
  <2>1. Walking'
    BY <1>3 DEF WalkInv, Nesting, Walking
  <2> QED
    BY <1>0, <1>3, <2>1, SameTree, NothingReturned DEF DocInv
<1>4. ASSUME NEW n \in DOMAIN doc, Walk(n)
      PROVE  DocInv'
  <2>1. Walking /\ doc' = doc /\ extracted' = extracted
    BY <1>4 DEF Walk
  <2>2. WalkInv'
    BY <1>0, <1>4, <2>1, WalkStep
  <2> QED
    BY <1>3, <2>1, <2>2
<1>5. ASSUME Leave
      PROVE  DocInv'
  <2>1. Walking /\ doc' = doc /\ extracted' = extracted
    BY <1>5 DEF Leave
  <2>2. CASE LeaveBlock
    BY <1>0, <1>3, <1>5, <2>1, <2>2, LeaveBlockStep
  <2>3. CASE LeaveAnchor
    BY <1>0, <1>3, <1>5, <2>1, <2>3, LeaveAnchorStep
  <2> QED
    BY <1>5, <2>2, <2>3 DEF Leave
<1>6. ASSUME ExtractReturn
      PROVE  DocInv'
  <2>1. /\ Walking /\ doc' = doc /\ at' = at /\ at = 0 /\ cursor' = 0 /\ e' = e
        /\ extractors' = <<>>
    BY <1>6 DEF ExtractReturn
  <2>2. e = 0
    BY <1>0, <2>1, NestingTypes, PositionTypes DEF WalkInv
  <2>3. ~Walking'
    BY <2>1 DEF Walking
  <2>4. CandidatesFollowDocument' /\ TextFollowsDocument' /\ BlocksStayApart'
    BY <1>0, <1>6, <2>1, CandidatesReturned, TextReturned, BlocksReturned
  <2> QED
    BY <1>0, <2>1, <2>2, <2>3, <2>4, SameTree DEF DocInv
<1> QED
  BY <1>1, <1>2, <1>4, <1>5, <1>6 DEF DocNext

LEMMA DocStutterInv ==
    ASSUME DocInv, UNCHANGED doc_vars
    PROVE  DocInv'
<1>0. /\ doc' = doc /\ at' = at /\ cursor' = cursor /\ e' = e
      /\ extractors' = extractors /\ extracted' = extracted
  BY DEF doc_vars, walk_vars
<1>1. CandidatesFollowDocument' <=> CandidatesFollowDocument
  BY <1>0 DEF CandidatesFollowDocument, RenderCandidates, Nearest, Within, Ancestors,
              Visible, Skipped
<1>2. TextFollowsDocument' <=> TextFollowsDocument
  BY <1>0, SameTree, SameText DEF TextFollowsDocument
<1>3. BlocksStayApart' <=> BlocksStayApart
  BY <1>0, SameBlocks DEF BlocksStayApart
<1>4. ASSUME Tree, WalkInv
      PROVE  WalkInv'
  <2> USE DEF WalkInv
  <2>1. /\ cursor \in Nat /\ DOMAIN extractors \subseteq Nat
        /\ 0 \in DOMAIN extractors
        /\ \A n \in cursor+1..cursor' : FALSE
    BY <1>0, <1>4, PositionTypes, NestingTypes
  <2>2. Open' = Open
    BY <1>0, SameTree DEF Open
  <2>3. Position'
    BY <1>0, <1>4, <2>2, SameTree DEF Position
  <2>4. Nesting'
    BY <1>0, <1>4, <2>2 DEF Nesting
  <2>5. Images'
    BY <1>0, <1>4, <2>1, ImagesKept
  <2>6. Tokens' /\ Lines' /\ Written'
    BY <1>0, <1>4, <2>1, NothingWritten
  <2>7. Breaks'
    BY <1>0, <1>4, <2>1, <2>2, BreaksKept
  <2> QED
    BY <2>3, <2>4, <2>5, <2>6, <2>7
<1>5. Walking' <=> Walking
  BY <1>0 DEF Walking
<1> QED
  BY <1>0, <1>1, <1>2, <1>3, <1>4, <1>5, SameTree DEF DocInv

\* The document is done with when it has gone into a prompt.
LEMMA NewDocumentInv ==
    ASSUME DocInv, extracted # NULL, doc' = <<>>, extracted' = NULL, UNCHANGED walk_vars
    PROVE  DocInv'
<1>1. ~Walking /\ at = 0 /\ cursor = 0 /\ e = 0
  BY DEF DocInv
<1>2. ~Walking' /\ at' = 0 /\ cursor' = 0 /\ e' = 0
  BY <1>1 DEF Walking, walk_vars
<1>3. Tree'
  <2>1. DOMAIN doc' = {} /\ doc' \in Seq(Node)
    OBVIOUS
  <2> QED
    BY <2>1 DEF Tree
<1> QED
  BY <1>2, <1>3, NothingReturned DEF DocInv
=============================================================================
