------------------------------- MODULE RichEditor -------------------------------
(***************************************************************************)
(* The editor of an output (features/workflows/components/                 *)
(* MarkdownRichEditor.tsx): markdown becomes blocks to edit, and every     *)
(* keystroke and every loss of focus makes markdown of the blocks again.   *)
(*                                                                         *)
(* A document is a sequence of lines, a line a kind and the word it bears  *)
(* (0 for none); the marks inside a line are left out.  execCommand, which *)
(* turns a paragraph into a heading and back, is the browser's.            *)
(***************************************************************************)
EXTENDS Integers, SequencesExt

CONSTANTS
    Kinds,     \* kinds of line a document is made of, among LineKinds
    MaxLines,  \* lines of a document
    MaxVisits, \* times the editor is left
    MaxHeads   \* headings made or unmade

VARIABLES
    origin,  \* the document handed to the editor
    value,   \* the document its owner keeps (the prop value)
    blocks,  \* the blocks on the page (editor.innerHTML)
    emitted, \* lastEmittedMarkdownRef
    focused, visits, heads

editorVars == <<origin, value, blocks, emitted, focused, visits, heads>>

\* "rule" is the divider of a table.
LineKinds == {"blank", "text", "head", "bullet", "number", "quote", "fence", "cell", "rule"}
Wordless == {"blank", "fence", "rule"}
Tabular == {"cell", "rule"}
ListKinds == {"bullet", "number"}

Line(k, i) == [kind |-> k, word |-> IF k \in Wordless THEN 0 ELSE i]
AllDocuments == {[i \in DOMAIN s |-> Line(s[i], i)] : s \in UNION {[1..n -> Kinds] : n \in 1..MaxLines}}

--------------------------------------------------------------------------------
(* markdownToEditableHtml: the blocks so far (done), and the groups that are open. *)

Block(tag, lines) == [tag |-> tag, lines |-> lines]
Pushed(done, tag, lines) == IF lines = <<>> THEN done ELSE Append(done, Block(tag, lines))

Start == [done |-> <<>>, p |-> <<>>, ul |-> <<>>, ol |-> <<>>, quote |-> <<>>, mode |-> "flow", held |-> <<>>]

FlushParagraph(s) == [s EXCEPT !.done = Pushed(@, "p", s.p), !.p = <<>>]
FlushList(s) == [s EXCEPT !.done = Pushed(Pushed(@, "ul", s.ul), "ol", s.ol), !.ul = <<>>, !.ol = <<>>]
FlushQuote(s) == [s EXCEPT !.done = Pushed(@, "quote", s.quote), !.quote = <<>>]
FlushAll(s) == FlushQuote(FlushList(FlushParagraph(s)))

\* The block of a fence or of a table, which ends.
Closed(s) ==
    [s EXCEPT !.mode = "flow", !.held = <<>>,
              !.done = IF s.mode = "flow" THEN @ ELSE Append(@, Block(s.mode, s.held))]

Opened(s, mode, held) == [FlushAll(s) EXCEPT !.mode = mode, !.held = held]

\* Mutation of Headed: an open list is not flushed before the heading.
HeadedEarly(s, l) == LET f == FlushQuote(FlushParagraph(s)) IN [f EXCEPT !.done = Append(@, Block("h", <<l>>))]
Headed(s, l) == LET f == FlushAll(s) IN [f EXCEPT !.done = Append(@, Block("h", <<l>>))]

\* An item drops the items of the other kind of list: they are in no block.
Item(s, l) ==
    LET f == FlushQuote(FlushParagraph(s))
    IN IF l.kind = "bullet" THEN [f EXCEPT !.ol = <<>>, !.ul = Append(@, l)]
       ELSE [f EXCEPT !.ul = <<>>, !.ol = Append(@, l)]

Flow(s, doc, i) ==
    LET l == doc[i]
    IN CASE l.kind = "fence" -> Opened(s, "pre", <<>>)
         [] l.kind = "blank" -> FlushAll(s)
         [] l.kind \in Tabular /\ i < Len(doc) /\ doc[i + 1].kind = "rule" -> Opened(s, "table", <<l>>)
         [] l.kind = "head" -> Headed(s, l)
         [] l.kind \in ListKinds -> Item(s, l)
         [] l.kind = "quote" -> [FlushList(FlushParagraph(s)) EXCEPT !.quote = Append(@, l)]
         [] OTHER -> [FlushQuote(FlushList(s)) EXCEPT !.p = Append(@, l)]

\* A table goes on while its lines have cells; a fence, until the next one.
Step(s, doc, i) ==
    CASE s.mode = "pre" /\ doc[i].kind = "fence" -> Closed(s)
      [] s.mode = "pre" \/ (s.mode = "table" /\ doc[i].kind \in Tabular) -> [s EXCEPT !.held = Append(@, doc[i])]
      [] OTHER -> Flow(Closed(s), doc, i)

Indices(s) == [i \in 1..Len(s) |-> i]
ToBlocks(doc) == FlushAll(Closed(FoldLeft(LAMBDA s, i : Step(s, doc, i), Start, Indices(doc)))).done

--------------------------------------------------------------------------------
(* editableHtmlToMarkdown. *)

Blank == Line("blank", 0)

\* A blank line that ends the code is lost; code of no line is one blank line.
Code(lines) ==
    LET kept == IF Len(lines) > 1 /\ lines[Len(lines)] = Blank THEN Front(lines) ELSE lines
    IN <<Line("fence", 0)>> \o (IF kept = <<>> THEN <<Blank>> ELSE kept) \o <<Line("fence", 0)>>

BlockMarkdown(b) == IF b.tag = "pre" THEN Code(b.lines) ELSE b.lines

\* Runs of blank lines shrink to one, in code as well.
Shrunk(lines) ==
    LET at == SelectSeq(Indices(lines), LAMBDA i : i = 1 \/ lines[i] # Blank \/ lines[i - 1] # Blank)
    IN [k \in DOMAIN at |-> lines[at[k]]]

ToLines(bs) ==
    Shrunk(FoldLeft(LAMBDA lines, b : IF lines = <<>> THEN BlockMarkdown(b) ELSE lines \o <<Blank>> \o BlockMarkdown(b),
                    <<>>, bs))

--------------------------------------------------------------------------------
(* The component. *)

EditorInit ==
    /\ origin \in AllDocuments
    /\ value = origin /\ emitted = origin /\ blocks = ToBlocks(origin)
    /\ focused = FALSE /\ visits = 0 /\ heads = 0

\* The effect of value runs when it changes: an editor with the focus keeps the
\* blocks its own markdown came from, any other is made anew.
Takes(now, bs) == blocks' = IF now # value /\ ~focused' THEN ToBlocks(now) ELSE bs

\* emitChange, of an editor whose blocks are bs.
Emit(bs) ==
    /\ value' = ToLines(bs) /\ emitted' = ToLines(bs)
    /\ Takes(ToLines(bs), bs)
    /\ UNCHANGED origin

Focus ==
    /\ ~focused /\ visits < MaxVisits
    /\ focused' = TRUE
    /\ UNCHANGED <<origin, value, blocks, emitted, visits, heads>>

Blur ==
    /\ focused /\ focused' = FALSE
    /\ visits' = visits + 1
    /\ Emit(blocks)
    /\ UNCHANGED heads

\* applyBlock on a paragraph of plain text, or on a heading, which it unmakes.
Toggled(b) ==
    IF b.tag = "h" THEN Block("p", [b.lines EXCEPT ![1].kind = "text"])
    ELSE Block("h", [b.lines EXCEPT ![1].kind = "head"])

ApplyBlock(i) ==
    /\ heads < MaxHeads /\ heads' = heads + 1
    /\ \/ blocks[i].tag = "h"
       \/ blocks[i].tag = "p" /\ \A j \in DOMAIN blocks[i].lines : blocks[i].lines[j].kind = "text"
    /\ focused' = TRUE
    /\ Emit([blocks EXCEPT ![i] = Toggled(@)])
    /\ UNCHANGED visits

\* Another mount of the editor: the document was closed and opened again.
Reopen ==
    /\ ~focused /\ visits > 0 /\ visits < MaxVisits
    /\ blocks' = ToBlocks(value) /\ emitted' = value
    /\ UNCHANGED <<origin, value, focused, visits, heads>>

EditorNext == Focus \/ Blur \/ Reopen \/ \E i \in DOMAIN blocks : ApplyBlock(i)

--------------------------------------------------------------------------------
WordsOf(lines) == SelectSeq([i \in DOMAIN lines |-> lines[i].word], LAMBDA w : w # 0)

InFence(doc, i) == Cardinality({j \in 1..(i - 1) : doc[j].kind = "fence"}) % 2 = 1

\* An item of a list that goes on with items of the other kind.
Switched(doc, i) ==
    /\ doc[i].kind \in ListKinds /\ ~InFence(doc, i)
    /\ \E j \in (i + 1)..Len(doc) : doc[j].kind # doc[i].kind /\ \A k \in i..j : doc[k].kind \in ListKinds

Survivors(doc) == WordsOf([i \in DOMAIN doc |-> IF Switched(doc, i) THEN [doc[i] EXCEPT !.word = 0] ELSE doc[i]])

\* Code that ends with blank lines loses one of them at every visit.
TrailingBlanks(doc) ==
    \E i \in 2..Len(doc) : doc[i] = Blank /\ doc[i - 1] = Blank /\ InFence(doc, i) /\ (i = Len(doc) \/ doc[i + 1].kind = "fence")

\* Through any number of conversions and headings the editor keeps every word of
\* a document, in its order, but for the items of a list that switches between
\* bullets and numbers without a blank line, which it drops.  And looking changes
\* nothing: once the editor was left, opening and leaving it again without an
\* edit emits the document its owner has.  (A heading made of a paragraph of
\* several lines does become other blocks when the document is opened again.)
DocumentKept ==
    /\ WordsOf(ToLines(blocks)) = Survivors(origin)
    /\ visits > 0 /\ heads = 0 /\ ~TrailingBlanks(origin) =>
           ToLines(blocks) = value /\ ToLines(ToBlocks(value)) = value
================================================================================
