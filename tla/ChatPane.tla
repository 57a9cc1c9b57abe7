-------------------------------- MODULE ChatPane --------------------------------
(***************************************************************************)
(* What the user sees and types in features/chat/ChatPage.tsx: the         *)
(* composer, the rows of the conversation with the marks [n] of an answer  *)
(* and the source each one opens, and the sidebar's two dialogs.  Which    *)
(* answers the service gives, and how the tab comes to have them, is       *)
(* ChatPage; here a call is served and its answer shown in one step.       *)
(*                                                                         *)
(* A text is a token.  The width of the sidebar, wording, the layout of    *)
(* Markdown and how long ago a conversation was changed are left out.      *)
(***************************************************************************)
EXTENDS Naturals, Sequences, FiniteSets, SequencesExt

CONSTANTS
    Talks,      \* conversation ids
    MaxMarks,   \* bound: the marks an answer holds
    MaxSources, \* bound: the sources found for a question, and the highest mark
    MaxDeeds    \* bound: what the user, or another tab, does

VARIABLES
    titles,   \* the service's conversations, by their titles
    rows,     \* the service's messages
    sessions, \* sessions
    current,  \* sessionId
    draft,    \* input, and the conversation it was typed for
    sent,     \* the call of onSubmit under way
    naming,   \* renameId and renameVal
    leaving,  \* deleteId
    deeds,    \* calls of the sidebar under way
    drifted,  \* history: the list moved the page to another conversation under a draft
    strokes   \* what the user has done so far

chatVars == <<titles, rows, sessions, current, draft, sent, naming, leaving, deeds, drifted,
              strokes>>

--------------------------------------------------------------------------------
Nobody == "nobody"
Listed == DOMAIN titles
Blank == [text |-> FALSE, for |-> Nobody]
Unsent == [step |-> "none", talk |-> Nobody, first |-> FALSE, note |-> FALSE]
Closed == [talk |-> Nobody, title |-> "none"]

ChatPaneInit ==
    /\ \E there \in SUBSET Talks : titles = [c \in there |-> "new"]
    /\ rows = [c \in Talks |-> <<>>]
    /\ sessions = {}
    /\ current = Nobody
    /\ draft = Blank
    /\ sent = Unsent
    /\ naming = Closed
    /\ leaving = Nobody
    /\ deeds = {}
    /\ drifted = FALSE
    /\ strokes = 0

\* Spends one of the bound.
Stroke == strokes < MaxDeeds /\ strokes' = strokes + 1

\* The list callback: the selected conversation if it is listed, else the first.
Listens(there) ==
    /\ sessions' = there
    /\ IF current \in there THEN current' = current
       ELSE IF there = {} THEN current' = Nobody
       ELSE current' \in there
    /\ drifted' = (drifted \/ (draft.text /\ current' # current))

Refresh ==
    /\ sessions # Listed \/ (current = Nobody /\ Listed # {})
    /\ Listens(Listed)
    /\ UNCHANGED <<titles, rows, draft, sent, naming, leaving, deeds, strokes>>

\* Another tab deletes a conversation.
Elsewhere(c) ==
    /\ c \in Listed
    /\ Stroke
    /\ titles' = [d \in Listed \ {c} |-> titles[d]]
    /\ UNCHANGED <<rows, sessions, current, draft, sent, naming, leaving, deeds, drifted>>

--------------------------------------------------------------------------------
(* The composer. *)

Modal == naming # Closed \/ leaving # Nobody

Type ==
    /\ ~Modal /\ ~draft.text
    /\ Stroke
    /\ draft' = [text |-> TRUE, for |-> current]
    /\ UNCHANGED <<titles, rows, sessions, current, sent, naming, leaving, deeds, drifted>>

\* A row says something and, if it is an answer, has marks and sources.
ShownRow(role, says, marks, cites) == [role |-> role, says |-> says, marks |-> marks, cites |-> cites]

\* onSubmit: the composer is empty at once; without a conversation one is made first.
Submit ==
    /\ ~Modal /\ draft.text /\ sent = Unsent
    /\ Stroke
    /\ draft' = Blank
    /\ sent' = [step |-> IF current = Nobody THEN "create" ELSE "ask", talk |-> current,
                first |-> current = Nobody \/ rows[current] = <<>>, note |-> current # Nobody]
    /\ UNCHANGED <<titles, rows, sessions, current, naming, leaving, deeds, drifted>>

SubmitCreated(c) ==
    /\ sent.step = "create" /\ c \notin Listed
    /\ titles' = [d \in Listed \cup {c} |-> IF d = c THEN "new" ELSE titles[d]]
    /\ rows' = [rows EXCEPT ![c] = <<>>]
    /\ sessions' = sessions \cup {c}
    /\ current' = c
    /\ drifted' = (drifted \/ (draft.text /\ draft.for # Nobody))
    /\ sent' = [sent EXCEPT !.step = "ask", !.talk = c]
    /\ UNCHANGED <<draft, naming, leaving, deeds, strokes>>

AppendRow(c, row) == rows' = [rows EXCEPT ![c] = Append(@, row)]

Asked ==
    /\ sent.step = "ask" /\ sent.talk \in Listed
    /\ AppendRow(sent.talk, ShownRow("user", "text", {}, <<>>))
    /\ sent' = [sent EXCEPT !.step = "chat"]
    /\ UNCHANGED <<titles, sessions, current, draft, naming, leaving, deeds, drifted, strokes>>

\* A text with marks [n], some of them in code; some of no source there is.
Texts == {t \in SUBSET [n : 0..MaxSources, code : BOOLEAN] : Cardinality(t) <= MaxMarks}

\* linkifyCitationsMarkdown: marks in code are no links.
Linked(text) == {mark.n : mark \in {m \in text : ~m.code}}

\* contracts_router: sources are numbered from 1, and those the answer does not mark are dropped;
\* the others stay in the order of their numbers.
Numbers(text) == {mark.n : mark \in text}
Cited(text, n) ==
    LET kept == Numbers(text) \cap 1..n
        rank(m) == Cardinality(kept \cap 1..m)
    IN [i \in 1..Cardinality(kept) |-> CHOOSE m \in kept : rank(m) = i]

Answer(text, n) ==
    /\ sent.step = "chat" /\ sent.talk \in Listed
    /\ AppendRow(sent.talk, ShownRow("assistant", "text", Linked(text), Cited(text, n)))
    /\ sent' = IF sent.first THEN [sent EXCEPT !.step = "title"] ELSE Unsent
    /\ UNCHANGED <<titles, sessions, current, draft, naming, leaving, deeds, drifted, strokes>>

\* The first question gives the conversation its title.
Titled ==
    /\ sent.step = "title" /\ sent.talk \in Listed
    /\ titles' = [titles EXCEPT ![sent.talk] = "first words"]
    /\ Listens(sessions \cup {sent.talk})
    /\ sent' = Unsent
    /\ UNCHANGED <<rows, draft, naming, leaving, deeds, strokes>>

\* Mutation of Source: the place in the list, as before sources were numbered.
SourceByPlace(n, cites) == IF n \in DOMAIN cites THEN cites[n] ELSE 0

\* pickCitationByIndex: the source of that number, else the one in that place; 0 for none.
Source(n, cites) ==
    IF n = 0 THEN 0
    ELSE IF Contains(cites, n) THEN n
    ELSE IF n \in DOMAIN cites THEN cites[n]
    ELSE 0

\* CitationPopover: what a mark of a row opens.
Opens(row, n) == Source(n, row.cites)

\* A refused question leaves a card with the limits, and a failed one its error, where a
\* conversation was selected at the submit and is still there, unless that fails too.
Fail(says) ==
    /\ sent # Unsent
    /\ says = "limit" => sent.step = "chat"
    /\ \/ sent.note /\ sent.talk \in Listed
             /\ AppendRow(sent.talk, ShownRow("system", says, {}, <<>>))
       \/ UNCHANGED rows
    /\ sent' = Unsent
    /\ UNCHANGED <<titles, sessions, current, draft, naming, leaving, deeds, drifted, strokes>>

--------------------------------------------------------------------------------
(* The sidebar: its dialogs do not know that a call is under way. *)

Switch(c) ==
    /\ ~Modal /\ c \in sessions \ {current}
    /\ Stroke
    /\ current' = c
    /\ draft' = Blank
    /\ UNCHANGED <<titles, rows, sessions, sent, naming, leaving, deeds, drifted>>

Starts(does, c, title) ==
    /\ Stroke
    /\ deeds' = deeds \cup {[does |-> does, talk |-> c, title |-> title]}
    /\ UNCHANGED <<titles, rows, sessions, current, draft, sent, naming, leaving, drifted>>

NewChat == ~Modal /\ Starts("new", Nobody, "new")

OpenRename(c) ==
    /\ ~Modal /\ c \in sessions
    /\ naming' = [talk |-> c, title |-> IF c \in Listed THEN titles[c] ELSE "new"]
    /\ UNCHANGED <<titles, rows, sessions, current, draft, sent, leaving, deeds, drifted, strokes>>

TypeTitle ==
    /\ naming # Closed /\ naming.title # "typed"
    /\ naming' = [naming EXCEPT !.title = "typed"]
    /\ UNCHANGED <<titles, rows, sessions, current, draft, sent, leaving, deeds, drifted, strokes>>

OpenDelete(c) ==
    /\ ~Modal /\ c \in sessions
    /\ leaving' = c
    /\ UNCHANGED <<titles, rows, sessions, current, draft, sent, naming, deeds, drifted, strokes>>

Cancel ==
    /\ Modal
    /\ naming' = Closed /\ leaving' = Nobody
    /\ UNCHANGED <<titles, rows, sessions, current, draft, sent, deeds, drifted, strokes>>

SaveTitle == naming # Closed /\ Starts("rename", naming.talk, naming.title)
ConfirmDelete == leaving # Nobody /\ Starts("delete", leaving, "none")

\* startNewSearch goes to the new conversation and empties the composer, whatever was typed
\* or selected meanwhile.
Created(d, c) ==
    /\ d \in deeds /\ d.does = "new" /\ c \notin Listed
    /\ titles' = [e \in Listed \cup {c} |-> IF e = c THEN "new" ELSE titles[e]]
    /\ rows' = [rows EXCEPT ![c] = <<>>]
    /\ sessions' = sessions \cup {c}
    /\ current' = c
    /\ draft' = Blank
    /\ deeds' = deeds \ {d}
    /\ UNCHANGED <<sent, naming, leaving, drifted, strokes>>

\* A finished rename or deletion closes the dialog of its kind, another conversation's too.
Renamed(d) ==
    /\ d \in deeds /\ d.does = "rename" /\ d.talk \in Listed
    /\ titles' = [titles EXCEPT ![d.talk] = d.title]
    /\ Listens(sessions \cup {d.talk})
    /\ naming' = Closed
    /\ deeds' = deeds \ {d}
    /\ UNCHANGED <<rows, draft, sent, leaving, strokes>>

Deleted(d) ==
    /\ d \in deeds /\ d.does = "delete" /\ d.talk \in Listed
    /\ titles' = [c \in Listed \ {d.talk} |-> titles[c]]
    /\ Listens(sessions \ {d.talk})
    /\ leaving' = Nobody
    /\ deeds' = deeds \ {d}
    /\ UNCHANGED <<rows, draft, sent, naming, strokes>>

\* A failed call is not caught: the dialog stays.
Dropped(d) ==
    /\ d \in deeds
    /\ deeds' = deeds \ {d}
    /\ UNCHANGED <<titles, rows, sessions, current, draft, sent, naming, leaving, drifted,
                   strokes>>

--------------------------------------------------------------------------------
Composing ==
    \/ Type \/ Submit \/ Asked \/ Titled
    \/ \E c \in Talks : SubmitCreated(c)
    \/ \E text \in Texts, n \in 0..MaxSources : Answer(text, n)
    \/ \E says \in {"limit", "text"} : Fail(says)

Sidebar ==
    \/ \E c \in Talks : Switch(c) \/ OpenRename(c) \/ OpenDelete(c)
    \/ NewChat \/ TypeTitle \/ Cancel \/ SaveTitle \/ ConfirmDelete
    \/ \E d \in deeds : Renamed(d) \/ Deleted(d) \/ Dropped(d) \/ \E c \in Talks : Created(d, c)

ChatPaneNext == Refresh \/ (\E c \in Talks : Elsewhere(c)) \/ Composing \/ Sidebar

--------------------------------------------------------------------------------
(* Properties. *)

\* The mark [n] of an answer opens source n or none at all: dropping the sources an answer
\* does not mark (contracts_router.py) and falling back to a place in the list
\* (pickCitationByIndex) never show the text of another source.
MarkOpensItsSource ==
    \A c \in Talks : \A i \in DOMAIN rows[c] : \A n \in rows[c][i].marks :
        Opens(rows[c][i], n) \in {0, n}

\* A text is sent to the conversation it was typed for: whatever calls end and lists arrive,
\* the composer holds no text typed for another one (unless the list has moved the page).
DraftStays == draft.text /\ ~drifted => draft.for \in {current, Nobody}
================================================================================
