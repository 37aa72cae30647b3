------------------------------ MODULE Splitting ------------------------------
(***************************************************************************)
(* package ingest: how the two splitters cut a document, one line and one  *)
(* window per step.                                                        *)
(*                                                                         *)
(* Of the text only what the splitters look at is kept: a character is a   *)
(* space, a newline or something else ("x").  A line is a heading of some  *)
(* level or a text.  Headings are known by their line.                     *)
(***************************************************************************)
EXTENDS Naturals, Sequences, SequencesExt, FiniteSetsExt

CONSTANT SplitInputs    \* [splitter, lines, maxChars, overlap]

ASSUME SplitAssumption ==
    \A d \in SplitInputs :
        /\ d.splitter \in {"char", "markdown"}
        /\ d.maxChars \in Nat \ {0} /\ d.overlap \in Nat
        /\ d.lines \in Seq(Range(d.lines))
        /\ \A i \in DOMAIN d.lines :
              /\ d.lines[i].level \in Nat      \* 0: a text
              /\ d.lines[i].text \in Seq({" ", "\n", "x"})

VARIABLES
    document,
    stage,      \* "idle", "lines", "windows", "done"
    line,       \* the next line
    path,       \* the headings above it, the outermost first
    current,    \* the section being read
    sections,   \* the sections read
    section,    \* the section being cut
    start,      \* where its next window starts
    chunks      \* the chunks cut: [section, from, to]

splitVars == <<document, stage, line, path, current, sections, section, start, chunks>>

NoSection == [level |-> 0, path |-> <<>>, content |-> <<>>]

SplitInit ==
    /\ document = [splitter |-> "char", lines |-> <<>>, maxChars |-> 1, overlap |-> 0]
    /\ stage = "idle"
    /\ line = 1
    /\ path = <<>>
    /\ current = NoSection
    /\ sections = <<>>
    /\ section = 1
    /\ start = 1
    /\ chunks = <<>>

-----------------------------------------------------------------------------
\* strings.TrimSpace: the span of a text without blanks at its ends.
Blanks == {" ", "\n"}
Solid(text, from, to) == {i \in from..to : text[i] \notin Blanks}
Trim(text) ==
    LET solid == Solid(text, 1, Len(text))
    IN  IF solid = {} THEN <<>> ELSE SubSeq(text, Min(solid), Max(solid))

Line(l)      == IF l.level = 0 THEN l.text ELSE [i \in 1..l.level |-> "x"] \o <<" ", "x">>
Join(t, u)   == IF t = <<>> THEN u ELSE t \o <<"\n">> \o u
WholeText(d) ==
    LET text[n \in 0..Len(d.lines)] ==
            IF n = 0 THEN <<>> ELSE text[n - 1] \o <<"\n">> \o Line(d.lines[n])
    IN  Trim(text[Len(d.lines)])

\* A CharSplitter cuts the document as one section.
Split ==
    /\ stage = "idle"
    /\ \E d \in SplitInputs :
          /\ document' = d
          /\ IF WholeText(d) = <<>> THEN stage' = "done" /\ UNCHANGED sections
             ELSE IF d.splitter = "markdown" THEN stage' = "lines" /\ UNCHANGED sections
             ELSE stage' = "windows" /\ sections' = <<[NoSection EXCEPT !.content = WholeText(d)]>>
    /\ UNCHANGED <<line, path, current, section, start, chunks>>

\* Only a section with a content is kept.
Flushed ==
    IF Trim(current.content) = <<>> THEN sections
    ELSE Append(sections, [current EXCEPT !.content = Trim(@)])

\* What remains of the path above a heading: as many headings as levels.
Breadcrumb(level) == SubSeq(path, 1, Min({Len(path), level - 1}))

ReadLine ==
    /\ stage = "lines" /\ line <= Len(document.lines)
    /\ line' = line + 1
    /\ LET l == document.lines[line]
       IN  IF l.level > 0
           THEN /\ sections' = Flushed
                /\ path' = Append(Breadcrumb(l.level), line)
                /\ current' = [level |-> l.level, path |-> path', content |-> <<>>]
           ELSE /\ current' = [current EXCEPT !.content = Join(@, l.text)]
                /\ UNCHANGED <<sections, path>>
    /\ UNCHANGED <<document, stage, section, start, chunks>>

\* A document of headings only is cut like a plain text.
EndLines ==
    /\ stage = "lines" /\ line > Len(document.lines)
    /\ stage' = "windows"
    /\ sections' = IF Flushed = <<>> THEN <<[NoSection EXCEPT !.content = WholeText(document)]>>
                   ELSE Flushed
    /\ UNCHANGED <<document, line, path, current, section, start, chunks>>

-----------------------------------------------------------------------------
Content == sections[section].content
MaxChars == document.maxChars
Slack    == MaxChars + MaxChars \div 5
Overlap  == IF document.overlap >= MaxChars THEN MaxChars \div 2 ELSE document.overlap

ParagraphEnds(from, to) == {i \in from..(to - 1) : Content[i] = "\n" /\ Content[i + 1] = "\n"}
Spaces(from, to)        == {i \in from..to : Content[i] = " "}

\* Where the window ends: before its last paragraph break, if it has one; else
\* before its last space; else where it is full.
BreakAt ==
    LET breaks == ParagraphEnds(start, start + Slack - 1)
        spaces == Spaces(start + 1, start + MaxChars - 1)
    IN  IF breaks # {} THEN Max(breaks)
        ELSE IF spaces # {} THEN Max(spaces)
        ELSE start + MaxChars

\* Mutation of NextStart: two characters are skipped whatever they are.
NextStartSkips(at) == at + 2

\* A paragraph break is skipped.
NextStart(at) == IF at \in ParagraphEnds(at, Len(Content)) THEN at + 2 ELSE at

\* The windows overlap, and still each starts after the one before.
Advance(at) == IF NextStart(at) > start + Overlap THEN NextStart(at) - Overlap ELSE start + 1

\* The chunk of a window, if it is not blank.
Cut(from, to) ==
    LET solid == Solid(Content, from, to)
    IN  IF solid = {} THEN chunks
        ELSE Append(chunks, [section |-> section, from |-> Min(solid), to |-> Max(solid)])

\* One window of splitText; the last one takes all that fits with the slack.
Window ==
    /\ stage = "windows"
    /\ IF Len(Content) <= MaxChars \/ start - 1 + Slack >= Len(Content)
       THEN /\ chunks' = Cut(start, Len(Content))
            /\ start' = 1
            /\ section' = section + 1
            /\ stage' = IF section = Len(sections) THEN "done" ELSE "windows"
       ELSE /\ chunks' = Cut(start, BreakAt - 1)
            /\ IF Advance(BreakAt) > Len(Content)
               THEN /\ start' = 1
                    /\ section' = section + 1
                    /\ stage' = IF section = Len(sections) THEN "done" ELSE "windows"
               ELSE start' = Advance(BreakAt) /\ UNCHANGED <<section, stage>>
    /\ UNCHANGED <<document, line, path, current, sections>>

SplitStep == ReadLine \/ EndLines \/ Window
SplitNext == Split \/ SplitStep

-----------------------------------------------------------------------------
(***************************************************************************)
(* What is expected.                                                       *)
(***************************************************************************)
\* Splitting loses no text but blanks: every other character of a section is
\* in one of its chunks, and no chunk exceeds the size asked for by more than
\* a fifth.
NothingIsLost ==
    stage = "done" =>
        /\ \A s \in DOMAIN sections : \A i \in Solid(sections[s].content, 1, Len(sections[s].content)) :
              \E k \in DOMAIN chunks : chunks[k].section = s /\ i \in chunks[k].from..chunks[k].to
        /\ \A k \in DOMAIN chunks : chunks[k].to - chunks[k].from + 1 <= Slack

\* A document whose headings never skip a level: the path of a section is, for
\* each level down to its own, the last heading of that level.
BreadcrumbsAreAncestors ==
    LET Level(i) == document.lines[i].level
        Heads    == {i \in DOMAIN document.lines : Level(i) > 0}
        Before(i) == {j \in Heads : j < i}
        NoSkip   == \A i \in Heads : Level(i) <= 1 + (IF Before(i) = {} THEN 0 ELSE Level(Max(Before(i))))
    IN  (stage = "done" /\ NoSkip) =>
           \A s \in DOMAIN sections :
              LET at == sections[s].path
              IN  /\ Len(at) = sections[s].level
                  /\ \A k \in DOMAIN at : at[k] = Max({i \in Heads : i <= Last(at) /\ Level(i) = k})

\* Both, of one document: its chunks give back its text, each under the
\* headings it stood under.
ChunksKeepTheDocument == NothingIsLost /\ BreadcrumbsAreAncestors
=============================================================================
