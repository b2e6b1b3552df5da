----------------------------- MODULE ForkReport -----------------------------
\* How the run loop of forkService.spawnFork turns a fork's transcript into the
\* report it posts to main.  A transcript is a sequence of tokens: the two tags
\* of the fork's system prompt, the line break, and ordinary words.  The two
\* regular expressions
\*
\*   /\[FORK_REPORT\][^\n]*([\s\S]*?)(?:\[NEXT_STEP\]|$)/i
\*   /\[NEXT_STEP\][^\n]*([\s\S]*?)$/i
\*
\* are modelled by what they match: the leftmost tag, greedily the rest of its
\* line, and as group 1 whatever follows.
EXTENDS Integers, Sequences, FiniteSets

CONSTANT Word      \* the ordinary words

ReportTag == "[FORK_REPORT]"
NextTag   == "[NEXT_STEP]"
Newline   == "\n"

Token == {ReportTag, NextTag, Newline} \union Word

Transcripts == Seq(Token)

-----------------------------------------------------------------------------

Positions(t, tok) == {i \in 1 .. Len(t) : t[i] = tok}

\* The first position of tok at or after `from`, or `default` when there is none.
FirstFrom(t, tok, from, default) ==
  LET P == {i \in Positions(t, tok) : i >= from}
  IN  IF P = {} THEN default ELSE CHOOSE i \in P : \A j \in P : i <= j

\* String.prototype.trim: white space (here: line breaks) at both ends goes.
Trim(t) ==
  LET P == {i \in 1 .. Len(t) : t[i] # Newline}
  IN  IF P = {} THEN <<>>
      ELSE SubSeq(t, CHOOSE i \in P : \A j \in P : i <= j,
                     CHOOSE i \in P : \A j \in P : i >= j)

\* Mutant: a greedy group takes the text up to the end, the next step included.
ReportGreedy(t) ==
  LET tag == FirstFrom(t, ReportTag, 1, 0)
      eol == FirstFrom(t, Newline, tag, Len(t) + 1)
  IN  IF tag = 0 THEN <<>> ELSE Trim(SubSeq(t, eol, Len(t)))

\* reportMatch[1].trim(); <<>> stands for "no match" and for the empty
\* string alike, both of which the code treats as "no report".
Report(t) ==
  LET tag  == FirstFrom(t, ReportTag, 1, 0)
      eol  == FirstFrom(t, Newline, tag, Len(t) + 1)
      stop == FirstFrom(t, NextTag, eol, Len(t) + 1)
  IN  IF tag = 0 THEN <<>> ELSE Trim(SubSeq(t, eol, stop - 1))

\* nextMatch[1].trim()
NextStep(t) ==
  LET tag == FirstFrom(t, NextTag, 1, 0)
      eol == FirstFrom(t, Newline, tag, Len(t) + 1)
  IN  IF tag = 0 THEN <<>> ELSE Trim(SubSeq(t, eol, Len(t)))

-----------------------------------------------------------------------------
(* The reference: what the fork's system prompt asks for,                  *)
(* "[FORK_REPORT] <one-paragraph summary>" and then, optionally,           *)
(* "[NEXT_STEP] <one short sentence>".                                     *)

AskedReport(t) ==
  LET tag  == FirstFrom(t, ReportTag, 1, 0)
      stop == FirstFrom(t, NextTag, tag, Len(t) + 1)
  IN  IF tag = 0 THEN <<>> ELSE Trim(SubSeq(t, tag + 1, stop - 1))

AskedNextStep(t) ==
  LET tag == FirstFrom(t, NextTag, 1, 0)
  IN  IF tag = 0 THEN <<>> ELSE Trim(SubSeq(t, tag + 1, Len(t)))

\* A tag with nothing else after it on its line.
OnOwnLine(t, tag) ==
  \A i \in Positions(t, tag) : i = Len(t) \/ t[i + 1] = Newline

-----------------------------------------------------------------------------
(* The transcripts, grown one token at a time.                             *)

CONSTANT MaxTokens  \* bound on the transcripts TLC grows

VARIABLE transcript

TextInit == transcript = <<>>

TextNext ==
  /\ Len(transcript) < MaxTokens
  /\ \E tok \in Token : transcript' = Append(transcript, tok)

TextSpec == TextInit /\ [][TextNext]_transcript

\* Wherever a fork puts its tags, also in the wrong order, twice, or in the
\* middle of a line: a report or next step whose tags stand on lines of their
\* own comes out exactly as the prompt asks for it.
CapturedWhenOnOwnLine ==
  /\ OnOwnLine(transcript, ReportTag) => Report(transcript) = AskedReport(transcript)
  /\ OnOwnLine(transcript, NextTag) => NextStep(transcript) = AskedNextStep(transcript)

\* "end with a single line: [FORK_REPORT] <one-paragraph summary>": a
\* transcript that does so has a report.
OneLineReportIsCaptured ==
  \A i \in Positions(transcript, ReportTag) :
    /\ i < Len(transcript)
    /\ \A j \in i + 1 .. Len(transcript) : transcript[j] \in Word
    => Report(transcript) # <<>>
=============================================================================
