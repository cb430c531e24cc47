--------------------------- MODULE CoverageReport ---------------------------
(***************************************************************************)
(* The report of the coverage tracker as it is written                     *)
(* (unsafe_coverage.rs, write_detailed_stats) and as it is read back       *)
(* (analyze_coverage.py).  A line of the file is a heading, the empty      *)
(* line, a figure of the summary or a location in the source.              *)
(***************************************************************************)
EXTENDS SequencesExt

CONSTANTS
    Lines,      \* locations, file:line
    SrcLines    \* those that begin with src/

Headings == {"RUN", "REGISTERED_LINES", "EXECUTED_LINES", "SUMMARY"}
Blank == ""
Figure == "figure"

ASSUME SrcAssumption == SrcLines \subseteq Lines
\* A program has finitely many lines.
ASSUME FiniteAssumption == IsFiniteSet(Lines)
ASSUME LinesAssumption == Lines \cap (Headings \cup {Blank, Figure}) = {}

\* What one call of write appends to the file, and which process it is from: the
\* report or, as run 0, the newline that writeln! ends with.
Report(process, registered, executed) ==
    [by |-> process, run |-> 1, registered |-> registered, executed |-> executed]
Newline(process) == [by |-> process, run |-> 0, registered |-> {}, executed |-> {}]

\* The four figures of the summary are one.
write_detailed_stats(report) ==
    <<"RUN", "REGISTERED_LINES">> \o SetToSeq(report.registered)
    \o <<Blank, "EXECUTED_LINES">> \o SetToSeq(report.executed)
    \o <<Blank, "SUMMARY", Figure, Blank>>

FileLines(file) ==
    FlattenSeq([i \in DOMAIN file |->
                  IF file[i].run = 0 THEN <<Blank>> ELSE write_detailed_stats(file[i])])

\* Mutant: any heading ends the section, before the two that begin one are
\* looked at.
HeadingEndsSection(section, line) ==
    CASE line \in Headings \cup {Blank} -> "none"
      [] line = "REGISTERED_LINES" -> "registered"
      [] line = "EXECUTED_LINES" -> "executed"
      [] OTHER -> section

NextSection(section, line) ==
    CASE line = "REGISTERED_LINES" -> "registered"
      [] line = "EXECUTED_LINES" -> "executed"
      [] line \in {"RUN", "SUMMARY", Blank} -> "none"
      [] OTHER -> section

ParseLine(state, line) ==
    LET counted(section) == IF state.section = section THEN {line} \cap SrcLines ELSE {}
    IN  [section |-> NextSection(state.section, line),
         registered |-> state.registered \cup counted("registered"),
         executed |-> state.executed \cup counted("executed")]

analyze_unsafe_coverage(lines) ==
    LET after[i \in 0 .. Len(lines)] ==
          IF i = 0 THEN [section |-> "none", registered |-> {}, executed |-> {}]
                   ELSE ParseLine(after[i - 1], lines[i])
    IN  after[Len(lines)]
=============================================================================
