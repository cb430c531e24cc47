---------------------------- MODULE PipelineProofs ----------------------------
(***************************************************************************)
(* Theorems about the experiment pipeline, for any experiments, crates,    *)
(* commands and number of failures.                                        *)
(*                                                                         *)
(* That the libraries do not mix is inductive with what is staged during   *)
(* the build (StageInv).  That reports do not get lost or into the wrong   *)
(* result rests on the order of the loops, each run being reached once     *)
(* (OrderInv), on who may still be writing, with which library and where   *)
(* (WriterInv, LinkInv), and on whose reports are in which file            *)
(* (ReporterInv, WroteInv, ManualInv).                                     *)
(*                                                                         *)
(* That the analysis reads a result right holds of any sequence of reports *)
(* and newlines, and is shown by induction over it (FileRead): after a     *)
(* report, and after the newline between two, the parser is in no section  *)
(* in which a line that comes next would count.                            *)
(***************************************************************************)
EXTENDS Pipeline, FiniteLemmas, TLAPS

\* While the library is compiled the directory is empty, or cargo clean has failed.
StageInv ==
    /\ pc = "compile" => E # Native /\ (staged = {} \/ E \in unclean)
    /\ pc \in {"crate", "command"} /\ E # Native =>
         PERF_RLIB = E /\ (staged = {E} \/ E \in unclean)

\* Where the pipeline is at work on a crate, and the runs it has not come to.
Underway == pc \in {"crate", "command"}
Later ==
    {r \in Runs :
       \E i \in DOMAIN Crates, j \in DOMAIN Experiments :
         /\ r = <<Crates[i], Experiments[j]>>
         /\ pc # "exited"
         /\ \/ j > exp
            \/ j = exp /\ i > crate
            \/ j = exp /\ i = crate /\ ~ Underway}
Pending == Later \cup (IF Underway THEN {This} ELSE {})

Files ==
    UNION {{Output(e), Fallback(e)} \cup {Saved(c, e) : c \in Range(Crates)} : e \in Exps \ {Native}}
Chunks ==
    {r \in [by : Runs \cup {Manual}, run : {0, 1}, registered : SUBSET Lines, executed : SUBSET Lines] :
       r.run = 0 => r.registered = {} /\ r.executed = {}}
Processes ==
    [at : {"ended", "started", "running", "opened", "written"},
     lib : (Exps \ {Native}) \cup {None}, file : Files \cup {<< >>}, cmd : Nat]
Writing(p) == proc[p].at \in {"opened", "written"}

LoopInv ==
    /\ pc \in {"build", "compile", "crate", "command", "exited"}
    /\ exp \in DOMAIN Experiments /\ crate \in DOMAIN Crates
    /\ cmd \in 1 .. Len(Commands[C]) + 1
    /\ pc = "command" => cmd <= Len(Commands[C]) /\ C \notin Skipped
    /\ PERF_RLIB \in (Exps \ {Native}) \cup {None} /\ staged \subseteq Exps \cup {None}

\* The files hold chunks, and a process has a file of the disk open while it writes.
FileInv ==
    /\ DOMAIN disk \subseteq Files /\ disk \in [DOMAIN disk -> Seq(Chunks)]
    /\ proc \in [Runs -> Processes]
    /\ \A p \in Runs :
         /\ proc[p].at # "ended" => proc[p].cmd \in DOMAIN Commands[p[1]]
         /\ IF Writing(p) THEN proc[p].file \in DOMAIN disk ELSE proc[p].file = << >>
         /\ \A e \in Exps : proc[p].file # Fallback(e)

\* Each run is reached once; it has a result only if its commands have succeeded.
OrderInv ==
    /\ passed \cup failed \subseteq Runs \ Pending /\ passed \cap failed = {}
    /\ \A c \in Range(Crates), e \in Exps : Saved(c, e) \in DOMAIN disk => <<c, e>> \in passed

\* Only the run under way and runs that have failed have a process; that of the run
\* under way has the library and the file of its experiment.
WriterInv ==
    /\ \A p \in Runs : proc[p].at # "ended" => p \in failed \/ (pc = "command" /\ p = This)
    /\ Underway =>
         /\ proc[This].at = "running" => proc[This].lib \in {None, E}
         /\ Writing(This) => proc[This].file = Output(E)

\* A run that has not failed has no process with the library of another experiment.
LinkInv == \A p \in Runs \ failed : proc[p].lib \in {None, p[2]}

\* Whose reports are where.
ReporterInv ==
    \A f \in DOMAIN disk : \A q \in Reporters(f) :
      \/ q = Manual
      \/ q \in failed
      \/ q \in passed /\ f = Result(q)
      \/ Underway /\ C \notin Skipped /\ q = This /\ f = Output(E)

\* Where that is which has been written.
Holds(f, chunk) == f \in DOMAIN disk /\ chunk \in Range(disk[f])
WroteInv ==
    \A chunk \in wrote :
      \/ chunk.by \in failed
      \/ chunk.by \in passed /\ Holds(Result(chunk.by), chunk)
      \/ Underway /\ C \notin Skipped /\ chunk.by = This /\ Holds(Output(E), chunk)

\* Nobody writes to a file that has come from /tmp.
ManualInv ==
    \A f \in DOMAIN disk : Manual \in Reporters(f) =>
      /\ Reporters(f) = {Manual}
      /\ \A p \in Runs : proc[p].file # f
      /\ \A e \in Exps : f # Output(e)

Inv ==
    /\ StageInv /\ LoopInv /\ FileInv /\ OrderInv /\ WriterInv /\ LinkInv
    /\ ReporterInv /\ WroteInv /\ ManualInv
-----------------------------------------------------------------------------
(* The constants, the names of the files and their contents                *)

\* There are experiments and crates, each comes once, and none has a reserved name.
LEMMA NamesFacts ==
    /\ Len(Experiments) \in Nat \ {0} /\ DOMAIN Experiments = 1 .. Len(Experiments)
    /\ Len(Crates) \in Nat \ {0} /\ DOMAIN Crates = 1 .. Len(Crates)
    /\ \A j \in DOMAIN Experiments : Experiments[j] \in Exps
    /\ \A i \in DOMAIN Crates : Crates[i] \in Range(Crates)
    /\ \A i, j \in DOMAIN Experiments : Experiments[i] = Experiments[j] => i = j
    /\ \A i, j \in DOMAIN Crates : Crates[i] = Crates[j] => i = j
    /\ None \notin Exps /\ Prebuilt \subseteq Exps \ {Native} /\ Manual \notin Runs
<1>1. /\ Experiments \in Seq(Exps) /\ Experiments # << >>
      /\ Crates \in Seq(Range(Crates)) /\ Crates # << >>
  BY NamesAssumption
<1>2. /\ Len(Experiments) \in Nat \ {0} /\ DOMAIN Experiments = 1 .. Len(Experiments)
      /\ Len(Crates) \in Nat \ {0} /\ DOMAIN Crates = 1 .. Len(Crates)
  BY <1>1
<1>3. /\ \A j \in DOMAIN Experiments : Experiments[j] \in Exps
      /\ \A i \in DOMAIN Crates : Crates[i] \in Range(Crates)
  BY DEF Exps, Range
<1>4. /\ \A i, j \in DOMAIN Experiments : Experiments[i] = Experiments[j] => i = j
      /\ \A i, j \in DOMAIN Crates : Crates[i] = Crates[j] => i = j
  BY NamesAssumption DEF IsInjective
<1> QED
  BY <1>2, <1>3, <1>4, NamesAssumption

\* The file names of the experiments and crates differ.
LEMMA FileNames ==
    /\ \A d, e : Output(d) # Fallback(e) /\ Output(d) # << >> /\ Fallback(d) # << >>
    /\ \A d, e : (Output(d) = Output(e) => d = e) /\ (Fallback(d) = Fallback(e) => d = e)
    /\ \A b, c, d, e : /\ Saved(c, e) # Output(d) /\ Saved(c, e) # Fallback(d) /\ Saved(c, e) # << >>
                       /\ Saved(b, d) = Saved(c, e) => b = c /\ d = e
BY DEF Output, Fallback, Saved

\* The files that may exist are those of the experiments with a library.
LEMMA FilesFacts ==
    /\ \A e \in Exps \ {Native} :
         Output(e) \in Files /\ Fallback(e) \in Files /\ \A c \in Range(Crates) : Saved(c, e) \in Files
    /\ \A e : (Output(e) \in Files \/ Fallback(e) \in Files) => e \in Exps \ {Native}
    /\ << >> \notin Files
<1>1. \A e \in Exps \ {Native} :
        Output(e) \in Files /\ Fallback(e) \in Files /\ \A c \in Range(Crates) : Saved(c, e) \in Files
  BY DEF Files
<1>2. ASSUME NEW f \in Files
      PROVE  \E e \in Exps \ {Native} : f = Output(e) \/ f = Fallback(e) \/ \E c \in Range(Crates) : f = Saved(c, e)
  BY DEF Files
<1>3. \A e : Output(e) \in Files => e \in Exps \ {Native}
  BY <1>2, FileNames
<1>4. \A e : Fallback(e) \in Files => e \in Exps \ {Native}
  BY <1>2, FileNames
<1>5. << >> \notin Files
  BY <1>2, FileNames
<1> QED
  BY <1>1, <1>3, <1>4, <1>5

\* The results of different runs are different files, and no output files.
LEMMA ResultName ==
    /\ \A c, e : Result(<<c, e>>) = Saved(c, e)
    /\ \A p, q \in Runs : Result(p) = Result(q) => p = q
    /\ \A p \in Runs : \A e : Result(p) # Output(e) /\ Result(p) # Fallback(e)
<1>1. \A c, e : Result(<<c, e>>) = Saved(c, e)
  BY DEF Result
<1>2. \A p \in Runs : p = <<p[1], p[2]>> /\ Result(p) = Saved(p[1], p[2])
  BY DEF Runs, Result
<1> QED
  BY <1>1, <1>2, FileNames

\* What a chunk that is appended to a file changes.
ReportersOf(s) == {s[i].by : i \in {j \in DOMAIN s : s[j].run = 1}}

\* Appending a report to a file adds its writer, appending a newline adds nobody.
LEMMA AppendReporters ==
    ASSUME NEW s \in Seq(Chunks), NEW chunk \in Chunks
    PROVE  /\ Append(s, chunk) \in Seq(Chunks)
           /\ ReportersOf(Append(s, chunk)) =
                IF chunk.run = 1 THEN ReportersOf(s) \cup {chunk.by} ELSE ReportersOf(s)
<1> DEFINE a == Append(s, chunk)
<1>1. /\ a \in Seq(Chunks) /\ DOMAIN s = 1 .. Len(s) /\ Len(s) \in Nat
      /\ DOMAIN a = 1 .. Len(s) + 1
      /\ a[Len(s) + 1] = chunk /\ \A i \in DOMAIN s : a[i] = s[i]
  OBVIOUS
<1> HIDE DEF a
<1>2. /\ DOMAIN a = DOMAIN s \cup {Len(s) + 1}
  BY <1>1
<1>3. \A x : x \in ReportersOf(a) <=> \E i \in DOMAIN a : a[i].run = 1 /\ x = a[i].by
  BY DEF ReportersOf
<1>4. \A x : x \in ReportersOf(s) <=> \E i \in DOMAIN s : s[i].run = 1 /\ x = s[i].by
  BY DEF ReportersOf
<1>5. \A x : x \in ReportersOf(a) <=> x \in ReportersOf(s) \/ (chunk.run = 1 /\ x = chunk.by)
  BY <1>1, <1>2, <1>3, <1>4
<1>6. ReportersOf(a) = IF chunk.run = 1 THEN ReportersOf(s) \cup {chunk.by} ELSE ReportersOf(s)
  BY <1>5
<1> QED
  BY <1>1, <1>6 DEF a

\* Nobody has written to a new file.
LEMMA EmptyReporters == << >> \in Seq(Chunks) /\ ReportersOf(<< >>) = {}
BY DEF ReportersOf

\* The reporters of a file are those of its contents.
LEMMA ReportersFile == \A f : Reporters(f) = ReportersOf(disk[f])
BY DEF Reporters, ReportersOf
-----------------------------------------------------------------------------
(* The analysis of a file                                                  *)

\* What the analysis knows before the first line, and after each of the lines: the
\* recursive function of analyze_unsafe_coverage.
Nothing == [section |-> "none", registered |-> {}, executed |-> {}]
Parses(h, lines) ==
    h = [i \in 0 .. Len(lines) |-> IF i = 0 THEN Nothing ELSE ParseLine(h[i - 1], lines[i])]

\* It has a solution, and with one more line the same up to there.
LEMMA ParsesExist ==
    ASSUME NEW T
    PROVE  \A lines \in Seq(T) : \E h : Parses(h, lines)
<1> DEFINE Good == {lines \in Seq(T) : \E h : Parses(h, lines)}
<1>1. << >> \in Good
  <2>1. << >> \in Seq(T) /\ Len(<< >>) = 0 /\ 0 .. 0 = {0}
    OBVIOUS
  <2> DEFINE h == [i \in {0} |-> Nothing]
  <2>2. Parses(h, << >>)
    BY <2>1 DEF Parses
  <2> QED
    BY <2>1, <2>2
<1>2. ASSUME NEW lines \in Seq(T), NEW x \in T, lines \in Good
      PROVE  Append(lines, x) \in Good
  <2> DEFINE n == Len(lines)
             more == Append(lines, x)
  <2>1. PICK h : Parses(h, lines)
    BY <1>2
  <2>2. /\ n \in Nat /\ more \in Seq(T) /\ Len(more) = n + 1
        /\ more[n + 1] = x /\ \A i \in 1 .. n : more[i] = lines[i]
    OBVIOUS
  <2>3. \A i \in 0 .. n : h[i] = IF i = 0 THEN Nothing ELSE ParseLine(h[i - 1], lines[i])
    BY <2>1 DEF Parses
  <2> HIDE DEF n, more
  <2> DEFINE g == [i \in 0 .. n + 1 |-> IF i <= n THEN h[i] ELSE ParseLine(h[n], x)]
  <2>4. ASSUME NEW i \in 0 .. n + 1
        PROVE  g[i] = IF i = 0 THEN Nothing ELSE ParseLine(g[i - 1], more[i])
    <3>1. CASE i <= n
      <4>1. i \in 0 .. n /\ g[i] = h[i]
        BY <2>2, <3>1
      <4>2. i # 0 => i - 1 \in 0 .. n + 1 /\ g[i - 1] = h[i - 1] /\ more[i] = lines[i]
        BY <2>2, <4>1
      <4> QED
        BY <2>3, <4>1, <4>2
    <3>2. CASE i = n + 1
      <4>1. i # 0 /\ i - 1 \in 0 .. n + 1 /\ i - 1 = n /\ g[i - 1] = h[n] /\ g[i] = ParseLine(h[n], x)
        BY <2>2, <3>2
      <4> QED
        BY <2>2, <3>2, <4>1
    <3> QED
      BY <2>2, <3>1, <3>2
  <2>5. Parses(g, more)
    BY <2>2, <2>4 DEF Parses
  <2> QED
    BY <2>2, <2>5 DEF more
<1>3. Seq(T) \subseteq Good
  <2> HIDE DEF Good
  <2> QED
    BY <1>1, <1>2, SequenceInduction
<1> QED
  BY <1>3

\* Solutions for a list of lines and one line more agree on the former: a parser that
\* goes on does not revise what it knows.
LEMMA ParsesAgree ==
    ASSUME NEW T, NEW lines \in Seq(T), NEW x \in T, NEW h, Parses(h, lines),
           NEW g, Parses(g, Append(lines, x))
    PROVE  \A i \in 0 .. Len(lines) : g[i] = h[i]
<1> DEFINE n == Len(lines)
           more == Append(lines, x)
           Good == {i \in Nat : i \in 0 .. n => g[i] = h[i]}
<1>1. n \in Nat /\ Len(more) = n + 1 /\ \A i \in 1 .. n : more[i] = lines[i]
  OBVIOUS
<1>2. \A i \in 0 .. n : h[i] = IF i = 0 THEN Nothing ELSE ParseLine(h[i - 1], lines[i])
  BY DEF Parses
<1>3. \A i \in 0 .. Len(more) : g[i] = IF i = 0 THEN Nothing ELSE ParseLine(g[i - 1], more[i])
  BY DEF Parses
<1> HIDE DEF n, more
<1>4. 0 \in Good
  BY <1>1, <1>2, <1>3
<1>5. ASSUME NEW k \in Nat, k \in Good
      PROVE  k + 1 \in Good
  <2> SUFFICES ASSUME k + 1 \in 0 .. n PROVE g[k + 1] = h[k + 1]
    OBVIOUS
  <2>1. /\ k + 1 \in 0 .. Len(more) /\ more[k + 1] = lines[k + 1] /\ (k + 1) - 1 = k
        /\ k + 1 # 0 /\ k \in 0 .. n /\ g[k] = h[k]
    BY <1>1, <1>5
  <2>2. h[k + 1] = ParseLine(h[k], lines[k + 1]) /\ g[k + 1] = ParseLine(g[k], more[k + 1])
    BY <1>2, <1>3, <2>1
  <2> QED
    BY <2>1, <2>2
<1>6. Nat \subseteq Good
  <2> HIDE DEF Good
  <2> QED
    BY <1>4, <1>5, NumberInduction
<1> QED
  BY <1>1, <1>6 DEF n

\* The analysis is the last of these.
LEMMA AnalysisIsParse ==
    ASSUME NEW lines
    PROVE  analyze_unsafe_coverage(lines) = (CHOOSE h : Parses(h, lines))[Len(lines)]
BY DEF analyze_unsafe_coverage, Parses, Nothing

\* The analysis goes line by line.
LEMMA AnalysisSteps ==
    /\ analyze_unsafe_coverage(<< >>) = Nothing
    /\ \A T : \A lines \in Seq(T), x \in T :
         analyze_unsafe_coverage(Append(lines, x)) = ParseLine(analyze_unsafe_coverage(lines), x)
<1>1. analyze_unsafe_coverage(<< >>) = Nothing
  <2> DEFINE h == CHOOSE f : Parses(f, << >>)
  <2>1. << >> \in Seq({}) /\ Len(<< >>) = 0 /\ 0 \in 0 .. 0
    OBVIOUS
  <2>2. Parses(h, << >>)
    BY <2>1, ParsesExist
  <2> HIDE DEF h
  <2>3. h[0] = Nothing
    BY <2>1, <2>2 DEF Parses
  <2> QED
    BY <2>1, <2>3, AnalysisIsParse DEF h
<1>2. ASSUME NEW T, NEW lines \in Seq(T), NEW x \in T
      PROVE  analyze_unsafe_coverage(Append(lines, x)) = ParseLine(analyze_unsafe_coverage(lines), x)
  <2> DEFINE n == Len(lines)
             more == Append(lines, x)
             h == CHOOSE f : Parses(f, lines)
             g == CHOOSE f : Parses(f, more)
  <2>1. n \in Nat /\ more \in Seq(T) /\ Len(more) = n + 1 /\ more[n + 1] = x
    OBVIOUS
  <2>2. Parses(h, lines)
    BY ParsesExist
  <2>3. Parses(g, more)
    <3> HIDE DEF more
    <3> QED
      BY <2>1, ParsesExist
  <2>4. analyze_unsafe_coverage(lines) = h[n]
    BY AnalysisIsParse
  <2>5. analyze_unsafe_coverage(more) = g[Len(more)]
    <3> HIDE DEF more
    <3> QED
      BY AnalysisIsParse
  <2> HIDE DEF h, g
  <2>6. \A i \in 0 .. Len(more) : g[i] = IF i = 0 THEN Nothing ELSE ParseLine(g[i - 1], more[i])
    BY <2>3 DEF Parses
  <2>7. \A i \in 0 .. n : g[i] = h[i]
    BY <2>2, <2>3, ParsesAgree
  <2> HIDE DEF n, more
  <2>8. n + 1 \in 0 .. Len(more) /\ n + 1 # 0 /\ (n + 1) - 1 = n /\ n \in 0 .. n
    BY <2>1
  <2>9. g[n + 1] = ParseLine(h[n], x)
    BY <2>1, <2>6, <2>7, <2>8
  <2> QED
    BY <2>1, <2>4, <2>5, <2>9 DEF more
<1> QED
  BY <1>1, <1>2

Words == Lines \cup Headings \cup {Blank, Figure}

\* The parser's state after a number of locations.
Counted(state, section, S) == IF state.section = section THEN S \cap SrcLines ELSE {}
After(state, S) ==
    [section |-> state.section,
     registered |-> state.registered \cup Counted(state, "registered", S),
     executed |-> state.executed \cup Counted(state, "executed", S)]
States == [section : {"none", "registered", "executed"}, registered : SUBSET SrcLines, executed : SUBSET SrcLines]

\* What a line does: a location counts in its section, and is no heading.
LEMMA LineFacts ==
    ASSUME NEW s \in States
    PROVE  /\ \A x \in Lines : ParseLine(s, x) = After(s, {x})
           /\ \A x \in {"RUN", "SUMMARY", Blank} : ParseLine(s, x) = [s EXCEPT !.section = "none"]
           /\ ParseLine(s, "REGISTERED_LINES") = [s EXCEPT !.section = "registered"]
           /\ ParseLine(s, "EXECUTED_LINES") = [s EXCEPT !.section = "executed"]
           /\ ParseLine(s, Figure) = s
           /\ \A x \in Words : ParseLine(s, x) \in States
           /\ \A S : After(s, S) \in States
<1>1. /\ Lines \cap {"RUN", "REGISTERED_LINES", "EXECUTED_LINES", "SUMMARY", Blank, Figure} = {}
      /\ SrcLines \subseteq Lines
  BY LinesAssumption, SrcAssumption DEF Headings
<1>2. ASSUME NEW x \in Lines PROVE NextSection(s.section, x) = s.section
  BY <1>1 DEF NextSection
<1>3. \A x \in {"RUN", "SUMMARY", Blank} : NextSection(s.section, x) = "none" /\ {x} \cap SrcLines = {}
  BY <1>1 DEF NextSection, Blank
<1>4. NextSection(s.section, "REGISTERED_LINES") = "registered" /\ {"REGISTERED_LINES"} \cap SrcLines = {}
  BY <1>1 DEF NextSection, Blank
<1>5. NextSection(s.section, "EXECUTED_LINES") = "executed" /\ {"EXECUTED_LINES"} \cap SrcLines = {}
  BY <1>1 DEF NextSection, Blank
<1>6. NextSection(s.section, Figure) = s.section /\ {Figure} \cap SrcLines = {}
  BY <1>1 DEF NextSection, Figure, Blank
<1>7. s = [section |-> s.section, registered |-> s.registered, executed |-> s.executed]
  BY DEF States
<1>8. \A x : ParseLine(s, x) = [section |-> NextSection(s.section, x),
                                registered |-> s.registered \cup Counted(s, "registered", {x}),
                                executed |-> s.executed \cup Counted(s, "executed", {x})]
  BY DEF ParseLine, Counted
<1>9. \A x : {x} \cap SrcLines = {} => ParseLine(s, x) = [s EXCEPT !.section = NextSection(s.section, x)]
  <2> SUFFICES ASSUME NEW x, {x} \cap SrcLines = {}
               PROVE  ParseLine(s, x) = [s EXCEPT !.section = NextSection(s.section, x)]
    OBVIOUS
  <2>1. Counted(s, "registered", {x}) = {} /\ Counted(s, "executed", {x}) = {}
    BY DEF Counted
  <2>2. [s EXCEPT !.section = NextSection(s.section, x)]
          = [section |-> NextSection(s.section, x), registered |-> s.registered, executed |-> s.executed]
    BY <1>7
  <2> QED
    BY <1>8, <2>1, <2>2
<1>10. \A S : After(s, S) \in States
  <2>1. \A S : Counted(s, "registered", S) \subseteq SrcLines /\ Counted(s, "executed", S) \subseteq SrcLines
    BY DEF Counted
  <2> QED
    BY <2>1 DEF States, After
<1>11. \A x \in Lines : ParseLine(s, x) = After(s, {x})
  BY <1>2, <1>8 DEF After
<1>12. ParseLine(s, Figure) = s
  BY <1>6, <1>7, <1>9
<1>13. /\ \A x \in {"RUN", "SUMMARY", Blank} : ParseLine(s, x) = [s EXCEPT !.section = "none"]
       /\ ParseLine(s, "REGISTERED_LINES") = [s EXCEPT !.section = "registered"]
       /\ ParseLine(s, "EXECUTED_LINES") = [s EXCEPT !.section = "executed"]
  BY <1>3, <1>4, <1>5, <1>9
<1>14. \A sec \in {"none", "registered", "executed"} : [s EXCEPT !.section = sec] \in States
  BY DEF States
<1>15. \A x \in Words : ParseLine(s, x) \in States
  <2> SUFFICES ASSUME NEW x \in Words PROVE ParseLine(s, x) \in States
    OBVIOUS
  <2>1. CASE x \in Lines
    BY <1>10, <1>11, <2>1
  <2>2. CASE x \in {"RUN", "SUMMARY", Blank}
    BY <1>13, <1>14, <2>2
  <2>3. CASE x \in {"REGISTERED_LINES", "EXECUTED_LINES"}
    BY <1>13, <1>14, <2>3
  <2>4. CASE x = Figure
    BY <1>12, <2>4
  <2> QED
    BY <2>1, <2>2, <2>3, <2>4 DEF Words, Headings
<1> QED
  BY <1>10, <1>11, <1>12, <1>13, <1>15

\* The state after a list of locations.
LEMMA LocationsRead ==
    ASSUME NEW lines \in Seq(Words), analyze_unsafe_coverage(lines) \in States
    PROVE  \A list \in Seq(Lines) :
             analyze_unsafe_coverage(lines \o list) = After(analyze_unsafe_coverage(lines), Range(list))
<1> DEFINE s == analyze_unsafe_coverage(lines)
           Good == {list \in Seq(Lines) : analyze_unsafe_coverage(lines \o list) = After(s, Range(list))}
<1>1. << >> \in Good
  <2>1. << >> \in Seq(Lines) /\ lines \o << >> = lines /\ Range(<< >>) = {}
    BY DEF Range
  <2>2. s = [section |-> s.section, registered |-> s.registered, executed |-> s.executed]
    BY DEF States
  <2>3. Counted(s, "registered", {}) = {} /\ Counted(s, "executed", {}) = {}
    BY DEF Counted
  <2> HIDE DEF s
  <2>4. After(s, {}) = s
    BY <2>2, <2>3 DEF After
  <2> QED
    BY <2>1, <2>4 DEF s
<1>2. ASSUME NEW list \in Seq(Lines), NEW x \in Lines, list \in Good
      PROVE  Append(list, x) \in Good
  <2>1. /\ Append(list, x) \in Seq(Lines) /\ lines \o Append(list, x) = Append(lines \o list, x)
        /\ list \in Seq(Words) /\ lines \o list \in Seq(Words) /\ x \in Words
    BY DEF Words
  <2>2. Range(Append(list, x)) = Range(list) \cup {x}
    BY AppendRange
  <2>3. analyze_unsafe_coverage(lines \o Append(list, x)) = ParseLine(After(s, Range(list)), x)
    <3>1. analyze_unsafe_coverage(Append(lines \o list, x)) = ParseLine(analyze_unsafe_coverage(lines \o list), x)
      BY <2>1, AnalysisSteps
    <3> QED
      BY <1>2, <2>1, <3>1
  <2>4. After(s, Range(list)) \in States
    <3> HIDE DEF s
    <3> QED
      BY LineFacts DEF s
  <2>5. ParseLine(After(s, Range(list)), x) = After(After(s, Range(list)), {x})
    BY <2>4, LineFacts
  <2>6. After(After(s, Range(list)), {x}) = After(s, Range(list) \cup {x})
    <3> HIDE DEF s
    <3> DEFINE R == Range(list)
    <3>1. \A sec : Counted(After(s, R), sec, {x}) = Counted(s, sec, {x})
      BY DEF Counted, After
    <3>2. \A sec : Counted(s, sec, R) \cup Counted(s, sec, {x}) = Counted(s, sec, R \cup {x})
      BY DEF Counted
    <3> HIDE DEF R
    <3>3. /\ After(s, R).section = s.section
          /\ After(s, R).registered = s.registered \cup Counted(s, "registered", R)
          /\ After(s, R).executed = s.executed \cup Counted(s, "executed", R)
      BY DEF After
    <3>4. /\ After(s, R).registered \cup Counted(s, "registered", {x})
               = s.registered \cup Counted(s, "registered", R \cup {x})
          /\ After(s, R).executed \cup Counted(s, "executed", {x})
               = s.executed \cup Counted(s, "executed", R \cup {x})
      BY <3>2, <3>3
    <3>5. After(After(s, R), {x}) = [section |-> s.section,
                                     registered |-> After(s, R).registered \cup Counted(s, "registered", {x}),
                                     executed |-> After(s, R).executed \cup Counted(s, "executed", {x})]
      BY <3>1, <3>3 DEF After
    <3> QED
      BY <3>4, <3>5 DEF After, R
  <2> QED
    BY <2>1, <2>2, <2>3, <2>5, <2>6
<1>3. Seq(Lines) \subseteq Good
  <2> HIDE DEF Good
  <2> QED
    BY <1>1, <1>2, SequenceInduction
<1> QED
  BY <1>3

Read(lines) == analyze_unsafe_coverage(lines)

\* Two lines more.
LEMMA TwoLines ==
    ASSUME NEW lines \in Seq(Words), NEW x \in Words, NEW y \in Words
    PROVE  /\ lines \o <<x, y>> \in Seq(Words)
           /\ Read(lines \o <<x, y>>) = ParseLine(ParseLine(Read(lines), x), y)
<1>1. /\ Append(lines, x) \in Seq(Words) /\ Append(Append(lines, x), y) \in Seq(Words)
      /\ lines \o <<x, y>> = Append(Append(lines, x), y)
  BY JoinFacts
<1>2. /\ Read(Append(lines, x)) = ParseLine(Read(lines), x)
      /\ Read(Append(Append(lines, x), y)) = ParseLine(Read(Append(lines, x)), y)
  BY <1>1, AnalysisSteps DEF Read
<1> QED
  BY <1>1, <1>2

\* A report as it is read: from outside the sections, its locations are counted and
\* the parser is outside again.
LEMMA ReportRead ==
    ASSUME NEW lines \in Seq(Words), Read(lines) \in States, Read(lines).section = "none",
           NEW report, report.registered \in SUBSET Lines, report.executed \in SUBSET Lines
    PROVE  /\ write_detailed_stats(report) \in Seq(Words)
           /\ Read(lines \o write_detailed_stats(report))
                = [section |-> "none",
                   registered |-> Read(lines).registered \cup (SrcLines \cap report.registered),
                   executed |-> Read(lines).executed \cup (SrcLines \cap report.executed)]
<1> DEFINE reg == SetToSeq(report.registered)
           exec == SetToSeq(report.executed)
           l1 == lines \o <<"RUN", "REGISTERED_LINES">>
           l2 == l1 \o reg
           l3 == l2 \o <<Blank, "EXECUTED_LINES">>
           l4 == l3 \o exec
           l5 == l4 \o <<Blank, "SUMMARY">>
           l6 == l5 \o <<Figure, Blank>>
           s == Read(lines)
<1>1. /\ reg \in Seq(Lines) /\ Range(reg) = report.registered
      /\ exec \in Seq(Lines) /\ Range(exec) = report.executed
  <2>1. IsFiniteSet(report.registered) /\ IsFiniteSet(report.executed)
    BY FiniteAssumption, FS_Subset
  <2>2. /\ reg \in Seq(report.registered) /\ Range(reg) = report.registered
        /\ exec \in Seq(report.executed) /\ Range(exec) = report.executed
    BY <2>1, ListOfSet
  <2> HIDE DEF reg, exec
  <2> QED
    BY <2>2
<1>2. {"RUN", "REGISTERED_LINES", "EXECUTED_LINES", "SUMMARY", Blank, Figure} \cup Lines \subseteq Words
  BY DEF Words, Headings
<1>3. reg \in Seq(Words) /\ exec \in Seq(Words)
  <2> HIDE DEF reg, exec
  <2> QED
    BY <1>1, <1>2
<1> DEFINE rr == [s EXCEPT !.section = "registered"]
           r2 == After(rr, report.registered)
           r3 == [r2 EXCEPT !.section = "executed"]
           r4 == After(r3, report.executed)
           r5 == [r4 EXCEPT !.section = "none"]
<1> HIDE DEF reg, exec
<1>4. l1 \in Seq(Words) /\ Read(l1) = rr /\ rr \in States
  <2>1. l1 \in Seq(Words) /\ Read(l1) = ParseLine(ParseLine(s, "RUN"), "REGISTERED_LINES")
    BY <1>2, TwoLines
  <2>2. ParseLine(s, "RUN") = [s EXCEPT !.section = "none"]
    BY LineFacts
  <2>3. [s EXCEPT !.section = "none"] = s
    BY DEF States
  <2>4. ParseLine(s, "REGISTERED_LINES") = rr /\ ParseLine(s, "REGISTERED_LINES") \in States
    BY <1>2, LineFacts
  <2> QED
    BY <2>1, <2>2, <2>3, <2>4
<1>5. l2 \in Seq(Words) /\ Read(l2) = r2 /\ r2 \in States
  <2> HIDE DEF l1, rr
  <2>1. Read(l1 \o reg) = After(rr, Range(reg))
    BY <1>1, <1>4, LocationsRead DEF Read
  <2>2. l1 \o reg \in Seq(Words)
    BY <1>3, <1>4, JoinFacts
  <2>3. r2 \in States
    BY <1>4, LineFacts
  <2> QED
    BY <1>1, <2>1, <2>2, <2>3
<1>6. l3 \in Seq(Words) /\ Read(l3) = r3 /\ r3 \in States
  <2> HIDE DEF l2, r2
  <2>1. l3 \in Seq(Words) /\ Read(l3) = ParseLine(ParseLine(r2, Blank), "EXECUTED_LINES")
    BY <1>2, <1>5, TwoLines
  <2>2. ParseLine(r2, Blank) = [r2 EXCEPT !.section = "none"] /\ ParseLine(r2, Blank) \in States
    BY <1>2, <1>5, LineFacts
  <2> DEFINE t == ParseLine(r2, Blank)
  <2>3. ParseLine(t, "EXECUTED_LINES") = [t EXCEPT !.section = "executed"] /\ ParseLine(t, "EXECUTED_LINES") \in States
    <3> HIDE DEF t
    <3> QED
      BY <1>2, <2>2, LineFacts DEF t
  <2>4. [t EXCEPT !.section = "executed"] = r3
    <3>1. r2 = [section |-> r2.section, registered |-> r2.registered, executed |-> r2.executed]
      BY <1>5 DEF States
    <3> QED
      BY <2>2, <3>1
  <2> QED
    BY <2>1, <2>3, <2>4
<1>7. l4 \in Seq(Words) /\ Read(l4) = r4 /\ r4 \in States
  <2> HIDE DEF l3, r3
  <2>1. Read(l3 \o exec) = After(r3, Range(exec))
    BY <1>1, <1>6, LocationsRead DEF Read
  <2>2. l3 \o exec \in Seq(Words)
    BY <1>3, <1>6, JoinFacts
  <2>3. r4 \in States
    BY <1>6, LineFacts
  <2> QED
    BY <1>1, <2>1, <2>2, <2>3
<1>8. l5 \in Seq(Words) /\ Read(l5) = r5 /\ r5 \in States /\ r5.section = "none"
  <2> HIDE DEF l4, r4
  <2>1. l5 \in Seq(Words) /\ Read(l5) = ParseLine(ParseLine(r4, Blank), "SUMMARY")
    BY <1>2, <1>7, TwoLines
  <2>2. ParseLine(r4, Blank) = r5 /\ ParseLine(r4, Blank) \in States
    BY <1>2, <1>7, LineFacts
  <2>3. r5 = [section |-> "none", registered |-> r4.registered, executed |-> r4.executed]
    BY <1>7 DEF States
  <2>4. ParseLine(r5, "SUMMARY") = [r5 EXCEPT !.section = "none"]
    <3> HIDE DEF r5
    <3> QED
      BY <2>2, LineFacts
  <2>5. [r5 EXCEPT !.section = "none"] = r5
    <3> HIDE DEF r5
    <3> QED
      BY <2>3
  <2> QED
    BY <2>1, <2>2, <2>3, <2>4, <2>5
<1>9. l6 \in Seq(Words) /\ Read(l6) = r5
  <2> HIDE DEF l5, r5
  <2>1. l6 \in Seq(Words) /\ Read(l6) = ParseLine(ParseLine(r5, Figure), Blank)
    BY <1>2, <1>8, TwoLines
  <2>2. ParseLine(r5, Figure) = r5 /\ ParseLine(r5, Blank) = [r5 EXCEPT !.section = "none"]
    BY <1>8, LineFacts
  <2>3. [r5 EXCEPT !.section = "none"] = r5
    BY <1>8 DEF States
  <2> QED
    BY <2>1, <2>2, <2>3
<1>10. r5 = [section |-> "none",
             registered |-> s.registered \cup (SrcLines \cap report.registered),
             executed |-> s.executed \cup (SrcLines \cap report.executed)]
  <2> HIDE DEF s
  <2>1. rr = [section |-> "registered", registered |-> s.registered, executed |-> s.executed]
    BY DEF States, s
  <2>2. r2 = [section |-> "registered", registered |-> s.registered \cup (SrcLines \cap report.registered),
              executed |-> s.executed]
    BY <2>1 DEF After, Counted
  <2>3. r3 = [section |-> "executed", registered |-> r2.registered, executed |-> r2.executed]
    <3> HIDE DEF r2
    <3> QED
      BY <1>5 DEF States
  <2>4. r4 = [section |-> "executed", registered |-> r2.registered,
              executed |-> r2.executed \cup (SrcLines \cap report.executed)]
    <3> HIDE DEF r2, r3
    <3> QED
      BY <2>3 DEF After, Counted
  <2>5. r5 = [section |-> "none", registered |-> r4.registered, executed |-> r4.executed]
    <3>1. r4 \in States
      BY <1>7
    <3> HIDE DEF r4
    <3> QED
      BY <3>1 DEF States
  <2> HIDE DEF r2, r4, r5
  <2>6. r4.registered = r2.registered /\ r4.executed = r2.executed \cup (SrcLines \cap report.executed)
    BY <2>4
  <2>7. r2.registered = s.registered \cup (SrcLines \cap report.registered) /\ r2.executed = s.executed
    BY <2>2
  <2> QED
    BY <2>5, <2>6, <2>7
<1>11. /\ write_detailed_stats(report) \in Seq(Words)
       /\ lines \o write_detailed_stats(report) = l6
  <2> DEFINE a == <<"RUN", "REGISTERED_LINES">>
             b == <<Blank, "EXECUTED_LINES">>
             c == <<Blank, "SUMMARY">>
             d == <<Figure, Blank>>
  <2>1. a \in Seq(Words) /\ b \in Seq(Words) /\ c \in Seq(Words) /\ d \in Seq(Words)
    BY <1>2, JoinFacts
  <2>2. <<Blank, "SUMMARY", Figure, Blank>> = c \o d
    OBVIOUS
  <2>3. write_detailed_stats(report) = (((a \o reg) \o b) \o exec) \o (c \o d)
    <3>1. b \o exec \in Seq(Words)
      BY <1>3, <2>1, JoinFacts
    <3>2. write_detailed_stats(report) = (((a \o reg) \o b) \o exec) \o <<Blank, "SUMMARY", Figure, Blank>>
      BY DEF write_detailed_stats, reg, exec
    <3> QED
      BY <2>2, <3>2
  <2> HIDE DEF a, b, c, d
  <2>4. lines \o write_detailed_stats(report) = (l4 \o c) \o d
    <3> DEFINE ar == Join(a, reg)
               arb == Join(ar, b)
               arbe == Join(arb, exec)
               cd == Join(c, d)
               lar == Join(Join(lines, a), reg)
               larb == Join(lar, b)
               larbe == Join(larb, exec)
    <3>1. \A x \in Seq(Words), y \in Seq(Words) :
            Join(x, y) \in Seq(Words) /\ \A z \in Seq(Words) : Join(x, Join(y, z)) = Join(Join(x, y), z)
      BY JoinLaw
    <3>2. /\ ar \in Seq(Words) /\ arb \in Seq(Words) /\ arbe \in Seq(Words) /\ cd \in Seq(Words)
          /\ lar \in Seq(Words) /\ larb \in Seq(Words) /\ larbe \in Seq(Words)
      BY <1>3, <2>1, <3>1
    <3>3. Join(lines, ar) = lar
      BY <1>3, <2>1, <3>1
    <3>4. Join(lines, arb) = larb
      BY <1>3, <2>1, <3>1, <3>2, <3>3
    <3>5. Join(lines, arbe) = larbe
      BY <1>3, <2>1, <3>1, <3>2, <3>4
    <3>6. Join(lines, Join(arbe, cd)) = Join(larbe, cd)
      BY <3>1, <3>2, <3>5
    <3>7. Join(larbe, cd) = Join(Join(larbe, c), d)
      BY <2>1, <3>1, <3>2
    <3>8. write_detailed_stats(report) = Join(arbe, cd)
      BY <2>3, Zenon DEF Join
    <3>9. Join(Join(larbe, c), d) = (l4 \o c) \o d
      BY Zenon DEF Join, a, b
    <3> QED
      <4> HIDE DEF l4, ar, arb, arbe, cd, lar, larb, larbe
      <4>1. lines \o write_detailed_stats(report) = Join(lines, Join(arbe, cd))
        BY <3>8, Zenon DEF Join
      <4> QED
        BY <3>6, <3>7, <3>9, <4>1, Zenon
  <2>5. write_detailed_stats(report) \in Seq(Words)
    <3>1. /\ a \o reg \in Seq(Words) /\ (a \o reg) \o b \in Seq(Words)
          /\ ((a \o reg) \o b) \o exec \in Seq(Words) /\ c \o d \in Seq(Words)
      BY <1>3, <2>1, JoinFacts
    <3> DEFINE y == ((a \o reg) \o b) \o exec
               z == c \o d
    <3>2. y \o z \in Seq(Words)
      <4> HIDE DEF y, z
      <4> QED
        BY <3>1, JoinFacts DEF y, z
    <3> QED
      BY <2>3, <3>2
  <2>6. l6 = (l4 \o c) \o d
    BY DEF c, d
  <2> HIDE DEF l4, l6
  <2> QED
    BY <2>4, <2>5, <2>6
<1> HIDE DEF l6, r5
<1> QED
  BY <1>9, <1>10, <1>11
\* The lines of a file are those of its chunks.
ChunkLines(chunk) == IF chunk.run = 0 THEN <<Blank>> ELSE write_detailed_stats(chunk)
ChunksLines(file) == [i \in DOMAIN file |-> ChunkLines(file[i])]

\* What the reports in a file were written from.
Shown(file) ==
    [section |-> "none",
     registered |-> SrcLines \cap UNION {r.registered : r \in Range(file)},
     executed |-> SrcLines \cap UNION {r.executed : r \in Range(file)}]

\* One chunk more: the parser is outside the sections before and after it.
LEMMA ChunkRead ==
    ASSUME NEW file \in Seq(Chunks), NEW chunk \in Chunks,
           NEW lines \in Seq(Words), Read(lines) = Shown(file)
    PROVE  /\ ChunkLines(chunk) \in Seq(Words)
           /\ Read(lines \o ChunkLines(chunk)) = Shown(Append(file, chunk))
<1> DEFINE all == Range(Append(file, chunk))
<1>1. all = Range(file) \cup {chunk}
  BY AppendRange
<1>2. /\ UNION {r.registered : r \in all} = (UNION {r.registered : r \in Range(file)}) \cup chunk.registered
      /\ UNION {r.executed : r \in all} = (UNION {r.executed : r \in Range(file)}) \cup chunk.executed
  <2> DEFINE regs(S) == {r.registered : r \in S}
             execs(S) == {r.executed : r \in S}
  <2>1. \A A, B, c : A = B \cup {c} => UNION A = (UNION B) \cup c
    OBVIOUS
  <2>2. regs(all) = regs(Range(file)) \cup {chunk.registered}
    BY <1>1
  <2>3. execs(all) = execs(Range(file)) \cup {chunk.executed}
    BY <1>1
  <2> HIDE DEF all, regs, execs
  <2>4. UNION regs(all) = (UNION regs(Range(file))) \cup chunk.registered
    BY <2>1, <2>2
  <2>5. UNION execs(all) = (UNION execs(Range(file))) \cup chunk.executed
    BY <2>1, <2>3
  <2> QED
    BY <2>4, <2>5, Zenon DEF regs, execs
<1>3. Shown(Append(file, chunk))
        = [section |-> "none",
           registered |-> Shown(file).registered \cup (SrcLines \cap chunk.registered),
           executed |-> Shown(file).executed \cup (SrcLines \cap chunk.executed)]
  <2> DEFINE reg == UNION {r.registered : r \in Range(file)}
             exec == UNION {r.executed : r \in Range(file)}
  <2>1. Shown(file).registered = SrcLines \cap reg /\ Shown(file).executed = SrcLines \cap exec
    BY DEF Shown
  <2>2. Shown(Append(file, chunk))
          = [section |-> "none", registered |-> SrcLines \cap (reg \cup chunk.registered),
             executed |-> SrcLines \cap (exec \cup chunk.executed)]
    <3>1. /\ UNION {r.registered : r \in all} = reg \cup chunk.registered
          /\ UNION {r.executed : r \in all} = exec \cup chunk.executed
      BY <1>2, Zenon
    <3> HIDE DEF reg, exec
    <3> QED
      BY <3>1, Zenon DEF Shown
  <2> HIDE DEF reg, exec
  <2>3. /\ SrcLines \cap (reg \cup chunk.registered) = (SrcLines \cap reg) \cup (SrcLines \cap chunk.registered)
        /\ SrcLines \cap (exec \cup chunk.executed) = (SrcLines \cap exec) \cup (SrcLines \cap chunk.executed)
    OBVIOUS
  <2> QED
    BY <2>1, <2>2, <2>3
<1>4. Read(lines) \in States /\ Read(lines).section = "none"
  BY DEF Shown, States
<1>5. CASE chunk.run = 0
  <2>1. chunk.registered = {} /\ chunk.executed = {} /\ ChunkLines(chunk) = <<Blank>>
    BY <1>5 DEF Chunks, ChunkLines
  <2>2. Blank \in Words /\ lines \o <<Blank>> = Append(lines, Blank) /\ <<Blank>> \in Seq(Words)
    BY DEF Words
  <2>3. Read(Append(lines, Blank)) = ParseLine(Read(lines), Blank)
    BY <2>2, AnalysisSteps DEF Read
  <2>4. ParseLine(Read(lines), Blank) = [Read(lines) EXCEPT !.section = "none"]
    BY <1>4, LineFacts
  <2>5. Read(lines) = [section |-> "none", registered |-> Read(lines).registered, executed |-> Read(lines).executed]
    BY <1>4 DEF States
  <2>6. ParseLine(Read(lines), Blank) = Read(lines)
    BY <2>4, <2>5
  <2>7. Shown(Append(file, chunk)) = Shown(file)
    <3>1. Shown(file) = [section |-> "none", registered |-> Shown(file).registered, executed |-> Shown(file).executed]
      BY <2>5
    <3> QED
      BY <1>3, <2>1, <3>1
  <2> QED
    BY <2>1, <2>2, <2>3, <2>6, <2>7
<1>6. CASE chunk.run = 1
  <2>1. chunk.registered \in SUBSET Lines /\ chunk.executed \in SUBSET Lines /\ ChunkLines(chunk) = write_detailed_stats(chunk)
    BY <1>6 DEF Chunks, ChunkLines
  <2>2. /\ write_detailed_stats(chunk) \in Seq(Words)
        /\ Read(lines \o write_detailed_stats(chunk))
             = [section |-> "none",
                registered |-> Read(lines).registered \cup (SrcLines \cap chunk.registered),
                executed |-> Read(lines).executed \cup (SrcLines \cap chunk.executed)]
    BY <1>4, <2>1, ReportRead
  <2> QED
    BY <1>3, <2>1, <2>2
<1> QED
  BY <1>5, <1>6 DEF Chunks

\* The analysis of a file finds what the reports in it were written from.
LEMMA FileRead ==
    ASSUME NEW file \in Seq(Chunks)
    PROVE  Read(FileLines(file)) = Shown(file)
<1> DEFINE Good == {s \in Seq(Chunks) : /\ ChunksLines(s) \in Seq(Seq(Words))
                                        /\ Read(FlattenSeq(ChunksLines(s))) = Shown(s)}
<1>1. << >> \in Good
  <2>1. << >> \in Seq(Chunks) /\ ChunksLines(<< >>) = << >> /\ << >> \in Seq(Seq(Words)) /\ Len(<< >>) = 0
    BY DEF ChunksLines
  <2>2. FlattenSeq(<< >>) = << >>
    BY <2>1 DEF FlattenSeq
  <2>3. Read(<< >>) = Nothing
    BY AnalysisSteps DEF Read
  <2>4. Range(<< >>) = {}
    BY DEF Range
  <2>5. Shown(<< >>) = Nothing
    BY <2>4 DEF Shown, Nothing
  <2> QED
    BY <2>1, <2>2, <2>3, <2>5
<1>2. ASSUME NEW s \in Seq(Chunks), NEW x \in Chunks, s \in Good
      PROVE  Append(s, x) \in Good
  <2> DEFINE ss == ChunksLines(s)
  <2>1. ss \in Seq(Seq(Words)) /\ Read(FlattenSeq(ss)) = Shown(s)
    BY <1>2
  <2>2. FlattenSeq(ss) \in Seq(Words)
    BY <2>1, FlattenType
  <2>3. ChunkLines(x) \in Seq(Words) /\ Read(FlattenSeq(ss) \o ChunkLines(x)) = Shown(Append(s, x))
    BY <2>1, <2>2, ChunkRead
  <2>4. ChunksLines(Append(s, x)) = Append(ss, ChunkLines(x))
    <3> DEFINE a == Append(s, x)
    <3>1. /\ DOMAIN s = 1 .. Len(s) /\ Len(s) \in Nat /\ DOMAIN a = 1 .. Len(s) + 1
          /\ a[Len(s) + 1] = x /\ \A i \in DOMAIN s : a[i] = s[i]
      OBVIOUS
    <3>2. Len(ss) = Len(s) /\ \A i \in 1 .. Len(s) : ss[i] = ChunkLines(s[i])
      BY <3>1 DEF ChunksLines
    <3> DEFINE aa == Append(ss, ChunkLines(x))
    <3>3. /\ DOMAIN aa = 1 .. Len(s) + 1 /\ aa[Len(s) + 1] = ChunkLines(x)
          /\ \A i \in 1 .. Len(s) : aa[i] = ss[i]
          /\ aa = [i \in DOMAIN aa |-> aa[i]]
      <4> HIDE DEF ss
      <4> QED
        BY <2>1, <2>3, <3>2, AppendFacts
    <3> HIDE DEF a, aa, ss
    <3>4. \A i \in 1 .. Len(s) + 1 : aa[i] = ChunkLines(a[i])
      BY <3>1, <3>2, <3>3
    <3> QED
      BY <3>1, <3>3, <3>4 DEF ChunksLines, a, aa
  <2> HIDE DEF ss
  <2>5. FlattenSeq(Append(ss, ChunkLines(x))) = FlattenSeq(ss) \o ChunkLines(x)
    BY <2>1, <2>3, FlattenAppend
  <2>6. Append(ss, ChunkLines(x)) \in Seq(Seq(Words))
    BY <2>1, <2>3
  <2>7. Append(s, x) \in Seq(Chunks)
    OBVIOUS
  <2> QED
    BY <2>3, <2>4, <2>5, <2>6, <2>7
<1>3. Seq(Chunks) \subseteq Good
  <2> HIDE DEF Good
  <2> QED
    BY <1>1, <1>2, SequenceInduction
<1>4. FileLines(file) = FlattenSeq(ChunksLines(file))
  BY DEF FileLines, ChunksLines, ChunkLines
<1> QED
  BY <1>3, <1>4
-----------------------------------------------------------------------------
(* The loops                                                               *)

\* The run at the places of the loops is a run, and not one that is still to come.
LEMMA ThisRun ==
    ASSUME LoopInv
    PROVE  /\ E \in Exps /\ C \in Range(Crates) /\ This \in Runs /\ This = <<C, E>>
           /\ Underway => This \notin Later
<1>1. E \in Exps /\ C \in Range(Crates)
  BY NamesFacts DEF LoopInv, E, C
<1>2. This \in Runs /\ This = <<C, E>>
  BY <1>1 DEF This, Runs
<1>3. ASSUME Underway, This \in Later PROVE FALSE
  <2>1. PICK i \in DOMAIN Crates, j \in DOMAIN Experiments :
          /\ This = <<Crates[i], Experiments[j]>>
          /\ \/ j > exp
             \/ j = exp /\ i > crate
             \/ j = exp /\ i = crate /\ ~ Underway
    BY <1>3 DEF Later
  <2>2. Crates[i] = Crates[crate] /\ Experiments[j] = Experiments[exp]
    BY <1>2, <2>1 DEF C, E
  <2>3. i = crate /\ j = exp
    BY <2>2, NamesFacts DEF LoopInv
  <2> QED
    BY <1>3, <2>1, <2>3, NamesFacts DEF LoopInv
<1> QED
  BY <1>1, <1>2, <1>3

\* The next crate is one that the pipeline has not come to.
LEMMA NextRun ==
    ASSUME LoopInv, Underway, NextCrate
    PROVE  /\ exp' \in DOMAIN Experiments /\ crate' \in DOMAIN Crates /\ cmd' = 1
           /\ pc' \in {"crate", "build", "exited"} /\ (pc' = "crate" => exp' = exp)
           /\ Pending' \subseteq Later
<1>1. /\ exp \in 1 .. Len(Experiments) /\ crate \in 1 .. Len(Crates)
      /\ Len(Experiments) \in Nat \ {0} /\ Len(Crates) \in Nat \ {0}
      /\ DOMAIN Experiments = 1 .. Len(Experiments) /\ DOMAIN Crates = 1 .. Len(Crates)
      /\ pc # "exited"
  BY NamesFacts DEF LoopInv, Underway
<1>2. CASE crate < Len(Crates)
  <2>1. pc' = "crate" /\ crate' = crate + 1 /\ exp' = exp /\ cmd' = 1
    BY <1>2 DEF NextCrate, Advance
  <2>2. crate' \in DOMAIN Crates
    BY <1>1, <1>2, <2>1
  <2>3. This' = <<Crates[crate'], Experiments[exp]>> /\ This' \in Runs
    BY <1>1, <2>1, <2>2, NamesFacts DEF This, C, E, Runs
  <2>4. This' \in Later
    BY <1>1, <2>1, <2>2, <2>3 DEF Later
  <2>5. Later' \subseteq Later
    BY <1>1, <2>1 DEF Later, Underway
  <2> QED
    BY <1>1, <2>1, <2>2, <2>4, <2>5 DEF Pending
<1>3. CASE ~ (crate < Len(Crates)) /\ exp < Len(Experiments)
  <2>1. pc' = "build" /\ crate' = 1 /\ exp' = exp + 1 /\ cmd' = 1
    BY <1>3 DEF NextCrate, Advance
  <2>2. crate' \in DOMAIN Crates /\ exp' \in DOMAIN Experiments
    BY <1>1, <1>3, <2>1
  <2>3. Later' \subseteq Later
    BY <1>1, <2>1 DEF Later
  <2> QED
    BY <2>1, <2>2, <2>3 DEF Pending, Underway
<1>4. CASE ~ (crate < Len(Crates)) /\ ~ (exp < Len(Experiments))
  <2>1. pc' = "exited" /\ crate' = 1 /\ exp' = exp /\ cmd' = 1
    BY <1>4 DEF NextCrate, Advance
  <2>2. Pending' = {}
    BY <2>1 DEF Pending, Later, Underway
  <2> QED
    BY <1>1, <2>1, <2>2
<1> QED
  BY <1>2, <1>3, <1>4

\* Within a round of the loops no run becomes pending.
LEMMA SameRun ==
    ASSUME LoopInv, exp' = exp, crate' = crate,
           \/ pc' = pc
           \/ pc \in {"build", "compile"}
           \/ Underway /\ pc' \in {"crate", "command"}
    PROVE  Pending' \subseteq Pending /\ E' = E /\ C' = C /\ This' = This
<1>1. E' = E /\ C' = C /\ This' = This
  BY DEF E, C, This
<1>2. \A r \in Runs : r \in Later' => r \in Later
  BY DEF Later, Underway
<1>3. Later' \subseteq Later
  BY <1>2 DEF Later
<1>4. CASE Underway' => Underway
  BY <1>1, <1>3, <1>4 DEF Pending
<1>5. CASE ~ Underway /\ Underway'
  <2>1. pc \in {"build", "compile"}
    BY <1>5 DEF Underway
  <2>2. This \in Runs /\ This = <<Crates[crate], Experiments[exp]>>
    BY ThisRun DEF C, E
  <2>3. This \in Later
    BY <1>5, <2>1, <2>2 DEF Later, LoopInv
  <2> QED
    BY <1>1, <1>3, <1>5, <2>3 DEF Pending
<1> QED
  BY <1>4, <1>5

\* The ways in which a crate is left, and those of building a library.
Leave == SkipCrate \/ CommandFails \/ CommandTimesOut \/ SaveResults
Build == StagePrebuilt \/ BuildNothing \/ CargoClean \/ CargoBuild
Processing(p) == Link(p) \/ Open(p) \/ WriteReport(p) \/ WriteNewline(p) \/ EndSilently(p)

\* The steps, grouped by what they change.
LEMMA NextSteps ==
    ASSUME [Next]_vars
    PROVE  \/ Build \/ StartCommand \/ CommandSucceeds \/ Leave
           \/ \E p \in Runs : Processing(p)
           \/ UNCHANGED vars
BY DEF Next, Build, Leave, Processing, Finished

\* build_perf leaves the loops, the files and the processes alone.
LEMMA BuildFrame ==
    ASSUME Build
    PROVE  /\ exp' = exp /\ crate' = crate /\ cmd' = cmd /\ disk' = disk /\ proc' = proc
           /\ failed' = failed /\ passed' = passed /\ unclean \subseteq unclean' /\ wrote' = wrote
           /\ pc \in {"build", "compile"} /\ pc' \in {"compile", "crate", "exited"}
<1> USE DEF loops, files, history, Stage
<1>1. CASE StagePrebuilt
  BY <1>1 DEF StagePrebuilt
<1>2. CASE BuildNothing
  BY <1>2 DEF BuildNothing
<1>3. CASE CargoClean
  BY <1>3 DEF CargoClean
<1>4. CASE CargoBuild
  BY <1>4 DEF CargoBuild
<1> QED
  BY <1>1, <1>2, <1>3, <1>4 DEF Build

\* A crate is left for the next one, and the library stays.
LEMMA LeaveFrame ==
    ASSUME Leave, LoopInv
    PROVE  /\ Underway /\ NextCrate /\ PERF_RLIB' = PERF_RLIB /\ staged' = staged
           /\ unclean' = unclean /\ wrote' = wrote
<1> USE DEF library, history, Underway
<1>1. CASE SkipCrate
  BY <1>1 DEF SkipCrate
<1>2. CASE CommandFails
  BY <1>2 DEF CommandFails
<1>3. CASE CommandTimesOut
  BY <1>3 DEF CommandTimesOut
<1>4. CASE SaveResults
  BY <1>4 DEF SaveResults
<1> QED
  BY <1>1, <1>2, <1>3, <1>4 DEF Leave

\* A command that starts or succeeds stays with the crate.
LEMMA CommandFrame ==
    ASSUME StartCommand \/ CommandSucceeds
    PROVE  /\ Underway /\ pc' \in {"crate", "command"} /\ exp' = exp /\ crate' = crate
           /\ PERF_RLIB' = PERF_RLIB /\ staged' = staged /\ disk' = disk
           /\ failed' = failed /\ passed' = passed /\ unclean' = unclean /\ wrote' = wrote
<1> USE DEF library, history, files, loops, Underway
<1>1. CASE StartCommand
  BY <1>1 DEF StartCommand
<1>2. CASE CommandSucceeds
  BY <1>2 DEF CommandSucceeds
<1> QED
  BY <1>1, <1>2

\* A process changes nothing of the pipeline itself.
LEMMA ProcessFrame ==
    ASSUME NEW p \in Runs, Processing(p)
    PROVE  /\ pc' = pc /\ exp' = exp /\ crate' = crate /\ cmd' = cmd
           /\ PERF_RLIB' = PERF_RLIB /\ staged' = staged
           /\ failed' = failed /\ passed' = passed /\ unclean' = unclean
BY Zenon DEF Processing, Link, Open, WriteReport, WriteNewline, EndSilently, Step, loops, library

\* A stuttering step changes nothing.
LEMMA StutterFrame ==
    ASSUME UNCHANGED vars
    PROVE  /\ pc' = pc /\ exp' = exp /\ crate' = crate /\ cmd' = cmd
           /\ PERF_RLIB' = PERF_RLIB /\ staged' = staged /\ disk' = disk /\ proc' = proc
           /\ failed' = failed /\ passed' = passed /\ unclean' = unclean /\ wrote' = wrote
BY DEF vars, loops, library, files, history
-----------------------------------------------------------------------------
(* The staged library                                                      *)

\* build_perf ends with the library of the experiment staged.
LEMMA StageBuild == ASSUME StageInv, Build PROVE StageInv'
<1>0. exp' = exp /\ unclean \subseteq unclean'
  BY BuildFrame
<1>1. E' = E
  BY <1>0 DEF E
<1>2. CASE StagePrebuilt
  BY <1>0, <1>1, <1>2 DEF StagePrebuilt, Stage, StageInv
<1>3. CASE BuildNothing
  BY <1>0, <1>1, <1>3 DEF BuildNothing, Stage, StageInv
<1>4. CASE CargoClean
  <2>1. pc' = "compile" /\ E # Native
    BY <1>4 DEF CargoClean, Stage
  <2>2. staged' = {} \/ E \in unclean'
    BY <1>4 DEF CargoClean, Stage
  <2> QED
    BY <1>1, <2>1, <2>2 DEF StageInv
<1>5. CASE CargoBuild
  <2>1. pc = "compile"
    BY <1>5 DEF CargoBuild
  <2>2. CASE pc' = "crate" /\ staged' = staged \cup {E} /\ PERF_RLIB' = E
    BY <1>0, <1>1, <2>1, <2>2 DEF StageInv
  <2>3. CASE pc' = "exited"
    BY <2>3 DEF StageInv
  <2> QED
    BY <1>5, <2>2, <2>3 DEF CargoBuild, Stage
<1> QED
  BY <1>2, <1>3, <1>4, <1>5 DEF Build

\* Only build_perf changes what is staged.
LEMMA StageNext == ASSUME StageInv, LoopInv, [Next]_vars PROVE StageInv'
<1>1. CASE Build
  BY <1>1, StageBuild
<1>2. CASE Leave
  <2>1. /\ pc' \in {"crate", "build", "exited"} /\ (pc' = "crate" => exp' = exp) /\ Underway
        /\ PERF_RLIB' = PERF_RLIB /\ staged' = staged /\ unclean' = unclean
    BY <1>2, LeaveFrame, NextRun
  <2>2. pc' = "crate" => E' = E
    BY <2>1 DEF E
  <2> QED
    BY <2>1, <2>2 DEF StageInv, Underway
<1>3. CASE StartCommand \/ CommandSucceeds
  <2>1. /\ Underway /\ pc' \in {"crate", "command"} /\ exp' = exp
        /\ PERF_RLIB' = PERF_RLIB /\ staged' = staged /\ unclean' = unclean
    BY <1>3, CommandFrame
  <2>2. E' = E
    BY <2>1 DEF E
  <2> QED
    BY <2>1, <2>2 DEF StageInv, Underway
<1>4. CASE (\E p \in Runs : Processing(p)) \/ UNCHANGED vars
  <2>1. /\ pc' = pc /\ exp' = exp /\ PERF_RLIB' = PERF_RLIB /\ staged' = staged
        /\ unclean' = unclean
    BY <1>4, ProcessFrame, StutterFrame
  <2>2. E' = E
    BY <2>1 DEF E
  <2> QED
    BY <2>1, <2>2 DEF StageInv
<1> QED
  BY <1>1, <1>2, <1>3, <1>4, NextSteps

\* The loops stay within their bounds, and what is staged is an experiment's.
LEMMA LoopBuild == ASSUME StageInv, LoopInv, Build PROVE LoopInv'
<1>0. /\ exp' = exp /\ crate' = crate /\ cmd' = cmd
      /\ pc \in {"build", "compile"} /\ pc' \in {"compile", "crate", "exited"}
  BY BuildFrame
<1>1. E' = E /\ C' = C /\ E \in Exps
  BY <1>0, ThisRun DEF E, C
<1>2. PERF_RLIB' \in (Exps \ {Native}) \cup {None} /\ staged' \subseteq Exps \cup {None}
  <2> USE <1>1, NamesFacts DEF Stage, LoopInv, StageInv
  <2>1. CASE StagePrebuilt
    BY <2>1 DEF StagePrebuilt
  <2>2. CASE BuildNothing
    BY <2>2 DEF BuildNothing
  <2>3. CASE CargoClean
    BY <2>3 DEF CargoClean
  <2>4. CASE CargoBuild
    BY <2>4 DEF CargoBuild
  <2> QED
    BY <2>1, <2>2, <2>3, <2>4 DEF Build
<1> QED
  BY <1>0, <1>1, <1>2 DEF LoopInv

\* The commands of a crate are a sequence.
LEMMA CommandsFacts ==
    ASSUME NEW c \in Range(Crates)
    PROVE  /\ Len(Commands[c]) \in Nat /\ DOMAIN Commands[c] = 1 .. Len(Commands[c])
           /\ \A i \in DOMAIN Commands[c] :
                /\ Commands[c][i].registered \in SUBSET Lines
                /\ Commands[c][i].executed \in SUBSET Lines
<1>1. Commands[c] \in Seq([registered : SUBSET Lines, executed : SUBSET Lines])
  BY CommandsAssumption
<1>2. \A i \in DOMAIN Commands[c] :
        Commands[c][i] \in [registered : SUBSET Lines, executed : SUBSET Lines]
  <2> DEFINE R == [registered : SUBSET Lines, executed : SUBSET Lines]
             s == Commands[c]
  <2>1. s \in Seq(R)
    BY <1>1
  <2> HIDE DEF R, s
  <2>2. \A i \in DOMAIN s : s[i] \in R
    BY <2>1
  <2> QED
    BY <2>2 DEF R, s
<1> QED
  BY <1>1, <1>2

\* The loops stay within their bounds.
LEMMA LoopNext == ASSUME StageInv, LoopInv, [Next]_vars PROVE LoopInv'
<1>0. /\ C \in Range(Crates) /\ Len(Commands[C]) \in Nat
  BY ThisRun, CommandsFacts
<1>1. CASE Build
  BY <1>1, LoopBuild
<1>2. CASE Leave
  <2>1. /\ exp' \in DOMAIN Experiments /\ crate' \in DOMAIN Crates /\ cmd' = 1
        /\ pc' \in {"crate", "build", "exited"}
        /\ PERF_RLIB' = PERF_RLIB /\ staged' = staged
    BY <1>2, LeaveFrame, NextRun
  <2>2. C' \in Range(Crates)
    BY <2>1, NamesFacts DEF C
  <2>3. Len(Commands[C']) \in Nat
    BY <2>2, CommandsFacts
  <2>4. cmd' \in 1 .. Len(Commands[C']) + 1
    BY <2>1, <2>3
  <2> QED
    BY <2>1, <2>4 DEF LoopInv
<1>3. CASE StartCommand
  <2>1. /\ pc' = "command" /\ C \notin Skipped /\ cmd <= Len(Commands[C]) /\ cmd' = cmd
        /\ exp' = exp /\ crate' = crate /\ PERF_RLIB' = PERF_RLIB /\ staged' = staged
    BY <1>3 DEF StartCommand, loops, library
  <2> QED
    BY <2>1 DEF LoopInv, C
<1>4. CASE CommandSucceeds
  <2>1. /\ pc = "command" /\ pc' = "crate" /\ cmd' = cmd + 1
        /\ exp' = exp /\ crate' = crate /\ PERF_RLIB' = PERF_RLIB /\ staged' = staged
    BY <1>4 DEF CommandSucceeds, library
  <2>2. C' = C
    BY <2>1 DEF C
  <2>3. cmd' \in 1 .. Len(Commands[C']) + 1
    BY <1>0, <2>1, <2>2 DEF LoopInv
  <2> QED
    BY <2>1, <2>3 DEF LoopInv
<1>5. CASE (\E p \in Runs : Processing(p)) \/ UNCHANGED vars
  <2>1. /\ pc' = pc /\ exp' = exp /\ crate' = crate /\ cmd' = cmd
        /\ PERF_RLIB' = PERF_RLIB /\ staged' = staged
    BY <1>5, ProcessFrame, StutterFrame
  <2>2. C' = C
    BY <2>1 DEF C
  <2> QED
    BY <2>1, <2>2 DEF LoopInv
<1> QED
  BY <1>1, <1>2, <1>3, <1>4, <1>5, NextSteps
-----------------------------------------------------------------------------
(* What a step of a process changes                                        *)

\* A process that has ended has no file open.
LEMMA EndedFacts ==
    Ended.at = "ended" /\ Ended.file = << >> /\ Ended.lib = None /\ Ended \in Processes
BY DEF Ended, Processes

\* Its own state: it goes on to link, to open the file of its library, and to end.
ProcessChange(p) ==
    /\ proc[p].at # "ended"
    /\ proc' \in [Runs -> Processes]
    /\ \A q \in Runs \ {p} : proc'[q] = proc[q]
    /\ proc'[p].at # "ended" => proc'[p].cmd = proc[p].cmd
    /\ IF proc'[p].at = "running" THEN proc'[p].lib = IF p[2] = Native THEN None ELSE PERF_RLIB
                                  ELSE proc'[p].lib \in {proc[p].lib, None}
    /\ IF Writing(p)' THEN \/ Writing(p) /\ proc'[p].file = proc[p].file
                           \/ /\ proc[p].at = "running" /\ proc[p].lib \in Exps \ {Native}
                              /\ proc'[p].file = Output(proc[p].lib)
                      ELSE proc'[p].file = << >>

\* The files: it makes one, or appends to the one that it has open.
DiskChange(p) ==
    /\ DOMAIN disk \subseteq DOMAIN disk' /\ disk' \in [DOMAIN disk' -> Seq(Chunks)]
    /\ \A f \in DOMAIN disk' \ DOMAIN disk :
         /\ proc[p].lib \in Exps \ {Native} /\ f = Output(proc[p].lib)
         /\ ReportersOf(disk'[f]) = {}
    /\ \A f \in DOMAIN disk :
         \/ ReportersOf(disk'[f]) = ReportersOf(disk[f])
         \/ /\ Writing(p) /\ f = proc[p].file
            /\ ReportersOf(disk'[f]) = ReportersOf(disk[f]) \cup {p}
    /\ Writing(p)' => proc'[p].file \in DOMAIN disk'

\* A file to which a chunk is appended.
LEMMA AppendDisk ==
    ASSUME disk \in [DOMAIN disk -> Seq(Chunks)], NEW g \in DOMAIN disk, NEW chunk \in Chunks,
           disk' = [disk EXCEPT ![g] = Append(@, chunk)]
    PROVE  /\ DOMAIN disk' = DOMAIN disk /\ disk' \in [DOMAIN disk' -> Seq(Chunks)]
           /\ \A f \in DOMAIN disk :
                ReportersOf(disk'[f]) =
                  IF f = g /\ chunk.run = 1 THEN ReportersOf(disk[f]) \cup {chunk.by}
                  ELSE ReportersOf(disk[f])
<1> DEFINE a == Append(disk[g], chunk)
<1>1. disk[g] \in Seq(Chunks)
  OBVIOUS
<1>2. /\ a \in Seq(Chunks)
      /\ ReportersOf(a) = IF chunk.run = 1 THEN ReportersOf(disk[g]) \cup {chunk.by}
                          ELSE ReportersOf(disk[g])
  BY <1>1, AppendReporters
<1>3. disk' = [disk EXCEPT ![g] = a]
  OBVIOUS
<1> HIDE DEF a
<1>4. DOMAIN disk' = DOMAIN disk /\ disk'[g] = a /\ \A f \in DOMAIN disk : f # g => disk'[f] = disk[f]
  BY <1>3
<1>5. disk' \in [DOMAIN disk -> Seq(Chunks)]
  BY <1>2, <1>3
<1>6. ASSUME NEW f \in DOMAIN disk
      PROVE  ReportersOf(disk'[f]) =
               IF f = g /\ chunk.run = 1 THEN ReportersOf(disk[f]) \cup {chunk.by}
               ELSE ReportersOf(disk[f])
  <2>1. CASE f = g
    BY <1>2, <1>4, <2>1
  <2>2. CASE f # g
    BY <1>4, <2>2
  <2> QED
    BY <2>1, <2>2
<1> QED
  BY <1>4, <1>5, <1>6

\* A process links the library that is staged.
LEMMA LinkChange ==
    ASSUME LoopInv, FileInv, NEW p \in Runs, Link(p)
    PROVE  ProcessChange(p) /\ DiskChange(p)
<1> DEFINE lib == IF p[2] = Native THEN None ELSE PERF_RLIB
           new == [proc[p] EXCEPT !.at = "running", !.lib = lib]
<1>0. proc \in [Runs -> Processes] /\ proc[p] \in Processes /\ disk \in [DOMAIN disk -> Seq(Chunks)]
  BY DEF FileInv
<1>1. proc[p].at = "started" /\ proc' = [proc EXCEPT ![p] = new] /\ disk' = disk
  BY Zenon DEF Link, Step
<1>2. lib \in (Exps \ {Native}) \cup {None} /\ lib = IF p[2] = Native THEN None ELSE PERF_RLIB
  BY DEF LoopInv
<1> HIDE DEF lib
<1>3. /\ new \in Processes /\ new.at = "running" /\ new.lib = lib /\ new.cmd = proc[p].cmd
      /\ new.file = proc[p].file
  BY <1>0, <1>2 DEF Processes
<1>4. proc[p].file = << >>
  BY <1>1 DEF FileInv, Writing
<1> HIDE DEF new
<1>5. proc' \in [Runs -> Processes] /\ proc'[p] = new /\ \A q \in Runs \ {p} : proc'[q] = proc[q]
  BY <1>0, <1>1, <1>3
<1>6. ~ Writing(p)'
  BY <1>3, <1>5 DEF Writing
<1>7. ProcessChange(p)
  BY <1>1, <1>2, <1>3, <1>4, <1>5, <1>6 DEF ProcessChange
<1>8. DiskChange(p)
  BY <1>0, <1>1, <1>6 DEF DiskChange
<1> QED
  BY <1>7, <1>8

\* write_output opens the file, and makes it if it is not there.
LEMMA OpenChange ==
    ASSUME LoopInv, FileInv, NEW p \in Runs, Open(p)
    PROVE  ProcessChange(p) /\ DiskChange(p)
<1> DEFINE file == Output(proc[p].lib)
           new == [proc[p] EXCEPT !.at = "opened", !.file = file]
<1>0. proc \in [Runs -> Processes] /\ proc[p] \in Processes /\ disk \in [DOMAIN disk -> Seq(Chunks)]
  BY DEF FileInv
<1>1. /\ proc[p].at = "running" /\ proc[p].lib # None /\ proc' = [proc EXCEPT ![p] = new]
      /\ disk' = IF file \in DOMAIN disk THEN disk ELSE Put(<< >>, file)
  BY Zenon DEF Open, Step
<1>2. proc[p].lib \in Exps \ {Native}
  BY <1>0, <1>1 DEF Processes
<1>3. file \in Files /\ file = Output(proc[p].lib)
  BY <1>2, FilesFacts
<1> HIDE DEF file
<1>4. /\ new \in Processes /\ new.at = "opened" /\ new.file = file /\ new.cmd = proc[p].cmd
      /\ new.lib = proc[p].lib
  BY <1>0, <1>3 DEF Processes
<1> HIDE DEF new
<1>5. proc' \in [Runs -> Processes] /\ proc'[p] = new /\ \A q \in Runs \ {p} : proc'[q] = proc[q]
  BY <1>0, <1>1, <1>4
<1>6. /\ DOMAIN disk' = DOMAIN disk \cup {file}
      /\ \A f \in DOMAIN disk' : disk'[f] = IF f \in DOMAIN disk THEN disk[f] ELSE << >>
      /\ disk' = [f \in DOMAIN disk' |-> disk'[f]]
  <2>1. CASE file \in DOMAIN disk
    BY <1>0, <1>1, <2>1
  <2>2. CASE file \notin DOMAIN disk
    BY <1>1, <2>2 DEF Put
  <2> QED
    BY <2>1, <2>2
<1>7. disk' \in [DOMAIN disk' -> Seq(Chunks)]
  <2>1. \A f \in DOMAIN disk' : disk'[f] \in Seq(Chunks)
    BY <1>0, <1>6, EmptyReporters
  <2> QED
    BY <1>6, <2>1
<1>8. ProcessChange(p)
  BY <1>1, <1>2, <1>3, <1>4, <1>5 DEF ProcessChange, Writing
<1>9. DiskChange(p)
  <2>1. \A f \in DOMAIN disk' \ DOMAIN disk : f = file /\ ReportersOf(disk'[f]) = {}
    BY <1>6, EmptyReporters
  <2>2. \A f \in DOMAIN disk : ReportersOf(disk'[f]) = ReportersOf(disk[f])
    BY <1>6
  <2> QED
    BY <1>2, <1>3, <1>4, <1>5, <1>6, <1>7, <2>1, <2>2 DEF DiskChange
<1> QED
  BY <1>8, <1>9

\* write_output appends the report to the file it has opened.
LEMMA WriteReportChange ==
    ASSUME LoopInv, FileInv, NEW p \in Runs, WriteReport(p)
    PROVE  ProcessChange(p) /\ DiskChange(p)
<1> DEFINE shown == Commands[p[1]][proc[p].cmd]
           chunk == Report(p, shown.registered, shown.executed)
           file == proc[p].file
           new == [proc[p] EXCEPT !.at = "written"]
<1>0. proc \in [Runs -> Processes] /\ proc[p] \in Processes /\ disk \in [DOMAIN disk -> Seq(Chunks)]
  BY DEF FileInv
<1>1. /\ proc[p].at = "opened" /\ proc' = [proc EXCEPT ![p] = new]
      /\ disk' = [disk EXCEPT ![file] = Append(@, chunk)]
  BY Zenon DEF WriteReport, Step, AppendTo
<1>2. Writing(p) /\ file \in DOMAIN disk
  BY <1>1 DEF FileInv, Writing
<1>3. chunk \in Chunks /\ chunk.run = 1 /\ chunk.by = p
  <2>1. p[1] \in Range(Crates)
    BY DEF Runs
  <2>2. proc[p].cmd \in DOMAIN Commands[p[1]]
    BY <1>1 DEF FileInv
  <2>3. shown.registered \in SUBSET Lines /\ shown.executed \in SUBSET Lines
    BY <2>1, <2>2, CommandsFacts
  <2> HIDE DEF shown
  <2> QED
    BY <2>3 DEF Report, Chunks
<1>4. /\ new \in Processes /\ new.at = "written" /\ new.file = file /\ new.cmd = proc[p].cmd
      /\ new.lib = proc[p].lib
  BY <1>0 DEF Processes
<1> HIDE DEF new, chunk
<1>5. proc' \in [Runs -> Processes] /\ proc'[p] = new /\ \A q \in Runs \ {p} : proc'[q] = proc[q]
  BY <1>0, <1>1, <1>4
<1>6. /\ DOMAIN disk' = DOMAIN disk /\ disk' \in [DOMAIN disk' -> Seq(Chunks)]
      /\ \A f \in DOMAIN disk :
           ReportersOf(disk'[f]) = IF f = file THEN ReportersOf(disk[f]) \cup {p}
                                   ELSE ReportersOf(disk[f])
  <2> HIDE DEF file
  <2>1. /\ DOMAIN disk' = DOMAIN disk /\ disk' \in [DOMAIN disk' -> Seq(Chunks)]
        /\ \A f \in DOMAIN disk :
             ReportersOf(disk'[f]) =
               IF f = file /\ chunk.run = 1 THEN ReportersOf(disk[f]) \cup {chunk.by}
               ELSE ReportersOf(disk[f])
    BY <1>0, <1>1, <1>2, <1>3, AppendDisk
  <2> QED
    BY <1>3, <2>1
<1>7. ProcessChange(p)
  BY <1>1, <1>2, <1>4, <1>5 DEF ProcessChange, Writing
<1>8. DiskChange(p)
  BY <1>2, <1>4, <1>5, <1>6 DEF DiskChange
<1> QED
  BY <1>7, <1>8

\* writeln! ends with a newline, and the file is closed.
LEMMA WriteNewlineChange ==
    ASSUME LoopInv, FileInv, NEW p \in Runs, WriteNewline(p)
    PROVE  ProcessChange(p) /\ DiskChange(p)
<1> DEFINE chunk == Newline(p)
           file == proc[p].file
<1>0. proc \in [Runs -> Processes] /\ proc[p] \in Processes /\ disk \in [DOMAIN disk -> Seq(Chunks)]
  BY DEF FileInv
<1>1. /\ proc[p].at = "written" /\ proc' = [proc EXCEPT ![p] = Ended]
      /\ disk' = [disk EXCEPT ![file] = Append(@, chunk)]
  BY Zenon DEF WriteNewline, Step, AppendTo
<1>2. Writing(p) /\ file \in DOMAIN disk
  BY <1>1 DEF FileInv, Writing
<1>3. chunk \in Chunks /\ chunk.run = 0
  BY DEF Newline, Chunks
<1> HIDE DEF chunk
<1>4. proc' \in [Runs -> Processes] /\ proc'[p] = Ended /\ \A q \in Runs \ {p} : proc'[q] = proc[q]
  BY <1>0, <1>1, EndedFacts
<1>5. /\ DOMAIN disk' = DOMAIN disk /\ disk' \in [DOMAIN disk' -> Seq(Chunks)]
      /\ \A f \in DOMAIN disk : ReportersOf(disk'[f]) = ReportersOf(disk[f])
  <2> HIDE DEF file
  <2>1. /\ DOMAIN disk' = DOMAIN disk /\ disk' \in [DOMAIN disk' -> Seq(Chunks)]
        /\ \A f \in DOMAIN disk :
             ReportersOf(disk'[f]) =
               IF f = file /\ chunk.run = 1 THEN ReportersOf(disk[f]) \cup {chunk.by}
               ELSE ReportersOf(disk[f])
    BY <1>0, <1>1, <1>2, <1>3, AppendDisk
  <2> QED
    BY <1>3, <2>1
<1>6. ~ Writing(p)'
  BY <1>4, EndedFacts DEF Writing
<1>7. ProcessChange(p)
  BY <1>1, <1>4, <1>6, EndedFacts DEF ProcessChange
<1>8. DiskChange(p)
  BY <1>5, <1>6 DEF DiskChange
<1> QED
  BY <1>7, <1>8

\* A process that ends before it has written changes no file.
LEMMA EndSilentlyChange ==
    ASSUME LoopInv, FileInv, NEW p \in Runs, EndSilently(p)
    PROVE  ProcessChange(p) /\ DiskChange(p)
<1>0. proc \in [Runs -> Processes] /\ disk \in [DOMAIN disk -> Seq(Chunks)]
  BY DEF FileInv
<1>1. /\ proc[p].at \in {"running", "opened", "written"} /\ proc' = [proc EXCEPT ![p] = Ended]
      /\ disk' = disk
  BY Zenon DEF EndSilently, Step
<1>2. proc' \in [Runs -> Processes] /\ proc'[p] = Ended /\ \A q \in Runs \ {p} : proc'[q] = proc[q]
  BY <1>0, <1>1, EndedFacts
<1>3. ~ Writing(p)'
  BY <1>2, EndedFacts DEF Writing
<1>4. ProcessChange(p)
  BY <1>1, <1>2, <1>3, EndedFacts DEF ProcessChange
<1>5. DiskChange(p)
  BY <1>0, <1>1, <1>3 DEF DiskChange
<1> QED
  BY <1>4, <1>5

\* So each step of a process is one of these changes.
LEMMA ProcessChanges ==
    ASSUME LoopInv, FileInv, NEW p \in Runs, Processing(p)
    PROVE  ProcessChange(p) /\ DiskChange(p)
BY LinkChange, OpenChange, WriteReportChange, WriteNewlineChange, EndSilentlyChange DEF Processing
-----------------------------------------------------------------------------
(* What a step of the pipeline changes in the files and the processes      *)

\* shutil.move: what was in one file is in another, also for those who have it open.
Moved(from, to) ==
    /\ DOMAIN disk' = (DOMAIN disk \ {from}) \cup {to}
    /\ disk' \in [DOMAIN disk' -> Seq(Chunks)]
    /\ disk'[to] = disk[from] /\ \A f \in DOMAIN disk' \ {to} : disk'[f] = disk[f]
    /\ proc' \in [Runs -> Processes]
    /\ \A p \in Runs : /\ proc'[p].at = proc[p].at /\ proc'[p].lib = proc[p].lib
                       /\ proc'[p].cmd = proc[p].cmd
                       /\ proc'[p].file = IF proc[p].file = from THEN to ELSE proc[p].file

\* That is what Move does to the files and the processes.
LEMMA MoveChange ==
    ASSUME FileInv, NEW from \in DOMAIN disk, NEW to \in Files, to # from,
           \A e \in Exps : to # Fallback(e), Move(from, to)
    PROVE  Moved(from, to)
<1>0. proc \in [Runs -> Processes] /\ disk \in [DOMAIN disk -> Seq(Chunks)]
  BY DEF FileInv
<1> DEFINE D == (DOMAIN disk \ {from}) \cup {to}
<1>1. disk' = Restrict(Put(disk[from], to), D)
  BY DEF Move
<1>2. DOMAIN disk' = D /\ \A f \in D : disk'[f] = IF f = to THEN disk[from] ELSE disk[f]
  BY <1>1 DEF Restrict, Put
<1>3. disk' = [f \in DOMAIN disk' |-> disk'[f]]
  BY <1>1 DEF Restrict
<1>4. \A f \in D : disk'[f] \in Seq(Chunks)
  BY <1>0, <1>2
<1>5. disk' \in [DOMAIN disk' -> Seq(Chunks)]
  BY <1>2, <1>3, <1>4
<1>6. /\ DOMAIN disk' = D /\ disk'[to] = disk[from]
      /\ \A f \in DOMAIN disk' \ {to} : disk'[f] = disk[f]
  BY <1>2
<1>7. proc' = [p \in Runs |-> IF proc[p].file = from THEN [proc[p] EXCEPT !.file = to] ELSE proc[p]]
  BY DEF Move
<1>8. ASSUME NEW p \in Runs
      PROVE  /\ proc'[p] \in Processes
             /\ proc'[p].at = proc[p].at /\ proc'[p].lib = proc[p].lib /\ proc'[p].cmd = proc[p].cmd
             /\ proc'[p].file = IF proc[p].file = from THEN to ELSE proc[p].file
  <2>1. proc[p] \in Processes
    BY <1>0
  <2>2. proc'[p] = IF proc[p].file = from THEN [proc[p] EXCEPT !.file = to] ELSE proc[p]
    BY <1>7
  <2>3. CASE proc[p].file = from
    <3>1. proc'[p] = [proc[p] EXCEPT !.file = to]
      BY <2>2, <2>3
    <3> QED
      BY <2>1, <2>3, <3>1 DEF Processes
  <2>4. CASE proc[p].file # from
    BY <2>1, <2>2, <2>4
  <2> QED
    BY <2>3, <2>4
<1>9. proc' \in [Runs -> Processes]
  BY <1>7, <1>8
<1> QED
  BY <1>5, <1>6, <1>8, <1>9 DEF Moved

\* The file that is saved as the result, if there is one.
SavedFrom(from) ==
    /\ from \in DOMAIN disk /\ from \in {Output(E), Fallback(E)} /\ E \in Exps \ {Native}
    /\ from = Fallback(E) => Output(E) \notin DOMAIN disk
    /\ Move(from, Saved(C, E))

\* run_crate saves the output file, or else the fallback, or nothing.
LEMMA SaveChange ==
    ASSUME LoopInv, FileInv, SaveOutput
    PROVE  \/ \E from : SavedFrom(from)
           \/ /\ disk' = disk /\ proc' = proc
              /\ (E \in Exps \ {Native} => Output(E) \notin DOMAIN disk)
<1>0. E \in Exps /\ DOMAIN disk \subseteq Files
  BY ThisRun DEF FileInv
<1>1. CASE HasOutput /\ Move(Output(E), Saved(C, E))
  <2>1. SavedFrom(Output(E))
    BY <1>0, <1>1, FileNames DEF HasOutput, SavedFrom
  <2> QED
    BY <2>1
<1>2. CASE ~HasOutput /\ HasFallback /\ Move(Fallback(E), Saved(C, E))
  <2>1. Fallback(E) \in DOMAIN disk /\ E \in Exps \ {Native}
    BY <1>0, <1>2, FilesFacts DEF HasFallback
  <2>2. SavedFrom(Fallback(E))
    BY <1>2, <2>1 DEF HasOutput, SavedFrom
  <2> QED
    BY <2>2
<1>3. CASE E = Native /\ UNCHANGED <<disk, proc>>
  BY <1>3
<1>4. CASE ~HasOutput /\ ~HasFallback /\ UNCHANGED <<files, proc>>
  BY <1>4 DEF HasOutput, files
<1> QED
  BY <1>1, <1>2, <1>3, <1>4 DEF SaveOutput

\* The process of a command, and what becomes of it.
LEMMA StartChange ==
    ASSUME LoopInv, FileInv, StartCommand
    PROVE  /\ proc' \in [Runs -> Processes] /\ \A q \in Runs \ {This} : proc'[q] = proc[q]
           /\ proc'[This].at = "started" /\ proc'[This].file = << >> /\ proc'[This].lib = None
           /\ proc'[This].cmd \in DOMAIN Commands[C] /\ pc' = "command" /\ disk' = disk
<1> DEFINE new == [Ended EXCEPT !.at = "started", !.cmd = cmd]
<1>0. proc \in [Runs -> Processes] /\ This \in Runs /\ C \in Range(Crates)
  BY ThisRun DEF FileInv
<1>1. proc' = [proc EXCEPT ![This] = new] /\ pc' = "command" /\ cmd <= Len(Commands[C]) /\ disk' = disk
  BY Zenon DEF StartCommand, files
<1>2. cmd \in Nat /\ cmd \in DOMAIN Commands[C]
  <2>1. DOMAIN Commands[C] = 1 .. Len(Commands[C]) /\ Len(Commands[C]) \in Nat
    BY <1>0, CommandsFacts
  <2>2. cmd \in 1 .. Len(Commands[C]) + 1
    BY DEF LoopInv
  <2> QED
    BY <1>1, <2>1, <2>2
<1>3. /\ new \in Processes /\ new.at = "started" /\ new.file = << >> /\ new.cmd = cmd
      /\ new.lib = None
  BY <1>2 DEF Ended, Processes
<1> HIDE DEF new
<1> QED
  BY <1>0, <1>1, <1>2, <1>3

\* A crate is skipped, or a command of it fails, or its results are saved.
LEMMA LeaveChange ==
    ASSUME LoopInv, FileInv, Leave
    PROVE  \/ /\ SkipCrate /\ pc = "crate" /\ C \in Skipped
              /\ disk' = disk /\ proc' = proc /\ failed' = failed /\ passed' = passed
           \/ /\ CommandFails \/ CommandTimesOut
              /\ pc = "command" /\ failed' = failed \cup {This} /\ passed' = passed
              /\ disk' = disk /\ proc' \in {proc, [proc EXCEPT ![This] = Ended]}
           \/ /\ SaveResults /\ pc = "crate" /\ C \notin Skipped
              /\ failed' = failed /\ passed' = passed \cup {This} /\ SaveOutput
<1> USE DEF files, history
<1>1. CASE SkipCrate
  BY <1>1 DEF SkipCrate
<1>2. CASE CommandFails
  BY <1>2 DEF CommandFails
<1>3. CASE CommandTimesOut
  BY <1>3 DEF CommandTimesOut
<1>4. CASE SaveResults
  BY <1>4 DEF SaveResults
<1> QED
  BY <1>1, <1>2, <1>3, <1>4 DEF Leave
-----------------------------------------------------------------------------
(* The files and the processes                                             *)

\* Steps that leave the files alone, and end no process or that of the run under way.
Quiet == disk' = disk /\ (proc' = proc \/ (This \in Runs /\ proc' = [proc EXCEPT ![This] = Ended]))

\* Closing a file keeps FileInv.
LEMMA FileQuiet == ASSUME FileInv, Quiet PROVE FileInv'
<1>1. proc \in [Runs -> Processes]
  BY DEF FileInv
<1>2. /\ proc' \in [Runs -> Processes] /\ disk' = disk
      /\ \A p \in Runs : proc'[p] \in {proc[p], Ended}
  BY <1>1, EndedFacts DEF Quiet
<1>3. ASSUME NEW p \in Runs
      PROVE  /\ proc'[p].at # "ended" => proc'[p].cmd \in DOMAIN Commands[p[1]]
             /\ IF Writing(p)' THEN proc'[p].file \in DOMAIN disk ELSE proc'[p].file = << >>
             /\ \A e \in Exps : proc'[p].file # Fallback(e)
  <2>1. CASE proc'[p] = proc[p]
    BY <2>1 DEF FileInv, Writing
  <2>2. CASE proc'[p] = Ended
    BY <2>2, EndedFacts, FileNames DEF Writing
  <2> QED
    BY <1>2, <2>1, <2>2
<1> QED
  BY <1>2, <1>3 DEF FileInv

\* So does a new process, which has no file yet.
LEMMA FileStart == ASSUME LoopInv, FileInv, StartCommand PROVE FileInv'
<1>0. This \in Runs /\ This[1] = C
  BY ThisRun
<1>1. /\ proc' \in [Runs -> Processes] /\ \A q \in Runs \ {This} : proc'[q] = proc[q]
      /\ proc'[This].at = "started" /\ proc'[This].file = << >>
      /\ proc'[This].cmd \in DOMAIN Commands[C] /\ disk' = disk
  BY StartChange
<1>2. ASSUME NEW p \in Runs
      PROVE  /\ proc'[p].at # "ended" => proc'[p].cmd \in DOMAIN Commands[p[1]]
             /\ IF Writing(p)' THEN proc'[p].file \in DOMAIN disk ELSE proc'[p].file = << >>
             /\ \A e \in Exps : proc'[p].file # Fallback(e)
  <2>1. CASE p # This
    BY <1>1, <2>1 DEF FileInv, Writing
  <2>2. CASE p = This
    <3>1. ~ Writing(p)'
      BY <1>1, <2>2 DEF Writing
    <3> QED
      BY <1>0, <1>1, <2>2, <3>1, FileNames
  <2> QED
    BY <2>1, <2>2
<1> QED
  BY <1>1, <1>2 DEF FileInv

\* What saving a result changes: whoever has the file open follows it.
LEMMA SavedFacts ==
    ASSUME LoopInv, FileInv, NEW from, SavedFrom(from)
    PROVE  /\ Saved(C, E) # from /\ Saved(C, E) \in Files /\ Result(This) = Saved(C, E)
           /\ \A e \in Exps : Saved(C, E) # Output(e) /\ Saved(C, E) # Fallback(e)
           /\ DOMAIN disk' = (DOMAIN disk \ {from}) \cup {Saved(C, E)}
           /\ disk' \in [DOMAIN disk' -> Seq(Chunks)]
           /\ disk'[Saved(C, E)] = disk[from]
           /\ \A f \in DOMAIN disk' \ {Saved(C, E)} : disk'[f] = disk[f]
           /\ proc' \in [Runs -> Processes]
           /\ \A p \in Runs : /\ proc'[p].at = proc[p].at /\ proc'[p].lib = proc[p].lib
                              /\ proc'[p].cmd = proc[p].cmd
                              /\ proc[p].file = from => proc'[p].file = Saved(C, E)
                              /\ proc[p].file # from => proc'[p].file = proc[p].file
<1>1. C \in Range(Crates) /\ E \in Exps \ {Native} /\ This = <<C, E>>
  BY ThisRun DEF SavedFrom
<1>2. from \in DOMAIN disk /\ from \in {Output(E), Fallback(E)} /\ Move(from, Saved(C, E))
  BY DEF SavedFrom
<1>3. Saved(C, E) # from /\ \A c, e, d : Saved(c, e) # Fallback(d) /\ Saved(c, e) # Output(d)
  BY <1>2, FileNames
<1>4. Saved(C, E) \in Files /\ Result(This) = Saved(C, E)
  BY <1>1, FilesFacts, ResultName
<1> DEFINE to == Saved(C, E)
<1>5. from \in DOMAIN disk /\ to \in Files /\ to # from /\ Move(from, to) /\ \A e \in Exps : to # Fallback(e)
  BY <1>2, <1>3, <1>4
<1> HIDE DEF to
<1>6. Moved(from, to)
  BY <1>5, MoveChange
<1>7. \A p \in Runs : /\ proc'[p].at = proc[p].at /\ proc'[p].lib = proc[p].lib
                      /\ proc'[p].cmd = proc[p].cmd
                      /\ proc[p].file = from => proc'[p].file = to
                      /\ proc[p].file # from => proc'[p].file = proc[p].file
  BY <1>6 DEF Moved
<1>8. \A e \in Exps : Saved(C, E) # Output(e) /\ Saved(C, E) # Fallback(e)
  BY <1>3
<1> QED
  BY <1>3, <1>4, <1>6, <1>7, <1>8, Zenon DEF to, Moved

\* A renamed file stays open under its new name.
LEMMA FileMove == ASSUME LoopInv, FileInv, NEW from, SavedFrom(from) PROVE FileInv'
<1> DEFINE to == Saved(C, E)
<1>1. /\ to \in Files /\ \A e \in Exps : to # Fallback(e)
      /\ DOMAIN disk' = (DOMAIN disk \ {from}) \cup {to} /\ disk' \in [DOMAIN disk' -> Seq(Chunks)]
      /\ proc' \in [Runs -> Processes]
      /\ \A p \in Runs : /\ proc'[p].at = proc[p].at /\ proc'[p].cmd = proc[p].cmd
                         /\ proc[p].file = from => proc'[p].file = to
                         /\ proc[p].file # from => proc'[p].file = proc[p].file
  <2>1. /\ to \in Files /\ \A e \in Exps : to # Output(e) /\ to # Fallback(e)
        /\ DOMAIN disk' = (DOMAIN disk \ {from}) \cup {to} /\ disk' \in [DOMAIN disk' -> Seq(Chunks)]
        /\ proc' \in [Runs -> Processes]
    BY SavedFacts
  <2>2. \A p \in Runs : /\ proc'[p].at = proc[p].at /\ proc'[p].lib = proc[p].lib
                        /\ proc'[p].cmd = proc[p].cmd
                        /\ proc[p].file = from => proc'[p].file = to
                        /\ proc[p].file # from => proc'[p].file = proc[p].file
    BY SavedFacts, Zenon
  <2> HIDE DEF to
  <2> QED
    BY <2>1, <2>2
<1>2. from \in DOMAIN disk /\ DOMAIN disk \subseteq Files
  BY DEF SavedFrom, FileInv
<1> HIDE DEF to
<1>3. ASSUME NEW p \in Runs
      PROVE  /\ proc'[p].at # "ended" => proc'[p].cmd \in DOMAIN Commands[p[1]]
             /\ IF Writing(p)' THEN proc'[p].file \in DOMAIN disk' ELSE proc'[p].file = << >>
             /\ \A e \in Exps : proc'[p].file # Fallback(e)
  <2>1. Writing(p)' <=> Writing(p)
    BY <1>1 DEF Writing
  <2>2. ~ Writing(p) => proc[p].file = << >> /\ from # << >>
    BY <1>2, FilesFacts DEF FileInv
  <2>3. Writing(p) => proc[p].file \in DOMAIN disk
    BY DEF FileInv
  <2>4. /\ proc[p].at # "ended" => proc[p].cmd \in DOMAIN Commands[p[1]]
        /\ \A e \in Exps : proc[p].file # Fallback(e)
    BY DEF FileInv
  <2> QED
    BY <1>1, <2>1, <2>2, <2>3, <2>4
<1> QED
  BY <1>1, <1>2, <1>3 DEF FileInv

\* A process opens a file that is there then, and appends chunks.
LEMMA FileProcess ==
    ASSUME LoopInv, FileInv, NEW p \in Runs, Processing(p)
    PROVE  FileInv'
<1>1. ProcessChange(p) /\ DiskChange(p)
  BY ProcessChanges
<1>2. DOMAIN disk' \subseteq Files /\ DOMAIN disk \subseteq DOMAIN disk'
      /\ disk' \in [DOMAIN disk' -> Seq(Chunks)]
  <2>1. \A f \in DOMAIN disk' \ DOMAIN disk : f \in Files
    BY <1>1, FilesFacts DEF DiskChange
  <2> QED
    BY <1>1, <2>1 DEF DiskChange, FileInv
<1>3. proc' \in [Runs -> Processes]
  BY <1>1 DEF ProcessChange
<1>4. ASSUME NEW q \in Runs
      PROVE  /\ proc'[q].at # "ended" => proc'[q].cmd \in DOMAIN Commands[q[1]]
             /\ IF Writing(q)' THEN proc'[q].file \in DOMAIN disk' ELSE proc'[q].file = << >>
             /\ \A e \in Exps : proc'[q].file # Fallback(e)
  <2>1. CASE q # p
    BY <1>1, <1>2, <2>1 DEF ProcessChange, FileInv, Writing
  <2>2. CASE q = p
    <3>1. proc'[p].at # "ended" => proc'[p].cmd \in DOMAIN Commands[p[1]]
      BY <1>1 DEF ProcessChange, FileInv
    <3>2. IF Writing(p)' THEN proc'[p].file \in DOMAIN disk' ELSE proc'[p].file = << >>
      BY <1>1 DEF ProcessChange, DiskChange
    <3>3. ASSUME NEW e \in Exps PROVE proc'[p].file # Fallback(e)
      BY <1>1, FileNames DEF ProcessChange, FileInv
    <3> QED
      BY <2>2, <3>1, <3>2, <3>3
  <2> QED
    BY <2>1, <2>2
<1> QED
  BY <1>2, <1>3, <1>4 DEF FileInv

\* Every step is one of these.
LEMMA Steps ==
    ASSUME LoopInv, FileInv, [Next]_vars
    PROVE  \/ Build \/ CommandSucceeds \/ UNCHANGED vars
           \/ StartCommand
           \/ Leave /\ ~ SaveResults
           \/ SaveResults
           \/ \E p \in Runs : Processing(p)
BY NextSteps DEF Leave

\* All but the processes, the start of one and a rename are quiet.
LEMMA QuietSteps ==
    ASSUME LoopInv, FileInv, Build \/ CommandSucceeds \/ UNCHANGED vars \/ (Leave /\ ~ SaveResults)
    PROVE  Quiet
<1>1. CASE Build \/ UNCHANGED vars
  BY <1>1, BuildFrame, StutterFrame DEF Quiet
<1>2. CASE CommandSucceeds
  BY <1>2 DEF CommandSucceeds, files, Quiet
<1>3. CASE Leave /\ ~ SaveResults
  BY <1>3, LeaveChange, ThisRun DEF Quiet
<1> QED
  BY <1>1, <1>2, <1>3

\* A crate's results are renamed, or there are none.
LEMMA SaveSteps ==
    ASSUME LoopInv, FileInv, SaveResults
    PROVE  (\E from : SavedFrom(from)) \/ (Quiet /\ (E \in Exps \ {Native} => Output(E) \notin DOMAIN disk))
BY SaveChange DEF SaveResults, Quiet

\* So every step keeps FileInv.
LEMMA FileNext == ASSUME LoopInv, FileInv, [Next]_vars PROVE FileInv'
BY Steps, QuietSteps, SaveSteps, FileQuiet, FileStart, FileMove, FileProcess
-----------------------------------------------------------------------------
(* The order of the runs, and who writes                                   *)

\* The run under way has neither passed nor failed yet.
LEMMA ThisPending ==
    ASSUME LoopInv, OrderInv, Underway
    PROVE  This \notin passed /\ This \notin failed
BY DEF OrderInv, Pending

\* A run that has been left is not pending any more; no run becomes pending.
LEMMA PendingStep ==
    ASSUME LoopInv, [Next]_vars
    PROVE  /\ Leave => Pending' \subseteq Later
           /\ ~ Leave => Pending' \subseteq Pending /\ E' = E /\ C' = C /\ This' = This
<1>1. Leave => Pending' \subseteq Later
  BY LeaveFrame, NextRun
<1>2. CASE Build
  BY <1>1, <1>2, BuildFrame, SameRun
<1>3. CASE StartCommand \/ CommandSucceeds
  BY <1>1, <1>3, CommandFrame, SameRun
<1>4. CASE (\E p \in Runs : Processing(p)) \/ UNCHANGED vars
  BY <1>1, <1>4, ProcessFrame, StutterFrame, SameRun
<1> QED
  BY <1>1, <1>2, <1>3, <1>4, NextSteps

\* The runs that have ended, and the files, after a step.
LEMMA HistoryStep ==
    ASSUME LoopInv, FileInv, [Next]_vars
    PROVE  \/ ~ Leave /\ passed' = passed /\ failed' = failed
           \/ /\ Leave /\ ~ SaveResults
              /\ passed' = passed /\ failed' \in {failed, failed \cup {This}}
           \/ Leave /\ SaveResults /\ passed' = passed \cup {This} /\ failed' = failed
<1>1. CASE SaveResults
  BY <1>1 DEF SaveResults, Leave
<1>2. CASE Leave /\ ~ SaveResults
  <2>1. /\ passed' = passed
        /\ failed' = failed \/ failed' = failed \cup {This}
    BY <1>2, LeaveChange
  <2> QED
    BY <1>2, <2>1
<1>3. CASE ~ Leave
  BY <1>3, NextSteps, BuildFrame, CommandFrame, ProcessFrame, StutterFrame
<1> QED
  BY <1>1, <1>2, <1>3

\* A run passes or fails when it is left, once; only then it has a result.
LEMMA OrderNext ==
    ASSUME LoopInv, FileInv, OrderInv, [Next]_vars
    PROVE  OrderInv'
<1>1. passed' \cup failed' \subseteq Runs \ Pending' /\ passed' \cap failed' = {}
  <2>1. CASE ~ Leave
    BY <2>1, HistoryStep, PendingStep DEF OrderInv
  <2>2. CASE Leave
    <3>1. Underway /\ This \in Runs /\ This \notin Later /\ This \notin passed /\ This \notin failed
      BY <2>2, LeaveFrame, ThisRun, ThisPending
    <3>2. Pending' \subseteq Later /\ Later \subseteq Pending
      BY <2>2, PendingStep DEF Pending
    <3>3. \/ passed' = passed /\ failed' \in {failed, failed \cup {This}}
          \/ passed' = passed \cup {This} /\ failed' = failed
      BY <2>2, HistoryStep
    <3> QED
      BY <3>1, <3>2, <3>3 DEF OrderInv
  <2> QED
    BY <2>1, <2>2
<1>2. ASSUME NEW c \in Range(Crates), NEW e \in Exps, Saved(c, e) \in DOMAIN disk'
      PROVE  <<c, e>> \in passed'
  <2>1. passed \subseteq passed'
    BY HistoryStep
  <2>2. CASE Saved(c, e) \in DOMAIN disk
    BY <2>1, <2>2 DEF OrderInv
  <2>3. CASE Saved(c, e) \notin DOMAIN disk
    <3>1. disk' # disk
      BY <1>2, <2>3
    <3>2. ASSUME NEW p \in Runs, Processing(p) PROVE FALSE
      <4>1. DiskChange(p)
        BY <3>2, ProcessChanges
      <4>2. Saved(c, e) = Output(proc[p].lib)
        BY <1>2, <2>3, <4>1 DEF DiskChange
      <4> QED
        BY <4>2, FileNames
    <3>3. SaveResults /\ ~ Quiet
      BY <3>1, <3>2, Steps, QuietSteps, StartChange DEF Quiet
    <3>4. PICK from : SavedFrom(from)
      BY <3>3, SaveSteps
    <3>5. Saved(c, e) = Saved(C, E)
      <4>1. DOMAIN disk' = (DOMAIN disk \ {from}) \cup {Saved(C, E)}
        BY <3>4, SavedFacts
      <4> QED
        BY <1>2, <2>3, <4>1
    <3>6. <<c, e>> = This
      BY <3>5, FileNames, ThisRun
    <3>7. This \in passed'
      BY <3>3, LeaveChange, HistoryStep DEF Leave
    <3> QED
      BY <3>6, <3>7
  <2> QED
    BY <2>2, <2>3
<1> QED
  BY <1>1, <1>2 DEF OrderInv

\* A process that has not ended is that of a run that has failed, or of the command
\* under way.
Owned == \A p \in Runs : proc[p].at # "ended" => p \in failed \/ (pc = "command" /\ p = This)

\* A process outlives its command only when that has timed out.
LEMMA OwnedNext ==
    ASSUME LoopInv, FileInv, OrderInv, Owned, [Next]_vars
    PROVE  Owned'
<1> SUFFICES ASSUME NEW p \in Runs, proc'[p].at # "ended"
             PROVE  p \in failed' \/ (pc' = "command" /\ p = This')
  BY DEF Owned
<1>0. failed \subseteq failed' /\ proc \in [Runs -> Processes] /\ This \in Runs
  BY HistoryStep, ThisRun DEF FileInv
<1>1. CASE Build
  BY <1>0, <1>1, BuildFrame DEF Owned
<1>2. CASE CommandSucceeds
  <2>1. proc' = proc /\ proc[This].at = "ended"
    BY <1>2 DEF CommandSucceeds
  <2> QED
    BY <1>0, <2>1 DEF Owned
<1>3. CASE UNCHANGED vars
  <2>1. pc' = pc /\ proc' = proc /\ This' = This
    BY <1>3, StutterFrame DEF This, C, E
  <2> QED
    BY <1>0, <2>1 DEF Owned
<1>4. CASE StartCommand
  <2>1. pc = "crate" /\ pc' = "command" /\ \A q \in Runs \ {This} : proc'[q] = proc[q]
    BY <1>4, StartChange DEF StartCommand
  <2>2. This' = This
    BY <1>4, CommandFrame DEF This, C, E
  <2> QED
    BY <1>0, <2>1, <2>2 DEF Owned
<1>5. CASE Leave /\ ~ SaveResults
  <2>1. \/ pc = "crate" /\ proc' = proc
        \/ failed' = failed \cup {This} /\ proc' \in {proc, [proc EXCEPT ![This] = Ended]}
    BY <1>5, LeaveChange
  <2>2. proc[p].at # "ended"
    BY <1>0, <2>1, EndedFacts
  <2> QED
    BY <1>0, <2>1, <2>2 DEF Owned
<1>6. CASE SaveResults
  <2>1. pc = "crate"
    BY <1>6 DEF SaveResults
  <2>2. proc[p].at # "ended"
    BY <1>0, <1>6, SaveSteps, SavedFacts, EndedFacts DEF Quiet
  <2> QED
    BY <1>0, <2>1, <2>2 DEF Owned
<1>7. CASE \E q \in Runs : Processing(q)
  <2>1. PICK q \in Runs : Processing(q)
    BY <1>7
  <2>2. pc' = pc /\ This' = This
    BY <2>1, ProcessFrame DEF This, C, E
  <2>3. proc[p].at # "ended"
    BY <2>1, ProcessChanges DEF ProcessChange
  <2> QED
    BY <1>0, <2>2, <2>3 DEF Owned
<1> QED
  BY <1>1, <1>2, <1>3, <1>4, <1>5, <1>6, <1>7, Steps

\* What the process of the run under way has linked and opened.
LEMMA WriterNext ==
    ASSUME StageInv, LoopInv, FileInv, OrderInv, LoopInv', OrderInv', WriterInv, [Next]_vars
    PROVE  WriterInv'
<1>1. Owned'
  BY OwnedNext DEF WriterInv, Owned
<1>2. ASSUME Underway', proc'[This'].at # "ended"
      PROVE  /\ proc'[This'].at = "running" => proc'[This'].lib \in {None, E'}
             /\ Writing(This)' => proc'[This'].file = Output(E')
  <2>1. This' \in Pending' /\ This' \in Runs
    <3>1. This' \in Pending'
      BY <1>2 DEF Pending
    <3>2. E' \in Exps /\ C' \in Range(Crates)
      BY NamesFacts DEF LoopInv, E, C
    <3> QED
      BY <3>1, <3>2 DEF This, Runs
  <2>2. This' \notin failed'
    BY <2>1 DEF OrderInv
  <2>3. pc' = "command"
    BY <1>1, <1>2, <2>1, <2>2 DEF Owned
  <2>4. ~ Build /\ ~ Leave /\ ~ CommandSucceeds
    BY <2>3, BuildFrame, LeaveFrame, NextRun DEF CommandSucceeds
  <2>5. This' = This /\ E' = E
    BY <2>4, PendingStep
  <2>6. CASE StartCommand
    BY <2>5, <2>6, StartChange DEF Writing
  <2>7. CASE UNCHANGED vars
    BY <2>3, <2>5, <2>7, StutterFrame DEF WriterInv, Writing, Underway
  <2>8. CASE \E p \in Runs : Processing(p)
    <3>1. PICK p \in Runs : Processing(p)
      BY <2>8
    <3>2. ProcessChange(p) /\ pc = "command"
      BY <2>3, <3>1, ProcessChanges, ProcessFrame
    <3>3. /\ proc[This].at = "running" => proc[This].lib \in {None, E}
          /\ Writing(This) => proc[This].file = Output(E)
      BY <3>2 DEF WriterInv, Underway
    <3>4. CASE p # This
      BY <2>1, <2>5, <3>2, <3>3, <3>4 DEF ProcessChange, Writing
    <3>5. CASE p = This
      <4>1. This[2] = E /\ (E # Native => PERF_RLIB = E)
        BY <3>2, ThisRun DEF StageInv
      <4>2. proc'[This].at = "running" => proc'[This].lib \in {None, E}
        BY <3>2, <3>5, <4>1 DEF ProcessChange
      <4>3. Writing(p)' =>
              \/ Writing(p) /\ proc'[p].file = proc[p].file
              \/ proc[p].at = "running" /\ proc[p].lib \in Exps /\ proc'[p].file = Output(proc[p].lib)
        BY <3>2 DEF ProcessChange
      <4>4. proc[p].at = "running" /\ proc[p].lib \in Exps => proc[p].lib = E
        BY <3>3, <3>5, NamesFacts
      <4>5. Writing(p)' => proc'[p].file = Output(E)
        BY <3>3, <3>5, <4>3, <4>4
      <4>6. Writing(This)' => Writing(p)'
        BY <2>5, <3>5 DEF Writing
      <4> QED
        BY <2>5, <3>5, <4>2, <4>5, <4>6
    <3> QED
      BY <3>4, <3>5
  <2> QED
    BY <2>4, <2>6, <2>7, <2>8, NextSteps
<1>3. proc'[This'].at = "ended" => proc'[This'].at # "running" /\ ~ Writing(This)'
  BY DEF Writing
<1> QED
  BY <1>1, <1>2, <1>3 DEF WriterInv, Owned

\* A process links what is staged: if its run has not failed, that is while its own
\* command waits for it, and the library is the experiment's.
LEMMA LinkNext ==
    ASSUME StageInv, LoopInv, FileInv, OrderInv, WriterInv, LinkInv, [Next]_vars
    PROVE  LinkInv'
<1> SUFFICES ASSUME NEW p \in Runs, p \notin failed' PROVE proc'[p].lib \in {None, p[2]}
  BY DEF LinkInv
<1>0. proc[p].lib \in {None, p[2]} /\ p \notin failed /\ proc \in [Runs -> Processes]
  BY HistoryStep DEF LinkInv, FileInv
<1>1. CASE Quiet
  <2>1. proc'[p] \in {proc[p], Ended}
    BY <1>0, <1>1 DEF Quiet
  <2> QED
    BY <1>0, <2>1, EndedFacts
<1>2. CASE StartCommand
  <2>1. \A q \in Runs \ {This} : proc'[q] = proc[q]
    BY <1>2, StartChange
  <2>2. proc'[This].lib = None
    BY <1>2, StartChange
  <2> QED
    BY <1>0, <2>1, <2>2
<1>3. CASE \E from : SavedFrom(from)
  <2>1. \A q \in Runs : proc'[q].lib = proc[q].lib
    BY <1>3, SavedFacts, Zenon
  <2> QED
    BY <1>0, <2>1
<1>4. CASE \E q \in Runs : Processing(q)
  <2>1. PICK q \in Runs : Processing(q)
    BY <1>4
  <2>2. ProcessChange(q)
    BY <2>1, ProcessChanges
  <2>3. CASE q # p
    BY <1>0, <2>2, <2>3 DEF ProcessChange
  <2>4. CASE q = p
    <3>1. pc = "command" /\ p = This
      BY <1>0, <2>2, <2>4 DEF ProcessChange, WriterInv
    <3>2. p[2] = E /\ (E # Native => PERF_RLIB = E)
      BY <3>1, ThisRun DEF StageInv
    <3>3. \/ proc'[p].lib = IF p[2] = Native THEN None ELSE PERF_RLIB
          \/ proc'[p].lib \in {proc[p].lib, None}
      BY <2>2, <2>4 DEF ProcessChange
    <3> QED
      BY <1>0, <3>2, <3>3
  <2> QED
    BY <2>3, <2>4
<1> QED
  BY <1>1, <1>2, <1>3, <1>4, Steps, QuietSteps, SaveSteps
-----------------------------------------------------------------------------
(* Whose reports are where                                                 *)

\* Why a report of q may be in a file.
Explained(q, f) ==
    \/ q = Manual
    \/ q \in failed
    \/ q \in passed /\ f = Result(q)
    \/ Underway /\ C \notin Skipped /\ q = This /\ f = Output(E)

\* ReporterInv file by file, before and after a step.
LEMMA ExplainedFacts ==
    /\ ReporterInv <=> \A f \in DOMAIN disk : \A q \in ReportersOf(disk[f]) : Explained(q, f)
    /\ ReporterInv' <=> \A f \in DOMAIN disk' : \A q \in ReportersOf(disk'[f]) : Explained(q, f)'
<1>1. ReporterInv <=> \A f \in DOMAIN disk : \A q \in Reporters(f) : Explained(q, f)
  BY DEF ReporterInv, Explained
<1>2. ReporterInv' <=> \A f \in DOMAIN disk' : \A q \in Reporters(f)' : Explained(q, f)'
  BY DEF ReporterInv, Explained
<1>3. \A f : Reporters(f)' = ReportersOf(disk'[f])
  BY DEF Reporters, ReportersOf
<1> QED
  BY <1>1, <1>2, <1>3, ReportersFile

\* While the pipeline stays with a run the explanations stand.
LEMMA ExplainedStays ==
    ASSUME exp' = exp, crate' = crate, Underway => Underway', passed' = passed, failed' = failed,
           NEW q, NEW f, Explained(q, f)
    PROVE  Explained(q, f)'
<1>1. E' = E /\ C' = C /\ This' = This
  BY DEF E, C, This
<1>2. Result(q)' = Result(q) /\ Output(E)' = Output(E)
  BY <1>1 DEF Result, Saved, Output
<1> QED
  BY <1>1, <1>2 DEF Explained

\* A report is appended where its run belongs, or by a run that has failed; a rename
\* takes the reports of the run under way, and all of them, to its result.
LEMMA ReporterNext ==
    ASSUME LoopInv, FileInv, OrderInv, WriterInv, ReporterInv, [Next]_vars
    PROVE  ReporterInv'
<1> SUFFICES ASSUME NEW f \in DOMAIN disk', NEW q \in ReportersOf(disk'[f])
             PROVE  Explained(q, f)'
  BY ExplainedFacts
<1>0. passed \subseteq passed' /\ failed \subseteq failed'
  BY HistoryStep
<1>1. CASE Build \/ CommandSucceeds \/ UNCHANGED vars \/ StartCommand
  <2>1. /\ disk' = disk /\ exp' = exp /\ crate' = crate /\ passed' = passed /\ failed' = failed
        /\ Underway => Underway'
    BY <1>1, BuildFrame, CommandFrame, StutterFrame DEF Underway
  <2> QED
    BY <2>1, ExplainedFacts, ExplainedStays
<1>2. CASE Leave /\ ~ SaveResults
  <2>1. disk' = disk
    BY <1>2, LeaveChange
  <2>2. Explained(q, f)
    BY <2>1, ExplainedFacts
  <2>3. CASE q = This /\ f = Output(E) /\ C \notin Skipped
    <3>1. failed' = failed \cup {This}
      BY <1>2, <2>3, LeaveChange
    <3> QED
      BY <2>3, <3>1 DEF Explained
  <2> QED
    BY <1>0, <2>2, <2>3 DEF Explained, Result
<1>3. CASE SaveResults
  <2>1. passed' = passed \cup {This}
    BY <1>3 DEF SaveResults
  <2>2. CASE Quiet /\ (E \in Exps \ {Native} => Output(E) \notin DOMAIN disk)
    <3>1. disk' = disk /\ DOMAIN disk \subseteq Files
      BY <2>2 DEF Quiet, FileInv
    <3>2. Explained(q, f)
      BY <3>1, ExplainedFacts
    <3>3. f # Output(E)
      BY <2>2, <3>1, FilesFacts
    <3> QED
      BY <1>0, <3>2, <3>3 DEF Explained, Result
  <2>3. CASE \E from : SavedFrom(from)
    <3>1. PICK from : SavedFrom(from)
      BY <2>3
    <3>2. from \in DOMAIN disk /\ from \in {Output(E), Fallback(E)} /\ E \in Exps
          /\ (from = Fallback(E) => Output(E) \notin DOMAIN disk)
      BY <3>1 DEF SavedFrom
    <3>3. /\ Result(This) = Saved(C, E) /\ DOMAIN disk' = (DOMAIN disk \ {from}) \cup {Saved(C, E)}
          /\ disk'[Saved(C, E)] = disk[from]
          /\ \A g \in DOMAIN disk' \ {Saved(C, E)} : disk'[g] = disk[g]
      BY <3>1, SavedFacts
    <3>4. CASE f = Saved(C, E)
      <4>1. Explained(q, from)
        BY <3>2, <3>3, <3>4, ExplainedFacts
      <4>2. q \in passed => from # Result(q)
        BY <3>2, ResultName DEF OrderInv
      <4>3. q \in passed' /\ f = Result(q) => Explained(q, f)'
        BY DEF Explained, Result
      <4>4. CASE q = This
        BY <2>1, <3>3, <3>4, <4>3, <4>4
      <4> QED
        BY <1>0, <4>1, <4>2, <4>4 DEF Explained
    <3>5. CASE f # Saved(C, E)
      <4>1. f \in DOMAIN disk /\ f # from /\ disk'[f] = disk[f]
        BY <3>3, <3>5
      <4>2. Explained(q, f)
        BY <4>1, ExplainedFacts
      <4>3. f # Output(E)
        BY <3>2, <4>1
      <4> QED
        BY <1>0, <4>2, <4>3 DEF Explained, Result
    <3> QED
      BY <3>4, <3>5
  <2> QED
    BY <1>3, <2>2, <2>3, SaveSteps
<1>4. CASE \E p \in Runs : Processing(p)
  <2>1. PICK p \in Runs : Processing(p)
    BY <1>4
  <2>2. DiskChange(p) /\ ProcessChange(p)
    BY <2>1, ProcessChanges
  <2>3. pc' = pc /\ E' = E /\ C' = C /\ This' = This /\ failed' = failed /\ passed' = passed
    BY <2>1, ProcessFrame DEF E, C, This
  <2>4. f \in DOMAIN disk
    BY <2>2 DEF DiskChange
  <2>5. CASE q \in ReportersOf(disk[f])
    <3>1. Explained(q, f)
      BY <2>4, <2>5, ExplainedFacts
    <3> QED
      BY <2>3, <3>1 DEF Explained, Underway, Result, Saved, Output
  <2>6. CASE q \notin ReportersOf(disk[f])
    <3>1. q = p /\ Writing(p) /\ f = proc[p].file
      BY <2>2, <2>4, <2>6 DEF DiskChange
    <3>2. p \in failed \/ (pc = "command" /\ p = This)
      BY <2>2 DEF ProcessChange, WriterInv
    <3>3. CASE p \in failed
      BY <1>0, <3>1, <3>3 DEF Explained
    <3>4. CASE pc = "command" /\ p = This
      <4>1. C \notin Skipped /\ proc[This].file = Output(E)
        BY <3>1, <3>4 DEF LoopInv, WriterInv, Underway
      <4>2. Output(E)' = Output(E)
        BY <2>3 DEF Output
      <4> QED
        BY <2>3, <3>1, <3>4, <4>1, <4>2 DEF Explained, Underway
    <3> QED
      BY <3>2, <3>3, <3>4
  <2> QED
    BY <2>5, <2>6
<1> QED
  BY <1>1, <1>2, <1>3, <1>4, Steps
-----------------------------------------------------------------------------
(* That nothing is lost                                                    *)

\* What a file holds it holds after more has been appended, and that too.
LEMMA AppendHolds ==
    ASSUME NEW s \in Seq(Chunks), NEW chunk \in Chunks
    PROVE  Range(Append(s, chunk)) = Range(s) \cup {chunk}
<1> DEFINE a == Append(s, chunk)
<1>1. /\ DOMAIN s = 1 .. Len(s) /\ Len(s) \in Nat /\ DOMAIN a = 1 .. Len(s) + 1
      /\ a[Len(s) + 1] = chunk /\ \A i \in DOMAIN s : a[i] = s[i]
  OBVIOUS
<1> HIDE DEF a
<1>2. DOMAIN a = DOMAIN s \cup {Len(s) + 1}
  BY <1>1
<1>3. Range(a) = Range(s) \cup {chunk}
  BY <1>1, <1>2 DEF Range
<1> QED
  BY <1>3 DEF a

\* A step of a process takes nothing out of a file, and what it writes is in the file
\* that it has open.
LEMMA WroteChange ==
    ASSUME LoopInv, FileInv, NEW p \in Runs, Processing(p)
    PROVE  /\ \A f, r : Holds(f, r) => Holds(f, r)'
           /\ \A r \in wrote' \ wrote :
                /\ Writing(p) /\ r.by = p
                /\ proc[p].file \in DOMAIN disk' /\ r \in Range(disk'[proc[p].file])
<1>0. disk \in [DOMAIN disk -> Seq(Chunks)]
  BY DEF FileInv
<1>1. CASE Link(p) \/ EndSilently(p)
  <2>1. disk' = disk /\ wrote' = wrote
    BY <1>1, Zenon DEF Link, EndSilently
  <2> QED
    BY <2>1 DEF Holds
<1>2. CASE Open(p)
  <2>1. wrote' = wrote /\ disk' \in {disk, Put(<< >>, Output(proc[p].lib))}
        /\ (Output(proc[p].lib) \in DOMAIN disk => disk' = disk)
    BY <1>2, Zenon DEF Open
  <2>2. \A f \in DOMAIN disk : f \in DOMAIN disk' /\ disk'[f] = disk[f]
    BY <2>1 DEF Put
  <2> QED
    BY <2>1, <2>2 DEF Holds
<1>3. ASSUME NEW chunk \in Chunks, chunk.by = p, Writing(p), AppendTo(p, chunk)
      PROVE  /\ \A f, r : Holds(f, r) => Holds(f, r)'
             /\ \A r \in wrote' \ wrote :
                  /\ Writing(p) /\ r.by = p
                  /\ proc[p].file \in DOMAIN disk' /\ r \in Range(disk'[proc[p].file])
  <2> DEFINE file == proc[p].file
             longer == Append(disk[file], chunk)
  <2>1. file \in DOMAIN disk
    BY <1>3 DEF FileInv
  <2>2. disk' = [disk EXCEPT ![file] = longer] /\ wrote' = wrote \cup {chunk}
    BY <1>3 DEF AppendTo
  <2>3. Range(longer) = Range(disk[file]) \cup {chunk}
    BY <1>0, <2>1, AppendHolds
  <2> HIDE DEF longer, file
  <2>4. /\ DOMAIN disk' = DOMAIN disk /\ disk'[file] = longer
        /\ \A f \in DOMAIN disk : f # file => disk'[f] = disk[f]
    BY <1>0, <2>1, <2>2
  <2>5. \A f, r : Holds(f, r) => Holds(f, r)'
    BY <2>3, <2>4 DEF Holds
  <2>6. \A r \in wrote' \ wrote : r = chunk /\ file \in DOMAIN disk' /\ r \in Range(disk'[file])
    BY <2>1, <2>2, <2>3, <2>4
  <2> QED
    BY <1>3, <2>5, <2>6 DEF file
<1>4. CASE WriteReport(p)
  <2> DEFINE shown == Commands[p[1]][proc[p].cmd]
             chunk == Report(p, shown.registered, shown.executed)
  <2>1. proc[p].at = "opened" /\ AppendTo(p, chunk)
    BY <1>4, Zenon DEF WriteReport, Step
  <2>2. chunk \in Chunks /\ chunk.by = p
    <3>1. p[1] \in Range(Crates) /\ proc[p].cmd \in DOMAIN Commands[p[1]]
      BY <2>1 DEF FileInv, Runs
    <3>2. shown.registered \in SUBSET Lines /\ shown.executed \in SUBSET Lines
      BY <3>1, CommandsFacts
    <3> HIDE DEF shown
    <3> QED
      BY <3>2 DEF Report, Chunks
  <2> HIDE DEF chunk
  <2> QED
    BY <1>3, <2>1, <2>2 DEF Writing
<1>5. CASE WriteNewline(p)
  <2>1. proc[p].at = "written" /\ AppendTo(p, Newline(p))
    BY <1>5, Zenon DEF WriteNewline, Step
  <2>2. Newline(p) \in Chunks /\ Newline(p).by = p
    BY DEF Newline, Chunks
  <2> QED
    BY <1>3, <2>1, <2>2 DEF Writing
<1> QED
  BY <1>1, <1>2, <1>4, <1>5 DEF Processing

\* Where what has been written may be.
Kept(r) ==
    \/ r.by \in failed
    \/ r.by \in passed /\ Holds(Result(r.by), r)
    \/ Underway /\ C \notin Skipped /\ r.by = This /\ Holds(Output(E), r)

\* A rename takes what the run under way has written to its result, and leaves the
\* results of others as they are.
LEMMA WroteNext ==
    ASSUME LoopInv, FileInv, OrderInv, WriterInv, WroteInv, [Next]_vars
    PROVE  WroteInv'
<1> SUFFICES ASSUME NEW r \in wrote' PROVE Kept(r)'
  BY DEF WroteInv, Kept
<1>0. /\ passed \subseteq passed' /\ failed \subseteq failed'
      /\ \A x \in wrote : Kept(x)
  BY HistoryStep DEF WroteInv, Kept
<1>1. CASE Build \/ CommandSucceeds \/ UNCHANGED vars \/ StartCommand
  <2>1. /\ disk' = disk /\ exp' = exp /\ crate' = crate /\ wrote' = wrote
        /\ Underway => Underway'
    BY <1>1, BuildFrame, CommandFrame, StutterFrame DEF Underway
  <2>2. E' = E /\ C' = C /\ This' = This
    BY <2>1 DEF E, C, This
  <2>3. Kept(r)
    BY <1>0, <2>1
  <2> QED
    BY <1>0, <2>1, <2>2, <2>3 DEF Kept, Holds, Result, Saved, Output
<1>2. CASE Leave /\ ~ SaveResults
  <2>1. disk' = disk /\ wrote' = wrote
    BY <1>2, LeaveChange, LeaveFrame
  <2>2. Kept(r)
    BY <1>0, <2>1
  <2>3. CASE r.by = This /\ C \notin Skipped
    <3>1. failed' = failed \cup {This}
      BY <1>2, <2>3, LeaveChange
    <3> QED
      BY <2>3, <3>1 DEF Kept
  <2>4. CASE r.by \in passed /\ Holds(Result(r.by), r)
    BY <1>0, <2>1, <2>4 DEF Kept, Holds, Result, Saved
  <2> QED
    BY <1>0, <2>2, <2>3, <2>4 DEF Kept
<1>3. CASE SaveResults
  <2>1. passed' = passed \cup {This} /\ wrote' = wrote /\ Underway /\ This \in Runs
    BY <1>3, LeaveFrame, ThisRun DEF SaveResults, Leave
  <2>2. Kept(r) /\ passed \subseteq Runs /\ This \notin passed
    BY <1>0, <2>1, ThisPending DEF OrderInv
  <2>3. SUFFICES ASSUME \/ r.by \in passed /\ Holds(Result(r.by), r)
                        \/ r.by = This /\ Holds(Output(E), r)
                 PROVE  r.by \in passed' /\ Holds(Result(r.by), r)'
    BY <1>0, <2>2 DEF Kept
  <2>4. CASE Quiet /\ (E \in Exps \ {Native} => Output(E) \notin DOMAIN disk)
    <3>1. disk' = disk /\ DOMAIN disk \subseteq Files
      BY <2>4 DEF Quiet, FileInv
    <3>2. Output(E) \notin DOMAIN disk
      BY <2>4, <3>1, FilesFacts
    <3> QED
      BY <1>0, <2>3, <3>1, <3>2 DEF Holds, Result, Saved
  <2>5. CASE \E from : SavedFrom(from)
    <3>1. PICK from : SavedFrom(from)
      BY <2>5
    <3>2. /\ Output(E) \in DOMAIN disk => from = Output(E)
          /\ from = Output(E) \/ from = Fallback(E)
      BY <3>1 DEF SavedFrom
    <3>3. /\ Result(This) = Saved(C, E) /\ DOMAIN disk' = (DOMAIN disk \ {from}) \cup {Saved(C, E)}
          /\ disk'[Saved(C, E)] = disk[from]
          /\ \A g \in DOMAIN disk' \ {Saved(C, E)} : disk'[g] = disk[g]
      BY <3>1, SavedFacts
    <3>4. CASE r.by = This /\ Holds(Output(E), r)
      <4>1. from = Output(E) /\ r \in Range(disk[from])
        BY <3>2, <3>4 DEF Holds
      <4>2. Result(r.by) = Saved(C, E)
        BY <3>3, <3>4
      <4>3. Holds(Result(r.by), r)' <=>
              Result(r.by) \in DOMAIN disk' /\ r \in Range(disk'[Result(r.by)])
        BY DEF Holds, Result, Saved
      <4> QED
        BY <2>1, <3>3, <3>4, <4>1, <4>2, <4>3
    <3>5. CASE r.by \in passed /\ Holds(Result(r.by), r)
      <4>1. r.by \in Runs /\ r.by # This
        BY <2>2, <3>5
      <4>2. Result(r.by) # Saved(C, E) /\ Result(r.by) # from
        BY <2>1, <3>2, <3>3, <4>1, ResultName
      <4>3. Result(r.by) \in DOMAIN disk' /\ disk'[Result(r.by)] = disk[Result(r.by)]
        BY <3>3, <3>5, <4>2 DEF Holds
      <4>4. Holds(Result(r.by), r)' <=>
              Result(r.by) \in DOMAIN disk' /\ r \in Range(disk'[Result(r.by)])
        BY DEF Holds, Result, Saved
      <4> QED
        BY <1>0, <3>5, <4>3, <4>4 DEF Holds
    <3> QED
      BY <2>3, <3>4, <3>5
  <2> QED
    BY <1>3, <2>4, <2>5, SaveSteps
<1>4. CASE \E p \in Runs : Processing(p)
  <2>1. PICK p \in Runs : Processing(p)
    BY <1>4
  <2>2. /\ \A f, x : Holds(f, x) => Holds(f, x)'
        /\ \A x \in wrote' \ wrote :
             /\ Writing(p) /\ x.by = p
             /\ proc[p].file \in DOMAIN disk' /\ x \in Range(disk'[proc[p].file])
    BY <2>1, WroteChange
  <2>3. /\ pc' = pc /\ E' = E /\ C' = C /\ This' = This /\ failed' = failed /\ passed' = passed
        /\ \A q : Result(q)' = Result(q)
    BY <2>1, ProcessFrame DEF E, C, This, Result, Saved
  <2>4. CASE r \in wrote
    <3>1. Kept(r)
      BY <1>0, <2>4
    <3>2. \A f : Holds(f, r)' <=> f \in DOMAIN disk' /\ r \in Range(disk'[f])
      BY DEF Holds
    <3>3. /\ Holds(Result(r.by), r)' <=>
               Result(r.by) \in DOMAIN disk' /\ r \in Range(disk'[Result(r.by)])
          /\ Holds(Output(E), r)' <=>
               Output(E) \in DOMAIN disk' /\ r \in Range(disk'[Output(E)])
      BY <2>3 DEF Holds, Result, Saved, Output
    <3>4. /\ Holds(Result(r.by), r) => Holds(Result(r.by), r)'
          /\ Holds(Output(E), r) => Holds(Output(E), r)'
      BY <2>2, <3>2, <3>3
    <3> QED
      BY <2>3, <3>1, <3>4 DEF Kept, Underway
  <2>5. CASE r \notin wrote
    <3>1. /\ Writing(p) /\ r.by = p
          /\ proc[p].file \in DOMAIN disk' /\ r \in Range(disk'[proc[p].file])
      BY <2>2, <2>5
    <3>2. p \in failed \/ (pc = "command" /\ p = This)
      BY <3>1 DEF WriterInv, Writing
    <3>3. CASE pc = "command" /\ p = This
      <4>1. C \notin Skipped /\ proc[This].file = Output(E) /\ Underway
        BY <3>1, <3>3 DEF LoopInv, WriterInv, Underway
      <4>2. Output(E) \in DOMAIN disk' /\ r \in Range(disk'[Output(E)])
        BY <3>1, <3>3, <4>1
      <4>3. Output(E)' = Output(E) /\ Underway'
        BY <2>3, <4>1 DEF Output, Underway
      <4>4. Holds(Output(E), r)'
        BY <4>2, <4>3 DEF Holds
      <4> QED
        BY <2>3, <3>1, <3>3, <4>1, <4>3, <4>4 DEF Kept
    <3> QED
      BY <2>3, <3>1, <3>2, <3>3 DEF Kept
  <2> QED
    BY <2>4, <2>5
<1> QED
  BY <1>1, <1>2, <1>3, <1>4, Steps
-----------------------------------------------------------------------------
(* The files that have come from /tmp                                      *)

\* A file with a report of an earlier use of the pipeline.
Untouched(f) ==
    /\ ReportersOf(disk[f]) = {Manual}
    /\ \A p \in Runs : proc[p].file # f
    /\ \A e \in Exps : f # Output(e)

\* ManualInv file by file, before and after a step.
LEMMA UntouchedFacts ==
    /\ ManualInv <=> \A f \in DOMAIN disk : Manual \in ReportersOf(disk[f]) => Untouched(f)
    /\ ManualInv' <=> \A f \in DOMAIN disk' : Manual \in ReportersOf(disk'[f]) => Untouched(f)'
<1>1. ManualInv <=> \A f \in DOMAIN disk : Manual \in ReportersOf(disk[f]) => Untouched(f)
  BY ReportersFile DEF ManualInv, Untouched
<1>3. \A f : Reporters(f)' = ReportersOf(disk'[f]) /\ ReportersOf(disk[f])' = ReportersOf(disk'[f])
  BY DEF Reporters, ReportersOf
<1>4. ManualInv' <=> \A f \in DOMAIN disk' : Manual \in Reporters(f)' =>
                       /\ Reporters(f)' = {Manual}
                       /\ \A p \in Runs : proc'[p].file # f
                       /\ \A e \in Exps : f # Output(e)
  BY DEF ManualInv, Output
<1>5. \A f : Untouched(f)' <=> /\ ReportersOf(disk'[f]) = {Manual}
                               /\ \A p \in Runs : proc'[p].file # f
                               /\ \A e \in Exps : f # Output(e)
  BY <1>3 DEF Untouched, Output
<1> QED
  BY <1>1, <1>3, <1>4, <1>5

\* A file from /tmp is renamed only while nobody writes to it, to a name that nobody
\* has open.
LEMMA ManualNext ==
    ASSUME LoopInv, FileInv, OrderInv, ManualInv, [Next]_vars
    PROVE  ManualInv'
<1> SUFFICES ASSUME NEW f \in DOMAIN disk', Manual \in ReportersOf(disk'[f])
             PROVE  /\ ReportersOf(disk'[f]) = {Manual}
                    /\ \A p \in Runs : proc'[p].file # f
                    /\ \A e \in Exps : f # Output(e)
  BY UntouchedFacts DEF Untouched, ReportersOf, Output
<1>0. /\ DOMAIN disk \subseteq Files /\ proc \in [Runs -> Processes]
      /\ \A p \in Runs : proc[p].file \in DOMAIN disk \cup {<< >>}
      /\ \A g \in DOMAIN disk : g # << >>
  BY FilesFacts DEF FileInv
<1>1. CASE Quiet \/ StartCommand
  <2>1. disk' = disk /\ \A p \in Runs : proc'[p].file \in {proc[p].file, << >>}
    <3>1. CASE Quiet
      BY <1>0, <3>1, EndedFacts DEF Quiet
    <3>2. CASE StartCommand
      BY <3>2, StartChange
    <3> QED
      BY <1>1, <3>1, <3>2
  <2>2. Untouched(f)
    BY <2>1, UntouchedFacts
  <2> QED
    BY <1>0, <2>1, <2>2 DEF Untouched
<1>2. CASE \E p \in Runs : Processing(p)
  <2>1. PICK p \in Runs : Processing(p)
    BY <1>2
  <2>2. DiskChange(p) /\ ProcessChange(p)
    BY <2>1, ProcessChanges
  <2>3. f \in DOMAIN disk /\ Manual # p
    BY <2>2, NamesFacts DEF DiskChange
  <2>4. Manual \in ReportersOf(disk[f])
    BY <2>2, <2>3 DEF DiskChange
  <2>5. Untouched(f)
    BY <2>3, <2>4, UntouchedFacts
  <2>6. ReportersOf(disk'[f]) = {Manual}
    BY <2>2, <2>3, <2>5 DEF DiskChange, Untouched
  <2>7. ASSUME NEW q \in Runs PROVE proc'[q].file # f
    <3>1. CASE q # p
      BY <2>2, <2>5, <3>1 DEF ProcessChange, Untouched
    <3>2. CASE q = p
      BY <1>0, <2>2, <2>3, <2>5, <3>2 DEF ProcessChange, Untouched
    <3> QED
      BY <3>1, <3>2
  <2> QED
    BY <2>5, <2>6, <2>7 DEF Untouched
<1>3. CASE SaveResults /\ \E from : SavedFrom(from)
  <2>1. PICK from : SavedFrom(from)
    BY <1>3
  <2> DEFINE to == Saved(C, E)
  <2>2. from \in DOMAIN disk /\ from \in {Output(E), Fallback(E)} /\ E \in Exps
    BY <2>1 DEF SavedFrom
  <2>3. to \notin DOMAIN disk
    <3>1. Underway
      BY <1>3 DEF SaveResults, Underway
    <3>2. This \notin passed /\ This = <<C, E>> /\ C \in Range(Crates)
      BY <3>1, ThisPending, ThisRun
    <3> QED
      BY <2>2, <3>2 DEF OrderInv
  <2>4. /\ \A e \in Exps : to # Output(e)
        /\ DOMAIN disk' = (DOMAIN disk \ {from}) \cup {to}
        /\ disk'[to] = disk[from]
        /\ \A g \in DOMAIN disk' \ {to} : disk'[g] = disk[g]
    BY <2>1, SavedFacts
  <2>5. \A p \in Runs : /\ proc[p].file = from => proc'[p].file = to
                        /\ proc[p].file # from => proc'[p].file = proc[p].file
    BY <2>1, SavedFacts, Zenon
  <2> HIDE DEF to
  <2>6. CASE f = to
    <3>1. Untouched(from)
      BY <2>2, <2>4, <2>6, UntouchedFacts
    <3>2. \A p \in Runs : proc'[p].file = proc[p].file
      BY <2>5, <3>1 DEF Untouched
    <3>3. \A p \in Runs : proc'[p].file # f
      <4>1. to # << >>
        BY FileNames DEF to
      <4> QED
        BY <1>0, <2>3, <2>6, <3>2, <4>1
    <3> QED
      BY <2>4, <2>6, <3>1, <3>3 DEF Untouched
  <2>7. CASE f # to
    <3>1. f \in DOMAIN disk /\ f # from /\ disk'[f] = disk[f]
      BY <2>4, <2>7
    <3>2. Untouched(f)
      BY <3>1, UntouchedFacts
    <3> QED
      BY <2>5, <2>7, <3>1, <3>2 DEF Untouched
  <2> QED
    BY <2>6, <2>7
<1> QED
  BY <1>1, <1>2, <1>3, Steps, QuietSteps, SaveSteps
-----------------------------------------------------------------------------
(* The initial states                                                      *)

\* At first there are no files but those that were left in /tmp.
LEMMA InitFiles ==
    ASSUME Init
    PROVE  /\ DOMAIN disk \subseteq Files /\ disk \in [DOMAIN disk -> Seq(Chunks)]
           /\ \A f \in DOMAIN disk : /\ ReportersOf(disk[f]) \subseteq {Manual}
                                     /\ \E e \in Exps \ {Native} : f = Fallback(e)
<1> DEFINE earlier == <<Report(Manual, Lines, {}), Newline(Manual)>>
<1>1. PICK left \in SUBSET Leftovers : disk = [f \in {Fallback(e) : e \in left} |-> earlier]
  BY DEF Init
<1>2. left \subseteq Exps \ {Native}
  BY NamesAssumption
<1>3. Report(Manual, Lines, {}) \in Chunks /\ Newline(Manual) \in Chunks
  BY DEF Report, Newline, Chunks
<1>4. earlier \in Seq(Chunks)
  BY <1>3
<1>5. ReportersOf(earlier) \subseteq {Manual}
  BY DEF ReportersOf, Report, Newline
<1> HIDE DEF earlier
<1>6. DOMAIN disk = {Fallback(e) : e \in left} /\ \A f \in DOMAIN disk : disk[f] = earlier
  BY <1>1
<1>7. \A f \in DOMAIN disk : \E e \in Exps \ {Native} : f = Fallback(e)
  BY <1>2, <1>6
<1>8. DOMAIN disk \subseteq Files
  BY <1>7, FilesFacts
<1>9. disk \in [DOMAIN disk -> Seq(Chunks)]
  BY <1>1, <1>4
<1> QED
  BY <1>5, <1>6, <1>7, <1>8, <1>9

\* The invariant holds at first.
LEMMA InvInit == ASSUME Init PROVE Inv
<1>0. /\ pc = "build" /\ exp = 1 /\ crate = 1 /\ cmd = 1
      /\ PERF_RLIB \in {None} \cup (Exps \ {Native}) /\ staged = {PERF_RLIB} \ {None}
      /\ proc = [p \in Runs |-> Ended] /\ failed = {} /\ passed = {} /\ wrote = {}
  BY DEF Init
<1>1. StageInv
  BY <1>0 DEF StageInv
<1>2. LoopInv
  <2>1. exp \in DOMAIN Experiments /\ crate \in DOMAIN Crates /\ C \in Range(Crates)
    BY <1>0, NamesFacts DEF C
  <2>2. Len(Commands[C]) \in Nat
    BY <2>1, CommandsFacts
  <2> QED
    BY <1>0, <2>1, <2>2 DEF LoopInv
<1>3. \A p \in Runs : proc[p] = Ended /\ proc[p].at = "ended" /\ proc[p].file = << >>
  BY <1>0, EndedFacts
<1>4. FileInv
  BY <1>0, <1>3, InitFiles, EndedFacts, FileNames DEF FileInv, Writing
<1>5. OrderInv
  <2>1. passed \cup failed \subseteq Runs \ Pending /\ passed \cap failed = {}
    BY <1>0
  <2>2. ASSUME NEW c, NEW e PROVE Saved(c, e) \notin DOMAIN disk
    <3>1. \A f \in DOMAIN disk : \E d \in Exps \ {Native} : f = Fallback(d)
      BY InitFiles
    <3>2. \A d : Saved(c, e) # Fallback(d)
      BY FileNames
    <3> QED
      BY <3>1, <3>2
  <2> QED
    BY <2>1, <2>2 DEF OrderInv
<1>6. WriterInv
  BY <1>0, <1>3 DEF WriterInv, Underway
<1>7. ReporterInv
  BY InitFiles, ReportersFile DEF ReporterInv
<1>8. ManualInv
  BY <1>3, InitFiles, ReportersFile, FileNames DEF ManualInv
<1>9. LinkInv /\ WroteInv
  BY <1>0, <1>3, EndedFacts DEF LinkInv, WroteInv
<1> QED
  BY <1>1, <1>2, <1>4, <1>5, <1>6, <1>7, <1>8, <1>9 DEF Inv

\* Every step keeps it.
LEMMA InvNext == ASSUME Inv, [Next]_vars PROVE Inv'
<1>1. /\ StageInv /\ LoopInv /\ FileInv /\ OrderInv /\ WriterInv /\ LinkInv
      /\ ReporterInv /\ WroteInv /\ ManualInv
  BY DEF Inv
<1>2. StageInv' /\ LoopInv' /\ FileInv' /\ OrderInv'
  BY <1>1, StageNext, LoopNext, FileNext, OrderNext
<1>3. WriterInv' /\ LinkInv'
  BY <1>1, <1>2, WriterNext, LinkNext
<1>4. ReporterInv' /\ WroteInv' /\ ManualInv'
  BY <1>1, ReporterNext, WroteNext, ManualNext
<1> QED
  BY <1>2, <1>3, <1>4 DEF Inv

\* What the pipeline has staged, run and saved, and who has written where, at any time.
THEOREM Invariant == Spec => []Inv
<1>1. Init => Inv
  BY InvInit
<1>2. Inv /\ [Next]_vars => Inv'
  BY InvNext
<1> QED
  BY <1>1, <1>2, PTL DEF Spec
-----------------------------------------------------------------------------
(* What follows                                                            *)

\* build_perf leaves the directory with the library of the experiment alone, unless
\* cargo clean has failed; and a process that links another experiment's library is one
\* that has outlived a command of run_crate.
THEOREM LibrariesApart == Spec => []FeaturesNeverMix
<1>1. Inv => FeaturesNeverMix
  BY DEF Inv, StageInv, LinkInv, FeaturesNeverMix
<1> QED
  BY <1>1, Invariant, PTL

\* The loops stay within the experiments, crates and commands, there are no files but
\* those of write_output and run_crate, and a process writes to a file of the disk.
THEOREM TypeCorrect == Spec => []TypeOK
<1>1. Inv => TypeOK
  <2> SUFFICES ASSUME Inv PROVE TypeOK
    OBVIOUS
  <2>1. /\ pc \in {"build", "compile", "crate", "command", "exited"}
        /\ exp \in DOMAIN Experiments /\ crate \in DOMAIN Crates
        /\ cmd \in 1 .. Len(Commands[C]) + 1
        /\ staged \cup {PERF_RLIB} \subseteq Exps \cup {None}
    BY DEF Inv, LoopInv
  <2>2. DOMAIN disk \subseteq UNION {{Output(e), Fallback(e)} \cup {Saved(c, e) : c \in Range(Crates)}
                                      : e \in Exps \ {Native}}
    BY DEF Inv, FileInv, Files
  <2>3. \A p \in Runs : proc[p].file \in DOMAIN disk \cup {<< >>}
    BY DEF Inv, FileInv
  <2> QED
    BY <2>1, <2>2, <2>3 DEF TypeOK
<1> QED
  BY <1>1, Invariant, PTL

\* When all commands of a crate have succeeded their reports are in the file that
\* shutil.move has named after it: no process is left that could write later, and
\* what came before or goes on beside it does not take them elsewhere.
THEOREM ResultsHaveAll == Spec => []ResultComplete
<1>1. Inv => ResultComplete
  <2>1. ASSUME Inv PROVE LoopInv /\ OrderInv /\ (Underway => This \notin passed)
    BY <2>1, ThisPending DEF Inv
  <2>2. ASSUME Inv, NEW p \in passed, NEW f \in DOMAIN disk, p \in Reporters(f)
        PROVE  f = Result(p)
    <3>1. p \in Runs /\ p \notin failed /\ p # Manual
      BY <2>1, <2>2, NamesFacts DEF OrderInv
    <3>2. Underway => p # This
      BY <2>1, <2>2
    <3> QED
      BY <2>2, <3>1, <3>2 DEF Inv, ReporterInv
  <2>3. ASSUME Inv, NEW r \in wrote, r.by \in passed
        PROVE  Result(r.by) \in DOMAIN disk /\ r \in Range(disk[Result(r.by)])
    <3>1. r.by \notin failed /\ ~ (Underway /\ r.by = This)
      BY <2>1, <2>3 DEF OrderInv
    <3> QED
      BY <2>3, <3>1 DEF Inv, WroteInv, Holds
  <2> QED
    BY <2>2, <2>3 DEF ResultComplete
<1> QED
  BY <1>1, Invariant, PTL

\* What else is in a result was written by a process that outlived its command, or is
\* the file that run_crate found in /tmp, and then it is all of the result.
THEOREM StrangersHaveReasons == Spec => []StrangersExplained
<1>1. Inv => StrangersExplained
  <2> SUFFICES ASSUME Inv, NEW p \in SavedRuns, NEW q \in Reporters(Result(p)) \ {p}
               PROVE  q \in failed \/ (q = Manual /\ Reporters(Result(p)) = {Manual})
    BY DEF StrangersExplained
  <2>1. p \in Runs /\ Result(p) \in DOMAIN disk
    BY DEF SavedRuns, Result
  <2>2. \/ q = Manual
        \/ q \in failed
        \/ q \in passed /\ Result(p) = Result(q)
        \/ Result(p) = Output(E)
    BY <2>1 DEF Inv, ReporterInv
  <2>3. q \in passed => Result(p) # Result(q)
    BY <2>1, ResultName DEF Inv, OrderInv
  <2>4. Result(p) # Output(E)
    BY <2>1, ResultName
  <2>5. q = Manual => Reporters(Result(p)) = {Manual}
    BY <2>1 DEF Inv, ManualInv
  <2> QED
    BY <2>2, <2>3, <2>4, <2>5
<1> QED
  BY <1>1, Invariant, PTL

\* The analysis of a result counts what the reports in it were written from, all of it
\* and nothing else: between reports the parser is outside of the sections, whoever
\* wrote them and whatever newlines come between (analyze_coverage.py).
THEOREM AnalysisRight == Spec => []AnalysisAgrees
<1>1. Inv => AnalysisAgrees
  <2> SUFFICES ASSUME Inv, NEW p \in SavedRuns
               PROVE  LET all == analyze_unsafe_coverage(FileLines(disk[Result(p)]))
                          written == Range(disk[Result(p)])
                      IN  /\ all.registered = SrcLines \cap UNION {r.registered : r \in written}
                          /\ all.executed = SrcLines \cap UNION {r.executed : r \in written}
    BY DEF AnalysisAgrees
  <2> DEFINE file == disk[Result(p)]
  <2>1. file \in Seq(Chunks)
    BY DEF Inv, FileInv, SavedRuns, Result
  <2> HIDE DEF file
  <2>2. analyze_unsafe_coverage(FileLines(file)) = Shown(file)
    BY <2>1, FileRead DEF Read
  <2>3. /\ Shown(file).registered = SrcLines \cap UNION {r.registered : r \in Range(file)}
        /\ Shown(file).executed = SrcLines \cap UNION {r.executed : r \in Range(file)}
    BY DEF Shown
  <2> QED
    BY <2>2, <2>3 DEF file
<1> QED
  BY <1>1, Invariant, PTL
=============================================================================
