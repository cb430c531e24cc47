------------------------------ MODULE Pipeline ------------------------------
(***************************************************************************)
(* The experiment pipeline (run_pipeline.py): for each experiment it       *)
(* stages one variant of the runtime library, then runs the commands of    *)
(* each crate.  The processes that the commands start append their reports *)
(* (write_output of lib.rs) to the experiment's file in the output         *)
(* directory; when all commands of a crate have succeeded the pipeline     *)
(* renames that file after the crate.                                      *)
(*                                                                         *)
(* A command starts one process that compiles, runs and reports.  When a   *)
(* command times out its shell is killed; the process is not, unless it    *)
(* is the shell itself.  All reports have the form of the coverage report. *)
(***************************************************************************)
EXTENDS Integers, CoverageReport

CONSTANTS
    Experiments,    \* experiments_to_run, in order
    Crates,         \* crates_to_run, in order
    Native,         \* the experiment without library and output file
    Prebuilt,       \* experiments whose library is shipped
    Skipped,        \* crates that are configured to be skipped, or not found
    Commands,       \* for each crate the coverage that each of its commands shows
    Leftovers,      \* experiments of which an earlier use has left a file in /tmp
    Manual,         \* who has written the reports in these
    MaxFaults       \* bound: commands that fail or time out, cargo clean that fails,
                    \* instrumented processes that do not write all of their report

Exps == Range(Experiments)
Runs == Range(Crates) \X Exps
None == "none"

ASSUME NamesAssumption ==
    /\ Experiments \in Seq(Exps) \ {<< >>} /\ IsInjective(Experiments) /\ None \notin Exps
    /\ Crates \in Seq(Range(Crates)) \ {<< >>} /\ IsInjective(Crates)
    /\ Prebuilt \subseteq Exps \ {Native} /\ Skipped \subseteq Range(Crates)
    /\ Leftovers \subseteq Exps \ {Native} /\ Manual \notin Runs
ASSUME CommandsAssumption ==
    \A c \in Range(Crates) : Commands[c] \in Seq([registered : SUBSET Lines, executed : SUBSET Lines])
ASSUME BoundAssumption == MaxFaults \in Nat

VARIABLES
    pc, exp, crate, cmd,    \* where the pipeline is, in its three loops
    PERF_RLIB,              \* experiment whose library is staged
    staged,                 \* experiments whose files are in PERF_TARGET_DIR
    disk,                   \* the contents of the files that exist
    tmp,                    \* whether /tmp is there
    proc,                   \* the process last started for a crate in an experiment:
                            \* state, library it has been linked with, file it has open
    failed,                 \* history: a command has failed or timed out
    passed,                 \* history: all commands have succeeded
    unclean,                \* history: cargo clean has failed
    faults,                 \* history: how many of these
    wrote                   \* history: what the processes have appended to files

loops == <<exp, crate, cmd>>
library == <<PERF_RLIB, staged>>
files == <<disk, tmp>>
history == <<failed, passed, unclean, faults, wrote>>
vars == <<pc, loops, library, files, proc, history>>

\* output_dir/output_file, /tmp/output_file and the file named after the crate
Output(e) == <<"output", e>>
Fallback(e) == <<"tmp", e>>
Saved(c, e) == <<"saved", c, e>>

E == Experiments[exp]
C == Crates[crate]
This == <<C, E>>

Ended == [at |-> "ended", lib |-> None, file |-> << >>, cmd |-> 0]

\* A library and fallback files of an earlier use of the library may be there.
Init ==
    /\ pc = "build" /\ exp = 1 /\ crate = 1 /\ cmd = 1
    /\ PERF_RLIB \in {None} \cup (Exps \ {Native}) /\ staged = {PERF_RLIB} \ {None}
    /\ disk \in {[f \in {Fallback(e) : e \in left} |->
                    <<Report(Manual, Lines, {}), Newline(Manual)>>] :
                  left \in SUBSET Leftovers}
    /\ tmp = TRUE
    /\ proc = [p \in Runs |-> Ended]
    /\ failed = {} /\ passed = {} /\ unclean = {} /\ faults = 0 /\ wrote = {}

Faulty == faults < MaxFaults /\ faults' = faults + 1

\* The disk with these contents in a file.
Put(contents, file) == [f \in DOMAIN disk \cup {file} |-> IF f = file THEN contents ELSE disk[f]]
-----------------------------------------------------------------------------
(* build_perf                                                              *)

Stage(to, files_in_target, rlib) ==
    pc' = to /\ staged' = files_in_target /\ PERF_RLIB' = rlib

\* Mutant: what is in the directory stays there.
StageOnTop ==
    /\ pc = "build" /\ E \in Prebuilt
    /\ Stage("crate", staged \cup {E}, E)
    /\ UNCHANGED <<loops, files, proc, history>>

StagePrebuilt ==
    /\ pc = "build" /\ E \in Prebuilt
    /\ Stage("crate", {E}, E)
    /\ UNCHANGED <<loops, files, proc, history>>

BuildNothing ==
    /\ pc = "build" /\ E = Native
    /\ Stage("crate", staged, PERF_RLIB)
    /\ UNCHANGED <<loops, files, proc, history>>

\* The result of cargo clean is ignored, that of cargo build is not.
CargoClean ==
    /\ pc = "build" /\ E \notin Prebuilt \cup {Native}
    /\ \/ Stage("compile", {}, None) /\ UNCHANGED unclean
          /\ UNCHANGED faults
       \/ Stage("compile", staged, PERF_RLIB) /\ unclean' = unclean \cup {E} /\ Faulty
    /\ UNCHANGED <<loops, files, proc, failed, passed, wrote>>

CargoBuild ==
    /\ pc = "compile"
    /\ Stage("crate", staged \cup {E}, E) \/ Stage("exited", staged, PERF_RLIB)
    /\ UNCHANGED <<loops, files, proc, history>>
-----------------------------------------------------------------------------
(* run_crate and the loops of main                                         *)

Advance(last) ==
    /\ cmd' = 1
    /\ IF crate < last THEN pc' = "crate" /\ crate' = crate + 1 /\ UNCHANGED exp
       ELSE /\ crate' = 1
            /\ IF exp < Len(Experiments) THEN pc' = "build" /\ exp' = exp + 1
               ELSE pc' = "exited" /\ UNCHANGED exp
\* Mutant: the loop goes one crate too far.
NextCratePast == Advance(Len(Crates) + 1)
NextCrate == Advance(Len(Crates))

SkipCrate ==
    /\ pc = "crate" /\ C \in Skipped
    /\ NextCrate
    /\ UNCHANGED <<library, files, proc, history>>

StartCommand ==
    /\ pc = "crate" /\ C \notin Skipped /\ cmd <= Len(Commands[C])
    /\ pc' = "command"
    /\ proc' = [proc EXCEPT ![This] = [Ended EXCEPT !.at = "started", !.cmd = cmd]]
    /\ UNCHANGED <<loops, library, files, history>>

CommandSucceeds ==
    /\ pc = "command" /\ proc[This].at = "ended"
    /\ pc' = "crate" /\ cmd' = cmd + 1
    /\ UNCHANGED <<exp, crate, library, files, proc, history>>

CommandFails ==
    /\ pc = "command" /\ proc[This].at = "ended"
    /\ Faulty
    /\ failed' = failed \cup {This}
    /\ NextCrate
    /\ UNCHANGED <<library, files, proc, passed, unclean, wrote>>

CommandTimesOut ==
    /\ pc = "command" /\ proc[This].at # "ended"
    /\ Faulty
    /\ failed' = failed \cup {This}
    /\ proc' = proc \/ proc' = [proc EXCEPT ![This] = Ended]
    /\ NextCrate
    /\ UNCHANGED <<library, files, passed, unclean, wrote>>

\* shutil.move: who has the file open goes on with it under its new name.  Mutant:
\* it is copied.
Copy(from, to) ==
    disk' = Put(disk[from], to) /\ UNCHANGED proc
Move(from, to) ==
    /\ disk' = Restrict(Put(disk[from], to), (DOMAIN disk \ {from}) \cup {to})
    /\ proc' = [p \in Runs |-> IF proc[p].file = from THEN [proc[p] EXCEPT !.file = to] ELSE proc[p]]

HasOutput == E # Native /\ Output(E) \in DOMAIN disk
HasFallback == Fallback(E) \in DOMAIN disk /\ tmp

\* Mutant: the fallback is looked at first.
SaveFallbackFirst ==
    \/ HasFallback /\ Move(Fallback(E), Saved(C, E)) /\ UNCHANGED tmp
    \/ ~HasFallback /\ HasOutput /\ Move(Output(E), Saved(C, E)) /\ UNCHANGED tmp
    \/ ~HasOutput /\ ~HasFallback /\ UNCHANGED <<files, proc>>

\* With the empty file name of the native experiment Path("/tmp") / "" is /tmp
\* itself, which is moved with all that is in it.
SaveOutput ==
    \/ HasOutput /\ Move(Output(E), Saved(C, E)) /\ UNCHANGED tmp
    \/ ~HasOutput /\ HasFallback /\ Move(Fallback(E), Saved(C, E)) /\ UNCHANGED tmp
    \/ E = Native /\ tmp /\ tmp' = FALSE /\ UNCHANGED <<disk, proc>>
    \/ ~HasOutput /\ ~HasFallback /\ (E = Native => ~tmp) /\ UNCHANGED <<files, proc>>

SaveResults ==
    /\ pc = "crate" /\ C \notin Skipped /\ cmd > Len(Commands[C])
    /\ passed' = passed \cup {This}
    /\ SaveOutput
    /\ NextCrate
    /\ UNCHANGED <<library, failed, unclean, faults, wrote>>
-----------------------------------------------------------------------------
(* The processes                                                           *)

Step(p, from, new) ==
    /\ proc[p].at = from
    /\ proc' = [proc EXCEPT ![p] = new]
    /\ UNCHANGED <<pc, loops, library, tmp, failed, passed, unclean>>

\* RUSTFLAGS name the library only if the experiment is not native.
Link(p) ==
    /\ Step(p, "started", [proc[p] EXCEPT !.at = "running",
                                          !.lib = IF p[2] = Native THEN None ELSE PERF_RLIB])
    /\ UNCHANGED <<disk, faults, wrote>>

\* write_output: open, write the report, write the newline.
Open(p) ==
    /\ proc[p].lib # None
    /\ LET file == Output(proc[p].lib)
       IN  /\ Step(p, "running", [proc[p] EXCEPT !.at = "opened", !.file = file])
           /\ disk' = IF file \in DOMAIN disk THEN disk ELSE Put(<< >>, file)
    /\ UNCHANGED <<faults, wrote>>

AppendTo(p, chunk) ==
    /\ disk' = [disk EXCEPT ![proc[p].file] = Append(@, chunk)]
    /\ wrote' = wrote \cup {chunk}
    /\ UNCHANGED faults

WriteReport(p) ==
    /\ Step(p, "opened", [proc[p] EXCEPT !.at = "written"])
    /\ LET shown == Commands[p[1]][proc[p].cmd]
       IN  AppendTo(p, Report(p, shown.registered, shown.executed))

WriteNewline(p) ==
    /\ Step(p, "written", Ended)
    /\ AppendTo(p, Newline(p))

\* A process that does not report: it is not instrumented, or an error is ignored.
EndSilently(p) ==
    /\ proc[p].at \in {"running", "opened", "written"}
    /\ Step(p, proc[p].at, Ended)
    /\ IF proc[p].lib = None THEN UNCHANGED faults ELSE Faulty
    /\ UNCHANGED <<disk, wrote>>

Finished == pc = "exited" /\ UNCHANGED vars

Next ==
    \/ StagePrebuilt \/ BuildNothing \/ CargoClean \/ CargoBuild
    \/ SkipCrate \/ StartCommand
    \/ CommandSucceeds \/ CommandFails \/ CommandTimesOut \/ SaveResults
    \/ \E p \in Runs :
         Link(p) \/ Open(p) \/ WriteReport(p) \/ WriteNewline(p) \/ EndSilently(p)
    \/ Finished

Spec == Init /\ [][Next]_vars
-----------------------------------------------------------------------------
(* Properties                                                              *)

\* The loops, the files and the processes keep their types.
TypeOK ==
    /\ pc \in {"build", "compile", "crate", "command", "exited"}
    /\ exp \in DOMAIN Experiments /\ crate \in DOMAIN Crates
    /\ cmd \in 1 .. Len(Commands[C]) + 1
    /\ staged \cup {PERF_RLIB} \subseteq Exps \cup {None}
    /\ DOMAIN disk \subseteq UNION {{Output(e), Fallback(e)} \cup {Saved(c, e) : c \in Range(Crates)}
                                      : e \in Exps \ {Native}}
    /\ \A p \in Runs : proc[p].file \in DOMAIN disk \cup {<< >>}

\* The processes whose reports are in a file.
Reporters(file) == {disk[file][i].by : i \in {j \in DOMAIN disk[file] : disk[file][j].run = 1}}

SavedRuns == {p \in Runs : Saved(p[1], p[2]) \in DOMAIN disk}
Result(p) == Saved(p[1], p[2])

\* "features never mix": while the crates of an experiment are processed its library
\* is staged, and unless cargo clean has failed no file of another one; and no process
\* is linked with another experiment's library, other than those that may outlive
\* their command and link when the next library is staged.
FeaturesNeverMix ==
    /\ pc \in {"crate", "command"} /\ E # Native =>
         PERF_RLIB = E /\ (staged = {E} \/ E \in unclean)
    /\ \A p \in Runs \ failed : proc[p].lib \in {None, p[2]}

\* A result that holds a report of another crate or experiment got it from a run
\* that had failed, or from /tmp when the crate itself had no output file.
StrangersExplained ==
    \A p \in SavedRuns : \A q \in Reporters(Result(p)) \ {p} :
      q \in failed \/ (q = Manual /\ Reporters(Result(p)) = {Manual})

\* All that the processes of a run have written, if its commands have all succeeded, is
\* in its result, and its reports are nowhere else, whatever failed before and whoever
\* writes at the same time.
ResultComplete ==
    /\ \A p \in passed : \A f \in DOMAIN disk : p \in Reporters(f) => f = Result(p)
    /\ \A chunk \in wrote : chunk.by \in passed =>
         Result(chunk.by) \in DOMAIN disk /\ chunk \in Range(disk[Result(chunk.by)])

\* "Tracks coverage for lines starting with 'src/' across all test runs": the
\* analysis of a result counts the lines that the reports in it were written from,
\* whatever newlines and reports of other processes come between them.
AnalysisAgrees ==
    pc = "exited" => \A p \in SavedRuns :
      LET all == analyze_unsafe_coverage(FileLines(disk[Result(p)]))
          written == Range(disk[Result(p)])
      IN  /\ all.registered = SrcLines \cap UNION {r.registered : r \in written}
          /\ all.executed = SrcLines \cap UNION {r.executed : r \in written}

\* "the per-binary .stat files in the results directory are the source of truth":
\* a result holds reports of the crate and experiment it is named after.
ResultsOwn == \A p \in SavedRuns : Reporters(Result(p)) \subseteq {p}

\* "running in 'native' mode (compile/bench only)": nothing of /tmp is moved.
TmpKept == tmp
=============================================================================
