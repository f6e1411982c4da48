----------------------------- MODULE CommandRun -----------------------------
(***************************************************************************)
(* A process of transportbench: main reads the command line, runs the      *)
(* matrix of its command and writes the report; any command may be run     *)
(* next, after a success, an Err or a kill.  What outlives the process is  *)
(* the queueing discipline of the loopback interface and the directory of  *)
(* the h2load logs; the first process may find any of both.                *)
(*                                                                         *)
(* The scenarios are steps of their own here (H2Scenario, H3Exchange,      *)
(* Overload and PacedTrial model them), except for those of h2load-rate.   *)
(***************************************************************************)
EXTENDS CommandLine, RunMatrix, OverloadReport, H2LoadTrial

CONSTANTS
  Inputs(_),       \* the values tried for an option of a kind
  DefaultLoads,    \* stands for the lists of loads the commands default to
  MaxArguments,    \* bound: arguments of a command line
  MaxSurprises     \* bound: rows of an overload command that measure
                   \* anything but what the claim expects, and children
                   \* that end before they open their log

ASSUME LoadsAssumption == DefaultLoads \in Seq(Nat \ {0}) /\ DefaultLoads # <<>>
ASSUME InputsAssumption == \A kind \in Kinds : Inputs(kind) \subseteq Seq(STRING)
ASSUME BoundsAssumption == {MaxArguments, MaxSurprises} \subseteq Nat

VARIABLES
  command, config,
  stage,          \* arguments, setup, round, point, report, written, ended
  status,         \* running, ok, err, help, killed
  arguments,      \* how many were read
  round, done,    \* the outer loop and the points done in its round
  rows,           \* what was measured
  surprises,
  report,         \* none, partial, whole
  verdict,        \* the outcome the summary states
  tc,             \* tc may be run and works
  qdisc           \* the profile on the loopback interface

startVars == <<command, config, tc>>
loopVars == <<round, done, rows, surprises>>
reportVars == <<report, verdict>>
commandVars == <<startVars, arguments, stage, status, loopVars, reportVars, qdisc, trialVars>>

\* The first process: the interface and the directory may be as any left them.
Init ==
  /\ command \in CommandNames /\ config = Defaults(command, DefaultLoads)
  /\ stage = "arguments" /\ status = "running" /\ arguments = 0
  /\ round = 1 /\ done = 0 /\ rows = {} /\ surprises = 0
  /\ report = "none" /\ verdict = FALSE
  /\ tc = FALSE
  /\ qdisc \in DOMAIN FailureNames /\ stale \in BOOLEAN
  /\ TrialInit

\* The bench command with -netem.
Netem == command = "bench" /\ config.netem[1]

\* main returns, or the process is killed: its memory is gone.
Exit(result) ==
  /\ stage' = "ended" /\ status' = result
  /\ config' = Defaults(command, DefaultLoads) /\ arguments' = 0
  /\ round' = 1 /\ done' = 0 /\ rows' = {} /\ surprises' = 0
  /\ TrialDies
  /\ tc' = FALSE /\ UNCHANGED command

-----------------------------------------------------------------------------
(***************************************************************************)
(* The command line.                                                       *)
(***************************************************************************)
ReadArgument ==
  /\ stage = "arguments" /\ arguments < MaxArguments
  /\ \E option \in DOMAIN OptionsOf(command) :
       \E value \in Inputs(OptionsOf(command)[option]) :
         LET parsed == parse(OptionsOf(command)[option], value) IN
         parsed # <<>> /\ config' = [config EXCEPT ![option] = parsed]
  /\ arguments' = arguments + 1
  /\ UNCHANGED <<command, tc, stage, status, loopVars, reportVars, qdisc, trialVars>>

\* An unknown argument, a missing value or one that does not parse; or help.
ArgumentStops ==
  /\ stage = "arguments"
  /\ \E result \in {"err", "help"} : Exit(result)
  /\ UNCHANGED <<reportVars, qdisc>>

EndArguments ==
  /\ stage = "arguments" /\ NetemGiven(command, config)
  /\ stage' = "setup"
  /\ UNCHANGED <<startVars, arguments, status, loopVars, reportVars, qdisc, trialVars>>

NetemMissing ==
  /\ stage = "arguments" /\ ~NetemGiven(command, config)
  /\ Exit("err")
  /\ UNCHANGED <<reportVars, qdisc>>

\* The payload corpus, the directories, the capabilities of h2load; whether
\* this process may run tc.
Setup ==
  /\ stage = "setup"
  /\ stage' = "round"
  /\ tc' \in {FALSE, Netem}
  /\ IF command = "h2load-rate" THEN DetectCapabilities ELSE UNCHANGED trialVars
  /\ UNCHANGED <<command, config, arguments, status, loopVars, reportVars, qdisc>>

-----------------------------------------------------------------------------
(***************************************************************************)
(* The impairment.                                                         *)
(***************************************************************************)
Current == Rounds(command, config)[round]

\* Mutated: nothing is deleted.
clear_Nothing == qdisc

\* netem.clear, which does not look at what tc answers.
clear == IF Netem /\ tc THEN "none" ELSE qdisc

Applies == Netem /\ ~Unimpaired(Current)

\* The head of the outer loop: clear and apply for the bench command, nothing
\* for the others.
BeginRound ==
  /\ stage = "round" /\ (Applies => tc)
  /\ stage' = "point"
  /\ qdisc' = IF Applies THEN Current ELSE clear
  /\ UNCHANGED <<startVars, arguments, status, loopVars, reportVars, trialVars>>

ApplyFails ==
  /\ stage = "round" /\ Applies
  /\ qdisc' = clear
  /\ Exit("err")
  /\ UNCHANGED reportVars

-----------------------------------------------------------------------------
(***************************************************************************)
(* The inner loops.                                                        *)
(***************************************************************************)
InnerLoops == Loops(command, config)
More == stage = "point" /\ done < Size(InnerLoops)
Here == Point(InnerLoops, done)

Pushed(outcome) ==
  /\ rows' = rows \cup {[nr |-> Cardinality(rows) + 1, round |-> Current,
                         point |-> Here, outcome |-> outcome]}
  /\ done' = done + 1
  /\ UNCHANGED <<startVars, arguments, stage, status, round, reportVars, qdisc>>

\* What the claim expects of a mode; any of the values may surprise.
Expected(mode) ==
  [bytes_read |-> IF mode = "Reset" THEN 0 ELSE 1,
   server_ms |-> IF mode = "Reset" THEN 0 ELSE 1, reject_mean |-> 1]
Measurements == [bytes_read : 0 .. 1, server_ms : 0 .. 1, reject_mean : 0 .. 1]

\* A bench row is measured under the impairment of its moment.
MeasureBench ==
  /\ command = "bench" /\ More
  /\ Pushed(qdisc) /\ UNCHANGED <<surprises, trialVars>>

MeasureOverload ==
  /\ command = "overload" /\ More
  /\ \E outcome \in Measurements :
       /\ surprises' = surprises + (IF outcome = Expected(Variant(Here)) THEN 0 ELSE 1)
       /\ surprises' <= MaxSurprises
       /\ Pushed(outcome)
  /\ UNCHANGED trialVars

MeasurePps ==
  /\ command \in {"rust-pps", "rust-pps-nginx"} /\ More
  /\ Pushed("row") /\ UNCHANGED <<surprises, trialVars>>

\* h2load-rate: the steps of a trial.
Path == log_path(Current, Here)
Number == Cardinality(rows) + 1
Others == UNCHANGED <<startVars, arguments, stage, status, loopVars, reportVars, qdisc>>

SpawnH2Load ==
  /\ command = "h2load-rate" /\ More
  /\ SpawnChild(Variant(Here), config.clients[1])
  /\ Others

ChildStep ==
  /\ Polling /\ Others
  /\ ChildLogs(Path, Number) \/ ChildExits \/ ChildBlocks

ChildFails ==
  /\ Polling /\ surprises < MaxSurprises
  /\ ChildQuits
  /\ surprises' = surprises + 1
  /\ UNCHANGED <<startVars, arguments, stage, status, round, done, rows, reportVars, qdisc>>

TrialStep ==
  trial # "off" /\ Others /\ (Sample \/ SampleEnds \/ Reap(Path) \/ StopServer)
ServerStep == trial # "off" /\ Others /\ ServerEnds
EndTrial == stage = "point" /\ trial # "off" /\ Joined /\ Pushed(lines) /\ UNCHANGED surprises

\* Mutated: the range excludes its end.
LastRound_Exclusive == round + 1 >= Len(Rounds(command, config))
LastRound == round = Len(Rounds(command, config))

EndRound ==
  /\ stage = "point" /\ done = Size(InnerLoops)
  /\ done' = 0 /\ round' = round + 1
  /\ stage' = IF LastRound THEN "report" ELSE "round"
  /\ UNCHANGED <<startVars, arguments, status, rows, surprises, reportVars, qdisc, trialVars>>

-----------------------------------------------------------------------------
(***************************************************************************)
(* The end.                                                                *)
(***************************************************************************)
\* The final clear of the bench command, then the rows, on disk or on stdout;
\* for the overload command the summary with its verdict.
WriteReport ==
  /\ stage = "report"
  /\ stage' = "written" /\ report' = "whole"
  /\ qdisc' = clear
  /\ verdict' = (command = "overload" /\ overload_claim_supported(rows))
  /\ UNCHANGED <<startVars, arguments, status, loopVars, trialVars>>

ReportFails ==
  /\ stage = "report"
  /\ report' \in {"none", "partial"} /\ UNCHANGED verdict
  /\ qdisc' = clear
  /\ Exit("err")

\* The overload command draws its charts first.
Finish ==
  /\ stage = "written"
  /\ Exit("ok")
  /\ UNCHANGED <<reportVars, qdisc>>

\* Any `?`: of the setup, of a scenario or trial before, during or after the
\* child, of the chart generator.  Nothing of the rows is kept.
Fails ==
  /\ stage = "setup" \/ More \/ (stage = "written" /\ command = "overload")
  /\ Exit("err")
  /\ UNCHANGED <<reportVars, qdisc>>

\* A trial that cannot run, or whose child left no log.
TrialFails ==
  /\ command = "h2load-rate" /\ More
  /\ \/ trial = "off" /\ ~Runnable(Variant(Here), config.clients[1])
     \/ trial = "polling" /\ child = "exited" /\ ~Exists(Path)
  /\ Exit("err")
  /\ UNCHANGED <<reportVars, qdisc>>

Killed ==
  /\ stage # "ended"
  /\ Exit("killed")
  /\ UNCHANGED <<reportVars, qdisc>>

\* The next process, of any command.
Start ==
  /\ stage = "ended"
  /\ stage' = "arguments" /\ status' = "running"
  /\ command' \in CommandNames /\ config' = Defaults(command', DefaultLoads)
  /\ report' = "none" /\ verdict' = FALSE
  /\ UNCHANGED <<tc, arguments, loopVars, qdisc, trialVars>>

Progress ==
  \/ EndArguments \/ NetemMissing \/ Setup
  \/ BeginRound \/ ApplyFails \/ EndRound
  \/ MeasureBench \/ MeasureOverload \/ MeasurePps
  \/ SpawnH2Load \/ TrialStep \/ EndTrial \/ TrialFails
  \/ WriteReport \/ Finish

Next ==
  \/ Progress \/ ChildStep \/ ChildFails \/ ServerStep
  \/ ReadArgument \/ ArgumentStops \/ Fails \/ ReportFails \/ Killed \/ Start

Safety == Init /\ [][Next]_commandVars

\* Where nothing bounds what the process waits for: a scenario or trial that is
\* one step here, docker stats, a child whose pipes nobody reads.
Waits == (More /\ command # "h2load-rate") \/ trial = "sampling" \/ child = "blocked"

\* Everywhere else the process is scheduled, and so is its server task or
\* thread; a child that is not blocked comes to its end.
Spec ==
  /\ Safety
  /\ WF_commandVars(~Waits /\ Progress)
  /\ WF_commandVars(ServerStep)
  /\ WF_commandVars(ChildStep)

-----------------------------------------------------------------------------
(***************************************************************************)
(* Properties.                                                             *)
(***************************************************************************)
\* A configuration the loops can run, whichever arguments came in which
\* order: no list is empty, no number is zero, no transport or mode comes twice,
\* and an impairment comes with -netem.
RunnableConfig ==
  /\ \A option \in DOMAIN config :
       LET kind == OptionsOf(command)[option] IN
       /\ config[option] # <<>>
       /\ kind \in {"count", "counts"} => 0 \notin ToSet(config[option])
       /\ kind \in {"protocols", "modes"} => IsInjective(config[option])
  /\ command = "bench" /\ ~config.netem[1] => ToSet(config.failures) = {"none"}

\* Every variable has its type, the configuration that of a runnable one once
\* the command line is read (cli.rs:58, 136, 152; overload.rs:120).
TypeOK ==
  /\ command \in CommandNames /\ DOMAIN config = DOMAIN OptionsOf(command)
  /\ stage \in {"arguments", "setup", "round", "point", "report", "written", "ended"}
  /\ stage # "arguments" => RunnableConfig
  /\ status \in {"running", "ok", "err", "help", "killed"}
  /\ arguments \in 0 .. MaxArguments /\ surprises \in 0 .. MaxSurprises
  /\ round \in 1 .. Len(Rounds(command, config)) + 1 /\ done \in 0 .. Size(InnerLoops)
  /\ report \in {"none", "partial", "whole"} /\ {verdict, tc} \subseteq BOOLEAN
  /\ qdisc \in DOMAIN FailureNames
  /\ TrialTypeOK(0 .. Cardinality(rows) + 1)

\* A report that is complete has a row for each combination of the values of
\* the lists, as often as they name it, and no other; a command that succeeds
\* has written it (cli.rs:275, overload.rs:170, rust_pps.rs:103,
\* nginx_pps.rs:158, h2load_rate.rs:148).
WholeMatrix ==
  /\ status = "ok" => report = "whole"
  /\ stage = "written" =>
       LET loops == <<Rounds(command, config)>> \o InnerLoops
           Indices == {f \in [DOMAIN loops -> UNION {DOMAIN loops[i] : i \in DOMAIN loops}] :
                         \A i \in DOMAIN loops : f[i] \in DOMAIN loops[i]}
           Values(f) == [i \in DOMAIN f |-> loops[i][f[i]]]
           Measured(point) == {row \in rows : <<row.round>> \o row.point = point} IN
       /\ Cardinality(rows) = Cardinality(Indices)
       /\ \A f \in Indices :
            Cardinality(Measured(Values(f)))
              = Cardinality({g \in Indices : Values(g) = Values(f)})

\* The load of a row, its repeat and its transport or mode left out.
Load(row) ==
  IF command = "bench" THEN <<row.round, row.point[1], row.point[2]>> ELSE Front(row.point)

\* At no time has one transport of a load been measured two times more often
\* than another (README.md:256, "Protocols are interleaved by repeat for each
\* load scenario").
Interleaved ==
  LET Measured(load, variant) ==
        Cardinality({row \in rows : Load(row) = load /\ Variant(row.point) = variant})
      variants == ToSet(Last(InnerLoops)) IN
  \A load \in {Load(row) : row \in rows}, v, w \in variants :
    Measured(load, v) <= Measured(load, w) + 1

\* With -netem a row was measured under the profile it names, whatever an
\* earlier process left on the interface; for a profile without arguments
\* this needs a tc that works, since clear ignores its failure.  A command
\* that succeeds leaves nothing behind (cli.rs:276, 299; netem_csv.rs:25).
UnderItsImpairment ==
  Netem =>
    /\ \A row \in rows : ~Unimpaired(row.round) \/ tc => row.outcome = row.round
    /\ stage = "written" /\ tc => qdisc = "none"

\* The summary says that the claim is supported exactly if both modes were
\* measured and reset was better in every pair of the same load and repeat;
\* with a value named twice the later row hides the earlier one, and this is
\* not so (overload.rs:1094, 1145).
VerdictFollows ==
  command = "overload" /\ stage = "written"
  /\ (\A i \in 1 .. 3 : IsInjective(InnerLoops[i])) =>
    LET Rivals(a, r) ==
          /\ Variant(a.point) = "App503" /\ Variant(r.point) = "Reset"
          /\ Front(a.point) = Front(r.point) /\ a.round = r.round IN
    verdict <=> /\ Len(config.modes) = 2
                /\ \A a, r \in rows : Rivals(a, r) => Better(r.outcome, a.outcome)

\* In a directory without older logs, and when no value is named twice, a row
\* counts the lines of its own child only (h2load_rate.rs:254, 355).
OwnLog ==
  command = "h2load-rate" /\ ~stale /\ (\A i \in 1 .. 3 : IsInjective(InnerLoops[i])) =>
    \A row \in rows : row.outcome \subseteq {row.nr}

\* Every process ends, except one that stays for ever in a scenario or trial of
\* another command than h2load-rate, in docker stats, or with a child that fills
\* a pipe nobody reads: the matrix of each command and all of an h2load trial
\* come to their end, the join of its server included (cli.rs:275,
\* h2load_rate.rs:201, 239, 334, 338, 345).
Ends == []<>(stage = "ended") \/ <>[]Waits
=============================================================================
