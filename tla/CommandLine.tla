----------------------------- MODULE CommandLine -----------------------------
(***************************************************************************)
(* The command lines of the five commands: from_args of each and the       *)
(* parsers they share (cli.rs, overload.rs).  A value is the sequence of   *)
(* its parts between commas; a part is a word.  What parses as a number,   *)
(* a percentage or a name is a table; every other word is an Err.          *)
(*                                                                         *)
(* The configuration maps each option to a sequence, of one element when   *)
(* the option is no list.  No accepted value is the empty sequence, which  *)
(* therefore stands for the Err of a parser.  Spellings of one flag are    *)
(* one option.                                                             *)
(***************************************************************************)
EXTENDS Integers, Sequences, SequencesExt

\* The words a part may be, and what parse::<usize>() and parse::<f64>()
\* make of those they accept; percentages in thousandths, as in RejectPolicy.
\* NaN is a number that is in no range.  Of the eight failure profiles three
\* stand here: the one without arguments for tc and two with some.
Numerals == [zero |-> 0, one |-> 1, two |-> 2]
Percentages == [zero |-> 0, half |-> 50000, all |-> 100000, over |-> 100001, nan |-> -1]
ProtocolNames == [h2 |-> "H2", h2_inline |-> "H2", h3 |-> "H3", h3_quiche |-> "H3"]
ModeNames == [app503 |-> "App503", reset |-> "Reset"]
FailureNames == [none |-> "none", loss1 |-> "loss1", delay1s |-> "delay1s"]

\* A profile without arguments for tc.
Unimpaired(failure) == failure = "none"

\* What trims to nothing.
Blank == ""

\* The parts that are not blank, pushed one by one.
split_csv(value) ==
  LET parts[n \in 0 .. Len(value)] ==
        IF n = 0 THEN <<>>
        ELSE IF value[n] = Blank THEN parts[n - 1] ELSE Append(parts[n - 1], value[n]) IN
  parts[Len(value)]

\* Each part by the table.
Parsed(table, value) ==
  LET parts == split_csv(value) IN
  IF ToSet(parts) \subseteq DOMAIN table THEN [i \in DOMAIN parts |-> table[parts[i]]] ELSE <<>>

parse_positive_usizes(value) ==
  LET numbers == Parsed(Numerals, value) IN
  IF 0 \in ToSet(numbers) THEN <<>> ELSE numbers

\* Not split: neither a list nor a blank is a number.
parse_positive_usize(value) ==
  IF Len(value) = 1 /\ value[1] # Blank THEN parse_positive_usizes(value) ELSE <<>>

parse_percent(value) ==
  LET numbers == IF Len(value) = 1 /\ value[1] # Blank THEN Parsed(Percentages, value) ELSE <<>> IN
  IF ToSet(numbers) \subseteq 0 .. 100000 THEN numbers ELSE <<>>

\* Mutated: every element is kept.
Distinct_Not(out) == out

\* The first of each: what is there already is not pushed again.
Distinct(out) ==
  LET kept[n \in 0 .. Len(out)] ==
        IF n = 0 THEN <<>>
        ELSE IF Contains(kept[n - 1], out[n]) THEN kept[n - 1] ELSE Append(kept[n - 1], out[n]) IN
  kept[Len(out)]

parse_protocols(value) == Distinct(Parsed(ProtocolNames, value))
parse_overload_modes(value) == Distinct(Parsed(ModeNames, value))
parse_failures(value) == Parsed(FailureNames, value)

\* A scheme, a port that is a u16 or left out, a host that resolves.
TargetEndpoint_parse(value) ==
  IF value \in {<<"https", port, "resolves">> : port \in {"u16", "none"}} THEN value ELSE <<>>

\* What an option's value is parsed as.
Kinds ==
  {"protocols", "modes", "failures", "counts", "count", "percent", "target", "switch", "text"}

\* A path or a name is taken as it is; a switch has no value.
parse(kind, value) ==
  CASE kind = "protocols" -> parse_protocols(value)
    [] kind = "modes" -> parse_overload_modes(value)
    [] kind = "failures" -> parse_failures(value)
    [] kind = "counts" -> parse_positive_usizes(value)
    [] kind = "count" -> parse_positive_usize(value)
    [] kind = "percent" -> parse_percent(value)
    [] kind = "target" -> TargetEndpoint_parse(value)
    [] kind = "switch" -> <<TRUE>>
    [] kind = "text" -> <<"text">>

-----------------------------------------------------------------------------
(***************************************************************************)
(* The options of each command.                                            *)
(***************************************************************************)
BenchOptions ==
  [payloads |-> "text", protocols |-> "protocols", users |-> "counts", messages |-> "counts",
   failures |-> "failures", repeats |-> "count", output |-> "text", netem |-> "switch"]

OverloadOptions ==
  [requests |-> "count", concurrency |-> "counts", payload_sizes |-> "counts",
   thresholds |-> "counts", reject_percent |-> "percent", modes |-> "modes",
   repeats |-> "count", output_dir |-> "text"]

H2LoadRateOptions ==
  [protocols |-> "protocols", payload_sizes |-> "counts", target_pps |-> "counts",
   duration |-> "count", clients |-> "count", streams |-> "count", threads |-> "count",
   repeats |-> "count", h2load |-> "text", output |-> "text", log_dir |-> "text"]

RustPpsOptions ==
  [protocols |-> "protocols", payload_sizes |-> "counts", target_pps |-> "counts",
   duration |-> "count", max_inflight |-> "count", repeats |-> "count", output |-> "text"]

NginxPpsOptions ==
  [protocols |-> "protocols", payload_sizes |-> "counts", target_pps |-> "counts",
   duration |-> "count", max_inflight |-> "count", repeats |-> "count", target |-> "target",
   nginx_container |-> "text", output |-> "text"]

CommandNames == {"bench", "overload", "h2load-rate", "rust-pps", "rust-pps-nginx"}

OptionsOf(command) ==
  CASE command = "bench" -> BenchOptions
    [] command = "overload" -> OverloadOptions
    [] command = "h2load-rate" -> H2LoadRateOptions
    [] command = "rust-pps" -> RustPpsOptions
    [] command = "rust-pps-nginx" -> NginxPpsOptions

\* What from_args starts from, by kind; the loads are lists of positive
\* numbers in the code.
Default(kind, loads) ==
  CASE kind = "protocols" -> <<"H2", "H3">>
    [] kind = "modes" -> <<"App503", "Reset">>
    [] kind = "failures" -> <<"none">>
    [] kind = "counts" -> loads
    [] kind = "count" -> <<1>>
    [] kind = "percent" -> <<0>>
    [] kind = "switch" -> <<FALSE>>
    [] kind \in {"text", "target"} -> <<"text">>

Defaults(command, loads) ==
  LET options == OptionsOf(command) IN
  [option \in DOMAIN options |-> Default(options[option], loads)]

\* Mutated: the check is made while the profiles are read, -netem not seen yet.
NetemGiven_Skipped(command, config) == TRUE

\* After the last argument: an impairment needs -netem.
NetemGiven(command, config) ==
  command = "bench" /\ ~config.netem[1] => \A failure \in ToSet(config.failures) : Unimpaired(failure)
=============================================================================
