-------------------------- MODULE CommandRunProofs --------------------------
(***************************************************************************)
(* Theorems about CommandRun, for any loads, inputs and bounds and any     *)
(* sequence of processes that end well, fail or are killed.                *)
(***************************************************************************)
EXTENDS CommandRun, FiniteSetTheorems, FunctionTheorems, WellFoundedInduction, TLAPS

(***************************************************************************)
(* Induction, as far as it can be stated without an operator: every set of *)
(* naturals has a least element, and what holds of 0 and of each successor *)
(* below N holds up to N.                                                  *)
(***************************************************************************)
LEMMA NatLeast ==
  ASSUME NEW T \in SUBSET Nat, T # {}
  PROVE  \E x \in T : \A y \in T : x <= y
<1>1. IsWellFoundedOn({ss \in Nat \X Nat : ss[1] < ss[2]}, Nat)
  BY NatLessThanWellFounded DEF OpToRel
<1>2. PICK x \in T : \A y \in T : ~ (<<y, x>> \in {ss \in Nat \X Nat : ss[1] < ss[2]})
  BY <1>1, WFMin
<1>3. \A y \in T : ~(y < x)
  BY <1>2
<1> QED BY <1>3

LEMMA Climb ==
  ASSUME NEW T \in SUBSET Nat, NEW N \in Nat, 0 \in T, \A n \in T : n < N => n + 1 \in T
  PROVE  0 .. N \subseteq T
<1> DEFINE Missing == {n \in Nat : n <= N /\ n \notin T}
<1> SUFFICES ASSUME Missing # {} PROVE FALSE
  OBVIOUS
<1>1. Missing \in SUBSET Nat
  OBVIOUS
<1>2. PICK x \in Missing : \A y \in Missing : x <= y
  <2> HIDE DEF Missing
  <2> QED BY <1>1, NatLeast
<1>3. x \in Nat /\ x # 0 /\ x - 1 \in Nat /\ x - 1 < N /\ ~(x <= x - 1)
  BY <1>2
<1>4. x - 1 \in T
  BY <1>2, <1>3
<1> QED BY <1>2, <1>3, <1>4

-----------------------------------------------------------------------------
(***************************************************************************)
(* The parsers.                                                            *)
(***************************************************************************)
\* What a loop over values does that pushes some of them.
Pushes(g, values, m) ==
  /\ g[0] = <<>>
  /\ \A n \in 1 .. m : g[n] = g[n - 1] \/ g[n] = Append(g[n - 1], values[n])

LEMMA PushesSeq ==
  ASSUME NEW S, NEW values \in Seq(S), NEW g, Pushes(g, values, Len(values))
  PROVE  \A n \in 0 .. Len(values) : g[n] \in Seq(S)
<1> DEFINE T == {n \in Nat : n <= Len(values) => g[n] \in Seq(S)}
<1>1. 0 \in T /\ T \in SUBSET Nat
  <2>1. g[0] \in Seq(S)
    BY DEF Pushes
  <2> QED BY <2>1
<1>2. ASSUME NEW n \in T, n < Len(values) PROVE n + 1 \in T
  <2>1. g[n] \in Seq(S) /\ n + 1 \in 1 .. Len(values) /\ values[n + 1] \in S /\ n + 1 - 1 = n
    BY <1>2
  <2>2. g[n + 1] = g[n] \/ g[n + 1] = Append(g[n], values[n + 1])
    BY <2>1 DEF Pushes
  <2>3. g[n + 1] \in Seq(S)
    <3>1. \A s \in Seq(S), x \in S : Append(s, x) \in Seq(S)
      OBVIOUS
    <3> QED BY <2>1, <2>2, <3>1, Zenon
  <2>4. n + 1 \in Nat
    OBVIOUS
  <2> QED BY <2>3, <2>4
<1> HIDE DEF T
<1>3. 0 .. Len(values) \subseteq T
  BY <1>1, <1>2, Climb
<1> QED BY <1>3 DEF T

\* The loop of split_csv, up to m, and that there is one.
Splits(g, value, m) ==
  g = [n \in 0 .. m |->
         IF n = 0 THEN <<>>
         ELSE IF value[n] = Blank THEN g[n - 1] ELSE Append(g[n - 1], value[n])]

LEMMA SplitsExists == ASSUME NEW value, NEW N \in Nat PROVE \E g : Splits(g, value, N)
<1> DEFINE T == {m \in Nat : \E g : Splits(g, value, m)}
<1>1. 0 \in T
  <2>1. Splits([n \in 0 .. 0 |-> <<>>], value, 0)
    BY DEF Splits
  <2> QED BY <2>1
<1>2. ASSUME NEW m \in T PROVE m + 1 \in T
  <2>1. PICK g : Splits(g, value, m)
    OBVIOUS
  <2> DEFINE h == [n \in 0 .. (m + 1) |->
                     IF n = 0 THEN <<>>
                     ELSE IF value[n] = Blank THEN g[n - 1] ELSE Append(g[n - 1], value[n])]
  <2>2. \A n \in 0 .. (m + 1) : n # 0 => n - 1 \in 0 .. m
    OBVIOUS
  <2>3. ASSUME NEW n \in 0 .. m PROVE h[n] = g[n]
    <3>1. g[n] = IF n = 0 THEN <<>>
                 ELSE IF value[n] = Blank THEN g[n - 1] ELSE Append(g[n - 1], value[n])
      BY <2>1 DEF Splits
    <3> QED BY <3>1
  <2>4. Splits(h, value, m + 1)
    BY <2>2, <2>3 DEF Splits
  <2> QED BY <2>4
<1>3. T \in SUBSET Nat
  OBVIOUS
<1> HIDE DEF T
<1>4. 0 .. N \subseteq T
  BY <1>1, <1>2, <1>3, Climb
<1> QED BY <1>4 DEF T

LEMMA SplitSeq ==
  ASSUME NEW S, NEW value \in Seq(S)
  PROVE  split_csv(value) \in Seq(S)
<1>1. Len(value) \in Nat
  OBVIOUS
<1>2. PICK g : Splits(g, value, Len(value)) /\ split_csv(value) = g[Len(value)]
  BY <1>1, SplitsExists DEF split_csv, Splits
<1>3. Pushes(g, value, Len(value))
  <2>1. g[0] = <<>>
    BY <1>1, <1>2 DEF Splits
  <2>2. ASSUME NEW n \in 1 .. Len(value)
        PROVE  g[n] = g[n - 1] \/ g[n] = Append(g[n - 1], value[n])
    <3>1. n \in 0 .. Len(value) /\ n # 0
      BY <1>1
    <3>2. g[n] = IF n = 0 THEN <<>>
                 ELSE IF value[n] = Blank THEN g[n - 1] ELSE Append(g[n - 1], value[n])
      BY <1>2, <3>1 DEF Splits
    <3> QED BY <3>1, <3>2
  <2> QED BY <2>1, <2>2 DEF Pushes
<1> QED BY <1>1, <1>2, <1>3, PushesSeq

\* The loop that keeps the first of each.
Keeps(g, out, m) ==
  g = [n \in 0 .. m |->
         IF n = 0 THEN <<>>
         ELSE IF Contains(g[n - 1], out[n]) THEN g[n - 1] ELSE Append(g[n - 1], out[n])]

LEMMA KeepsExists == ASSUME NEW out, NEW N \in Nat PROVE \E g : Keeps(g, out, N)
<1> DEFINE T == {m \in Nat : \E g : Keeps(g, out, m)}
<1>1. 0 \in T
  <2>1. Keeps([n \in 0 .. 0 |-> <<>>], out, 0)
    BY DEF Keeps
  <2> QED BY <2>1
<1>2. ASSUME NEW m \in T PROVE m + 1 \in T
  <2>1. PICK g : Keeps(g, out, m)
    OBVIOUS
  <2> DEFINE h == [n \in 0 .. (m + 1) |->
                     IF n = 0 THEN <<>>
                     ELSE IF Contains(g[n - 1], out[n]) THEN g[n - 1]
                          ELSE Append(g[n - 1], out[n])]
  <2>2. \A n \in 0 .. (m + 1) : n # 0 => n - 1 \in 0 .. m
    OBVIOUS
  <2>3. ASSUME NEW n \in 0 .. m PROVE h[n] = g[n]
    <3>1. g[n] = IF n = 0 THEN <<>>
                 ELSE IF Contains(g[n - 1], out[n]) THEN g[n - 1] ELSE Append(g[n - 1], out[n])
      BY <2>1 DEF Keeps
    <3> QED BY <3>1
  <2>4. Keeps(h, out, m + 1)
    BY <2>2, <2>3 DEF Keeps
  <2> QED BY <2>4
<1>3. T \in SUBSET Nat
  OBVIOUS
<1> HIDE DEF T
<1>4. 0 .. N \subseteq T
  BY <1>1, <1>2, <1>3, Climb
<1> QED BY <1>4 DEF T

LEMMA AppendDistinct ==
  ASSUME NEW S, NEW s \in Seq(S), NEW x \in S, IsInjective(s), ~Contains(s, x)
  PROVE  IsInjective(Append(s, x))
<1>1. \A i \in 1 .. Len(s) : s[i] # x
  BY DEF Contains
<1>2. /\ DOMAIN Append(s, x) = 1 .. (Len(s) + 1)
      /\ \A i \in 1 .. (Len(s) + 1) : Append(s, x)[i] = IF i \in 1 .. Len(s) THEN s[i] ELSE x
  OBVIOUS
<1>3. \A i, j \in 1 .. Len(s) : s[i] = s[j] => i = j
  BY DEF IsInjective
<1> QED BY <1>1, <1>2, <1>3 DEF IsInjective

LEMMA DistinctSeq ==
  ASSUME NEW S, NEW out \in Seq(S)
  PROVE  Distinct(out) \in Seq(S) /\ IsInjective(Distinct(out))
<1>1. Len(out) \in Nat
  OBVIOUS
<1>2. PICK g : Keeps(g, out, Len(out)) /\ Distinct(out) = g[Len(out)]
  BY <1>1, KeepsExists DEF Distinct, Keeps
<1>3. g[0] = <<>>
  BY <1>1, <1>2 DEF Keeps
<1>4. \A n \in 1 .. Len(out) :
        \/ g[n] = g[n - 1]
        \/ g[n] = Append(g[n - 1], out[n]) /\ ~Contains(g[n - 1], out[n])
  <2> TAKE n \in 1 .. Len(out)
  <2>1. n \in 0 .. Len(out) /\ n # 0
    BY <1>1
  <2>2. g[n] = IF n = 0 THEN <<>>
               ELSE IF Contains(g[n - 1], out[n]) THEN g[n - 1] ELSE Append(g[n - 1], out[n])
    BY <1>2, <2>1 DEF Keeps
  <2> QED BY <2>1, <2>2
<1>5. \A n \in 0 .. Len(out) : g[n] \in Seq(S)
  BY <1>3, <1>4, PushesSeq DEF Pushes
<1> DEFINE T == {n \in Nat : n <= Len(out) => IsInjective(g[n])}
<1>6. 0 \in T /\ T \in SUBSET Nat
  BY <1>3 DEF IsInjective
<1>7. ASSUME NEW n \in T, n < Len(out) PROVE n + 1 \in T
  <2>1. /\ IsInjective(g[n]) /\ n \in 0 .. Len(out) /\ n + 1 \in 1 .. Len(out)
        /\ out[n + 1] \in S /\ n + 1 - 1 = n
    BY <1>7
  <2>2. \/ g[n + 1] = g[n]
        \/ g[n + 1] = Append(g[n], out[n + 1]) /\ ~Contains(g[n], out[n + 1])
    BY <1>4, <2>1
  <2>3. IsInjective(g[n + 1])
    BY <1>5, <2>1, <2>2, AppendDistinct
  <2> QED BY <2>3
<1> HIDE DEF T
<1>8. 0 .. Len(out) \subseteq T
  BY <1>1, <1>6, <1>7, Climb
<1> QED BY <1>1, <1>2, <1>5, <1>8 DEF T

LEMMA ParsedSeq ==
  ASSUME NEW table, NEW S, \A word \in DOMAIN table : table[word] \in S,
         NEW value \in Seq(STRING)
  PROVE  Parsed(table, value) \in Seq(S)
<1> DEFINE parts == split_csv(value)
<1>1. parts \in Seq(STRING)
  BY SplitSeq
<1> HIDE DEF parts
<1>2. CASE ToSet(parts) \subseteq DOMAIN table
  <2>1. \A i \in 1 .. Len(parts) : table[parts[i]] \in S
    BY <1>1, <1>2 DEF ToSet
  <2>2. Len(parts) \in Nat /\ DOMAIN parts = 1 .. Len(parts)
    BY <1>1
  <2>3. [i \in DOMAIN parts |-> table[parts[i]]] \in Seq(S)
    BY <2>1, <2>2
  <2> QED BY <1>2, <2>3 DEF Parsed, parts
<1>3. CASE ~(ToSet(parts) \subseteq DOMAIN table)
  BY <1>3 DEF Parsed, parts
<1> QED BY <1>2, <1>3

\* What the value of an option of a kind is, in every configuration.
Fits(kind, value) ==
  /\ value # <<>>
  /\ kind \in {"counts", "count"} => value \in Seq(Nat \ {0})
  /\ kind \in {"protocols", "modes"} => IsInjective(value)
  /\ kind = "protocols" => value \in Seq({"H2", "H3"})
  /\ kind = "modes" => value \in Seq({"App503", "Reset"})
  /\ kind = "failures" => value \in Seq(DOMAIN FailureNames)

LEMMA UsizesFit ==
  ASSUME NEW value \in Seq(STRING)
  PROVE  parse_positive_usizes(value) \in Seq(Nat \ {0})
<1> DEFINE numbers == Parsed(Numerals, value)
<1>1. \A word \in DOMAIN Numerals : Numerals[word] \in Nat
  BY DEF Numerals
<1>2. numbers \in Seq(Nat)
  BY <1>1, ParsedSeq
<1> HIDE DEF numbers
<1>3. CASE 0 \in ToSet(numbers)
  BY <1>3 DEF parse_positive_usizes, numbers
<1>4. CASE 0 \notin ToSet(numbers)
  <2>1. Len(numbers) \in Nat /\ \A i \in 1 .. Len(numbers) : numbers[i] \in Nat \ {0}
    BY <1>2, <1>4 DEF ToSet
  <2>2. numbers \in Seq(Nat \ {0})
    BY <1>2, <2>1
  <2> QED BY <1>4, <2>2 DEF parse_positive_usizes, numbers
<1> QED BY <1>3, <1>4

LEMMA ParseFits ==
  ASSUME NEW kind \in Kinds, NEW value \in Seq(STRING), parse(kind, value) # <<>>
  PROVE  Fits(kind, parse(kind, value))
<1>1. CASE kind = "protocols"
  <2>1. \A word \in DOMAIN ProtocolNames : ProtocolNames[word] \in {"H2", "H3"}
    BY DEF ProtocolNames
  <2>2. Parsed(ProtocolNames, value) \in Seq({"H2", "H3"})
    BY <2>1, ParsedSeq
  <2>3. parse(kind, value) = Distinct(Parsed(ProtocolNames, value))
    BY <1>1 DEF parse, parse_protocols
  <2> QED BY <1>1, <2>2, <2>3, DistinctSeq DEF Fits
<1>2. CASE kind = "modes"
  <2>1. \A word \in DOMAIN ModeNames : ModeNames[word] \in {"App503", "Reset"}
    BY DEF ModeNames
  <2>2. Parsed(ModeNames, value) \in Seq({"App503", "Reset"})
    BY <2>1, ParsedSeq
  <2>3. parse(kind, value) = Distinct(Parsed(ModeNames, value))
    BY <1>2 DEF parse, parse_overload_modes
  <2> QED BY <1>2, <2>2, <2>3, DistinctSeq DEF Fits
<1>3. CASE kind = "failures"
  <2>1. \A word \in DOMAIN FailureNames : FailureNames[word] \in DOMAIN FailureNames
    BY DEF FailureNames
  <2>2. Parsed(FailureNames, value) \in Seq(DOMAIN FailureNames)
    BY <2>1, ParsedSeq
  <2>3. parse(kind, value) = Parsed(FailureNames, value)
    BY <1>3 DEF parse, parse_failures
  <2> QED BY <1>3, <2>2, <2>3 DEF Fits
<1>4. CASE kind = "counts"
  <2>1. parse(kind, value) = parse_positive_usizes(value)
    BY <1>4 DEF parse
  <2> QED BY <1>4, <2>1, UsizesFit DEF Fits
<1>5. CASE kind = "count"
  <2>1. parse(kind, value) = parse_positive_usize(value)
    BY <1>5 DEF parse
  <2>2. parse(kind, value) = parse_positive_usizes(value)
    BY <2>1 DEF parse_positive_usize
  <2> QED BY <1>5, <2>2, UsizesFit DEF Fits
<1>6. CASE kind \in {"percent", "target", "switch", "text"}
  BY <1>6 DEF Fits
<1> QED BY <1>1, <1>2, <1>3, <1>4, <1>5, <1>6 DEF Kinds

LEMMA OneAndTwo ==
  ASSUME NEW S, NEW x \in S, NEW y \in S
  PROVE  /\ <<x>> \in Seq(S) /\ <<x>> # <<>>
         /\ <<x, y>> \in Seq(S) /\ <<x, y>> # <<>> /\ (x # y => IsInjective(<<x, y>>))
<1>1. /\ <<x>> \in Seq(S) /\ Len(<<x>>) = 1
      /\ <<x, y>> \in Seq(S) /\ Len(<<x, y>>) = 2 /\ Len(<<>>) = 0
  OBVIOUS
<1>2. DOMAIN <<x, y>> = {1, 2} /\ <<x, y>>[1] = x /\ <<x, y>>[2] = y
  OBVIOUS
<1>3. x # y => IsInjective(<<x, y>>)
  BY <1>2 DEF IsInjective
<1>4. <<x>> # <<>> /\ <<x, y>> # <<>>
  BY <1>1
<1> QED BY <1>1, <1>3, <1>4

LEMMA DefaultFits == ASSUME NEW kind \in Kinds PROVE Fits(kind, Default(kind, DefaultLoads))
<1>1. CASE kind = "protocols"
  <2>1. Default(kind, DefaultLoads) = <<"H2", "H3">>
    BY <1>1 DEF Default
  <2>2. /\ <<"H2", "H3">> \in Seq({"H2", "H3"}) /\ <<"H2", "H3">> # <<>>
        /\ IsInjective(<<"H2", "H3">>)
    <3> DEFINE both == {"H2", "H3"}
    <3>1. "H2" \in both /\ "H3" \in both /\ "H2" # "H3"
      OBVIOUS
    <3> HIDE DEF both
    <3>2. /\ <<"H2", "H3">> \in Seq(both) /\ <<"H2", "H3">> # <<>>
          /\ IsInjective(<<"H2", "H3">>)
      BY <3>1, OneAndTwo, Zenon
    <3> QED BY <3>2 DEF both
  <2> DEFINE v == <<"H2", "H3">>
  <2> HIDE DEF v
  <2>3. Fits(kind, v)
    BY <1>1, <2>2 DEF Fits, v
  <2> QED BY <2>1, <2>3 DEF v
<1>2. CASE kind = "modes"
  <2>1. Default(kind, DefaultLoads) = <<"App503", "Reset">>
    BY <1>2 DEF Default
  <2>2. /\ <<"App503", "Reset">> \in Seq({"App503", "Reset"}) /\ <<"App503", "Reset">> # <<>>
        /\ IsInjective(<<"App503", "Reset">>)
    <3> DEFINE both == {"App503", "Reset"}
    <3>1. "App503" \in both /\ "Reset" \in both /\ "App503" # "Reset"
      OBVIOUS
    <3> HIDE DEF both
    <3>2. /\ <<"App503", "Reset">> \in Seq(both) /\ <<"App503", "Reset">> # <<>>
          /\ IsInjective(<<"App503", "Reset">>)
      BY <3>1, OneAndTwo, Zenon
    <3> QED BY <3>2 DEF both
  <2> DEFINE v == <<"App503", "Reset">>
  <2> HIDE DEF v
  <2>3. Fits(kind, v)
    BY <1>2, <2>2 DEF Fits, v
  <2> QED BY <2>1, <2>3 DEF v
<1>3. CASE kind = "failures"
  <2>1. Default(kind, DefaultLoads) = <<"none">>
    BY <1>3 DEF Default
  <2>2. "none" \in DOMAIN FailureNames
    BY DEF FailureNames
  <2>3. <<"none">> \in Seq(DOMAIN FailureNames) /\ <<"none">> # <<>>
    BY <2>2, OneAndTwo
  <2> QED BY <1>3, <2>1, <2>3, Zenon DEF Fits
<1>4. CASE kind = "counts"
  <2>1. Default(kind, DefaultLoads) = DefaultLoads
    BY <1>4 DEF Default
  <2> QED BY <1>4, <2>1, LoadsAssumption DEF Fits
<1>5. CASE kind = "count"
  <2>1. Default(kind, DefaultLoads) = <<1>>
    BY <1>5 DEF Default
  <2>2. <<1>> \in Seq(Nat \ {0}) /\ <<1>> # <<>>
    BY OneAndTwo
  <2> QED BY <1>5, <2>1, <2>2, Zenon DEF Fits
<1>6. CASE kind \in {"percent", "target", "switch", "text"}
  <2>1. Default(kind, DefaultLoads) \in {<<0>>, <<"text">>, <<FALSE>>}
    BY <1>6 DEF Default
  <2>2. Default(kind, DefaultLoads) # <<>>
    BY <2>1, OneAndTwo
  <2> QED BY <1>6, <2>2 DEF Fits
<1> QED BY <1>1, <1>2, <1>3, <1>4, <1>5, <1>6 DEF Kinds

-----------------------------------------------------------------------------
(***************************************************************************)
(* The configuration.                                                      *)
(***************************************************************************)
LEMMA OptionKinds ==
  ASSUME NEW c \in CommandNames, NEW option \in DOMAIN OptionsOf(c)
  PROVE  OptionsOf(c)[option] \in Kinds
<1>1. CASE c = "bench"
  BY <1>1 DEF OptionsOf, BenchOptions, Kinds
<1>2. CASE c = "overload"
  BY <1>2 DEF OptionsOf, OverloadOptions, Kinds
<1>3. CASE c = "h2load-rate"
  BY <1>3 DEF OptionsOf, H2LoadRateOptions, Kinds
<1>4. CASE c = "rust-pps"
  BY <1>4 DEF OptionsOf, RustPpsOptions, Kinds
<1>5. CASE c = "rust-pps-nginx"
  BY <1>5 DEF OptionsOf, NginxPpsOptions, Kinds
<1> QED BY <1>1, <1>2, <1>3, <1>4, <1>5 DEF CommandNames

\* Whatever the arguments were, each option has a value of its kind.
ConfigInv ==
  /\ command \in CommandNames /\ DOMAIN config = DOMAIN OptionsOf(command)
  /\ \A option \in DOMAIN config : Fits(OptionsOf(command)[option], config[option])

LEMMA DefaultsFit ==
  ASSUME NEW c \in CommandNames
  PROVE  /\ DOMAIN Defaults(c, DefaultLoads) = DOMAIN OptionsOf(c)
         /\ \A option \in DOMAIN OptionsOf(c) :
              Fits(OptionsOf(c)[option], Defaults(c, DefaultLoads)[option])
BY OptionKinds, DefaultFits DEF Defaults

LEMMA ConfigInit == Init => ConfigInv
BY DefaultsFit DEF Init, ConfigInv

LEMMA ConfigExit == ASSUME ConfigInv, NEW result, Exit(result) PROVE ConfigInv'
BY DefaultsFit DEF Exit, ConfigInv

LEMMA ConfigNext == ConfigInv /\ [Next]_commandVars => ConfigInv'
<1> SUFFICES ASSUME ConfigInv, [Next]_commandVars PROVE ConfigInv'
  OBVIOUS
<1>1. CASE ReadArgument
  <2>1. PICK option \in DOMAIN OptionsOf(command) :
          \E value \in Inputs(OptionsOf(command)[option]) :
            LET parsed == parse(OptionsOf(command)[option], value) IN
            parsed # <<>> /\ config' = [config EXCEPT ![option] = parsed]
    BY <1>1 DEF ReadArgument
  <2>2. PICK value \in Inputs(OptionsOf(command)[option]) :
          LET parsed == parse(OptionsOf(command)[option], value) IN
          parsed # <<>> /\ config' = [config EXCEPT ![option] = parsed]
    BY <2>1
  <2>3. OptionsOf(command)[option] \in Kinds
    BY OptionKinds DEF ConfigInv
  <2>4. value \in Seq(STRING)
    BY <2>2, <2>3, InputsAssumption
  <2>5. Fits(OptionsOf(command)[option], parse(OptionsOf(command)[option], value))
    BY <2>2, <2>3, <2>4, ParseFits
  <2>6. command' = command
    BY <1>1 DEF ReadArgument
  <2> QED BY <2>2, <2>5, <2>6 DEF ConfigInv
<1>2. CASE \/ NetemMissing \/ ApplyFails \/ TrialFails \/ Finish
           \/ ArgumentStops \/ Fails \/ ReportFails \/ Killed
  BY <1>2, ConfigExit DEF NetemMissing, ApplyFails, TrialFails, Finish, ArgumentStops,
     Fails, ReportFails, Killed
<1>3. CASE Start
  <2>1. command' \in CommandNames /\ config' = Defaults(command', DefaultLoads)
    BY <1>3 DEF Start
  <2> QED BY <2>1, DefaultsFit DEF ConfigInv
<1>4. CASE ~(ReadArgument \/ NetemMissing \/ ApplyFails \/ TrialFails \/ Finish
             \/ ArgumentStops \/ Fails \/ ReportFails \/ Killed \/ Start)
  <2>1. UNCHANGED <<command, config>>
    BY <1>4 DEF Next, Progress, EndArguments, Setup, BeginRound, EndRound, MeasureBench,
       MeasureOverload, MeasurePps, SpawnH2Load, TrialStep, EndTrial, WriteReport, ChildStep,
       ChildFails, ServerStep, Pushed, Others, startVars, commandVars
  <2> QED BY <2>1 DEF ConfigInv
<1> QED BY <1>1, <1>2, <1>3, <1>4

-----------------------------------------------------------------------------
(***************************************************************************)
(* The impairment.                                                         *)
(***************************************************************************)
\* The interface shows the profile of the round; rows and trials belong to a
\* process that has begun to measure, and only h2load-rate has trials of its
\* own.
IInv ==
  /\ stage \in {"arguments", "setup", "ended"} => rows = {} /\ trial = "off"
  /\ trial # "off" => command = "h2load-rate"
  /\ stage = "point" /\ Netem /\ (~Unimpaired(Current) \/ tc) => qdisc = Current
  /\ UnderItsImpairment

LEMMA IInvInit == Init => IInv
BY DEF Init, TrialInit, IInv, UnderItsImpairment

\* Whatever ends a process, nothing of it is left in memory.
LEMMA ExitKeeps == ASSUME NEW result, Exit(result) PROVE IInv'
BY DEF Exit, TrialDies, IInv, UnderItsImpairment

\* A step that leaves the command, the loops and the interface alone.
LEMMA QuietKeeps ==
  ASSUME IInv, UNCHANGED <<command, config, tc, round, rows, qdisc>>,
         stage' = stage \/ stage' \notin {"arguments", "setup", "ended", "point", "written"}
           \/ (rows = {} /\ trial' = "off" /\ stage' \notin {"point", "written"}),
         \/ trial' = trial
         \/ trial' # "off" => /\ stage' = stage
                              /\ trial # "off" \/ (command = "h2load-rate" /\ stage = "point")
  PROVE  IInv'
<1>1. Netem' = Netem /\ Current' = Current
  BY DEF Netem, Current
<1>2. UnderItsImpairment'
  BY <1>1 DEF IInv, UnderItsImpairment
<1>3. (stage \in {"arguments", "setup", "ended"} => rows = {} /\ trial = "off")'
  BY DEF IInv
<1>4. (trial # "off" => command = "h2load-rate")'
  BY DEF IInv
<1> QED BY <1>1, <1>2, <1>3, <1>4 DEF IInv

LEMMA PushedKeeps ==
  ASSUME IInv, NEW outcome, Pushed(outcome), Netem => More /\ outcome = qdisc,
         stage = "point", trial' = trial \/ trial' = "off"
  PROVE  IInv'
<1>1. /\ UNCHANGED <<command, config, tc, round, stage, status, qdisc>>
      /\ \A row \in rows' : row \in rows \/ (row.round = Current /\ row.outcome = outcome)
  BY DEF Pushed, startVars, reportVars
<1>2. Netem' = Netem /\ Current' = Current
  BY <1>1 DEF Netem, Current
<1>3. Netem => \A row \in rows' : ~Unimpaired(row.round) \/ tc => row.outcome = row.round
  BY <1>1 DEF IInv, UnderItsImpairment
<1>4. UnderItsImpairment'
  BY <1>1, <1>2, <1>3 DEF UnderItsImpairment
<1> QED BY <1>1, <1>2, <1>4 DEF IInv

LEMMA IInvNext == IInv /\ [Next]_commandVars => IInv'
<1> SUFFICES ASSUME IInv, [Next]_commandVars PROVE IInv'
  OBVIOUS
<1>1. CASE ReadArgument
  BY <1>1 DEF ReadArgument, IInv, UnderItsImpairment, loopVars, trialVars
<1>2. CASE EndArguments
  BY <1>2, QuietKeeps DEF EndArguments, startVars, loopVars, trialVars, IInv
<1>3. CASE Setup
  BY <1>3 DEF Setup, IInv, UnderItsImpairment, loopVars, trialVars, DetectCapabilities
<1>4. CASE BeginRound
  <2>1. /\ UNCHANGED <<command, config, tc, round, rows, trial>> /\ stage' = "point"
        /\ qdisc' = IF Applies THEN Current ELSE clear
    BY <1>4 DEF BeginRound, startVars, loopVars, trialVars
  <2>2. Netem' = Netem /\ Current' = Current
    BY <2>1 DEF Netem, Current
  <2>3. Netem /\ (~Unimpaired(Current) \/ tc) => qdisc' = Current
    BY <2>1 DEF Applies, clear, Unimpaired
  <2> QED BY <2>1, <2>2, <2>3 DEF IInv, UnderItsImpairment
<1>5. CASE MeasureBench
  BY <1>5, PushedKeeps DEF MeasureBench, More, trialVars
<1>6. CASE MeasureOverload
  <2>1. PICK outcome \in Measurements : Pushed(outcome)
    BY <1>6 DEF MeasureOverload
  <2>2. ~Netem /\ stage = "point" /\ trial' = trial
    BY <1>6 DEF MeasureOverload, Netem, More, trialVars
  <2> QED BY <2>1, <2>2, PushedKeeps
<1>7. CASE MeasurePps
  <2>1. ~Netem /\ stage = "point" /\ trial' = trial /\ Pushed("row")
    BY <1>7 DEF MeasurePps, Netem, More, trialVars
  <2> QED BY <2>1, PushedKeeps
<1>8. CASE SpawnH2Load \/ ChildStep \/ TrialStep \/ ServerStep \/ ChildFails
  <2>1. UNCHANGED <<command, config, tc, round, rows, qdisc>>
    BY <1>8 DEF SpawnH2Load, ChildStep, TrialStep, ServerStep, ChildFails, Others,
       startVars, loopVars
  <2>2. stage' = stage
    BY <1>8 DEF SpawnH2Load, ChildStep, TrialStep, ServerStep, ChildFails, Others
  <2>3. (command = "h2load-rate" /\ stage = "point") \/ trial # "off"
    BY <1>8 DEF SpawnH2Load, ChildStep, TrialStep, ServerStep, ChildFails, More, Polling
  <2> QED BY <2>1, <2>2, <2>3, QuietKeeps
<1>10. CASE EndTrial
  <2>1. trial # "off" /\ stage = "point" /\ trial' = "off" /\ Pushed(lines) /\ ~Netem
    BY <1>10 DEF EndTrial, Joined, More, IInv, Netem
  <2> QED BY <2>1, PushedKeeps
<1>11. CASE EndRound
  BY <1>11 DEF EndRound, LastRound, startVars, trialVars, IInv, UnderItsImpairment, Netem
<1>12. CASE WriteReport
  <2>1. /\ UNCHANGED <<command, config, tc, rows, trial>> /\ stage' = "written"
        /\ qdisc' = clear
    BY <1>12 DEF WriteReport, startVars, loopVars, trialVars
  <2> QED BY <2>1 DEF IInv, UnderItsImpairment, Netem, clear
<1>13. CASE Start
  BY <1>13 DEF Start, IInv, UnderItsImpairment, loopVars, trialVars
<1>14. CASE \/ NetemMissing \/ ApplyFails \/ TrialFails \/ Finish
            \/ ArgumentStops \/ Fails \/ ReportFails \/ Killed
  BY <1>14, ExitKeeps DEF NetemMissing, ApplyFails, TrialFails, Finish, ArgumentStops,
     Fails, ReportFails, Killed
<1>15. CASE UNCHANGED commandVars
  BY <1>15 DEF commandVars, startVars, loopVars, trialVars, IInv, UnderItsImpairment,
     Netem, Current
<1> QED
  BY <1>1, <1>2, <1>3, <1>4, <1>5, <1>6, <1>7, <1>8, <1>10, <1>11, <1>12, <1>13,
     <1>14, <1>15 DEF Next, Progress

\* Whatever earlier processes left on the interface, and however they ended:
\* with -netem a row is measured under the profile it names, and a command
\* that reports leaves nothing behind (cli.rs:276, 299).
THEOREM ImpairmentCorrect == Safety => []UnderItsImpairment
<1>1. IInv => UnderItsImpairment
  BY DEF IInv
<1> QED BY <1>1, IInvInit, IInvNext, PTL DEF Safety

-----------------------------------------------------------------------------
(***************************************************************************)
(* Division.                                                               *)
(***************************************************************************)
LEMMA Divided ==
  ASSUME NEW x \in Nat, NEW d \in Nat \ {0}
  PROVE  /\ x \div d \in Nat /\ x % d \in Nat /\ x % d < d
         /\ x = (x \div d) * d + (x % d)
OBVIOUS

LEMMA DivideUnique ==
  ASSUME NEW d \in Nat \ {0}, NEW q \in Nat, NEW r \in Nat, r < d,
         NEW q2 \in Nat, NEW r2 \in Nat, r2 < d, q * d + r = q2 * d + r2
  PROVE  q = q2 /\ r = r2
<1>1. ~(q < q2)
  <2> SUFFICES ASSUME q + 1 <= q2 PROVE FALSE
    OBVIOUS
  <2>1. (q + 1) * d <= q2 * d
    OBVIOUS
  <2>2. (q + 1) * d = q * d + d
    OBVIOUS
  <2> QED BY <2>1, <2>2
<1>2. ~(q2 < q)
  <2> SUFFICES ASSUME q2 + 1 <= q PROVE FALSE
    OBVIOUS
  <2>1. (q2 + 1) * d <= q * d
    OBVIOUS
  <2>2. (q2 + 1) * d = q2 * d + d
    OBVIOUS
  <2> QED BY <2>1, <2>2
<1>3. q = q2
  BY <1>1, <1>2
<1> QED BY <1>3

LEMMA DivideIs ==
  ASSUME NEW d \in Nat \ {0}, NEW q \in Nat, NEW r \in Nat, r < d
  PROVE  (q * d + r) \div d = q /\ (q * d + r) % d = r
<1> DEFINE x == q * d + r
<1>1. x \in Nat
  OBVIOUS
<1> HIDE DEF x
<1>2. /\ x \div d \in Nat /\ x % d \in Nat /\ x % d < d
      /\ x = (x \div d) * d + (x % d)
  BY <1>1, Divided
<1> DEFINE q2 == x \div d
           r2 == x % d
<1> HIDE DEF q2, r2
<1>3. q2 \in Nat /\ r2 \in Nat /\ r2 < d /\ x = q2 * d + r2
  BY <1>2 DEF q2, r2
<1>4. q2 * d + r2 = q * d + r
  BY <1>3 DEF x
<1>5. q2 = q /\ r2 = r
  BY <1>3, <1>4, DivideUnique
<1> QED BY <1>5, Zenon DEF q2, r2, x

\* Division by a product, one factor at a time.
LEMMA DivideTwice ==
  ASSUME NEW x \in Nat, NEW a \in Nat \ {0}, NEW b \in Nat \ {0}
  PROVE  a * b \in Nat \ {0} /\ x \div (a * b) = (x \div b) \div a
<1> DEFINE y == x \div b
           t == x % b
           q == y \div a
           r == y % a
<1>1. y \in Nat /\ t \in Nat /\ t < b /\ x = y * b + t
  BY Divided
<1> HIDE DEF y, t
<1>2. q \in Nat /\ r \in Nat /\ r < a /\ y = q * a + r
  BY <1>1, Divided
<1> HIDE DEF q, r
<1>3. a * b \in Nat /\ a * b > 0
  OBVIOUS
<1>4. x = q * (a * b) + (r * b + t)
  <2>1. y * b = (q * a) * b + r * b
    BY <1>1, <1>2
  <2>2. (q * a) * b = q * (a * b)
    BY <1>2
  <2> QED BY <1>1, <1>2, <2>1, <2>2
<1>5. r * b + t \in Nat /\ r * b + t < a * b
  <2>1. (r + 1) * b <= a * b /\ (r + 1) * b = r * b + b /\ r * b \in Nat
    BY <1>2
  <2> QED BY <1>1, <1>3, <2>1
<1> DEFINE d == a * b
           rest == r * b + t
<1>6. d \in Nat \ {0} /\ rest \in Nat /\ rest < d /\ x = q * d + rest
  BY <1>3, <1>4, <1>5
<1> HIDE DEF d, rest
<1>7. x \div d = q
  BY <1>2, <1>6, DivideIs
<1> QED BY <1>3, <1>7 DEF d, q, y

-----------------------------------------------------------------------------
(***************************************************************************)
(* The matrix.                                                             *)
(***************************************************************************)
\* Loops over lists none of which is empty.
Listed(loops) ==
  /\ Len(loops) \in Nat /\ DOMAIN loops = 1 .. Len(loops)
  /\ \A i \in 1 .. Len(loops) :
       Len(loops[i]) \in Nat \ {0} /\ DOMAIN loops[i] = 1 .. Len(loops[i])

Strides(g, loops, m) ==
  g = [i \in (Len(loops) - m) .. Len(loops) |->
         IF i = Len(loops) THEN 1 ELSE Len(loops[i + 1]) * g[i + 1]]

LEMMA StridesExists ==
  ASSUME NEW loops, Len(loops) \in Nat
  PROVE  \E g : Strides(g, loops, Len(loops))
<1> DEFINE N == Len(loops)
           T == {m \in Nat : \E g : Strides(g, loops, m)}
<1>1. 0 \in T
  <2>1. Strides([i \in (N - 0) .. N |-> 1], loops, 0)
    BY DEF Strides
  <2> QED BY <2>1
<1>2. ASSUME NEW m \in T PROVE m + 1 \in T
  <2>1. PICK g : Strides(g, loops, m)
    OBVIOUS
  <2> DEFINE h == [i \in (N - (m + 1)) .. N |->
                     IF i = N THEN 1 ELSE Len(loops[i + 1]) * g[i + 1]]
  <2>2. \A i \in (N - (m + 1)) .. N : i # N => i + 1 \in (N - m) .. N
    OBVIOUS
  <2>3. ASSUME NEW i \in (N - m) .. N PROVE h[i] = g[i]
    <3>1. g[i] = IF i = N THEN 1 ELSE Len(loops[i + 1]) * g[i + 1]
      BY <2>1 DEF Strides
    <3>2. i \in (N - (m + 1)) .. N
      OBVIOUS
    <3> QED BY <3>1, <3>2
  <2>4. Strides(h, loops, m + 1)
    BY <2>2, <2>3 DEF Strides
  <2> QED BY <2>4
<1>3. T \in SUBSET Nat
  OBVIOUS
<1> HIDE DEF T
<1>4. 0 .. N \subseteq T
  BY <1>1, <1>2, <1>3, Climb
<1> QED BY <1>4 DEF T

LEMMA StrideFacts ==
  ASSUME NEW loops, Listed(loops)
  PROVE  /\ Stride(loops)[Len(loops)] = 1
         /\ \A i \in 1 .. Len(loops) :
              Stride(loops)[i - 1] = Len(loops[i]) * Stride(loops)[i]
         /\ \A i \in 0 .. Len(loops) : Stride(loops)[i] \in Nat \ {0}
<1> DEFINE N == Len(loops)
           s == Stride(loops)
<1>1. N \in Nat
  BY DEF Listed
<1>2. Strides(s, loops, N)
  <2>1. N - N = 0
    BY <1>1
  <2> QED BY <1>1, <2>1, StridesExists DEF Stride, Strides
<1> HIDE DEF s
<1>3. \A i \in 0 .. N : s[i] = IF i = N THEN 1 ELSE Len(loops[i + 1]) * s[i + 1]
  BY <1>1, <1>2 DEF Strides
<1>4. s[N] = 1 /\ \A i \in 1 .. N : s[i - 1] = Len(loops[i]) * s[i]
  BY <1>1, <1>3
<1> DEFINE T == {m \in Nat : m <= N => s[N - m] \in Nat \ {0}}
<1>5. 0 \in T /\ T \in SUBSET Nat
  BY <1>1, <1>4
<1>6. ASSUME NEW m \in T, m < N PROVE m + 1 \in T
  <2>1. N - m \in 1 .. N /\ N - (m + 1) = (N - m) - 1 /\ s[N - m] \in Nat \ {0}
    BY <1>1, <1>6
  <2>2. s[N - (m + 1)] = Len(loops[N - m]) * s[N - m] /\ Len(loops[N - m]) \in Nat \ {0}
    BY <1>4, <2>1 DEF Listed
  <2>3. s[N - (m + 1)] \in Nat \ {0}
    <3>1. \A a, b \in Nat \ {0} : a * b \in Nat \ {0}
      OBVIOUS
    <3> QED BY <2>1, <2>2, <3>1
  <2> QED BY <2>3
<1> HIDE DEF T
<1>7. 0 .. N \subseteq T
  BY <1>1, <1>5, <1>6, Climb
<1>8. ASSUME NEW i \in 0 .. N PROVE s[i] \in Nat \ {0}
  <2>1. N - i \in T /\ N - i <= N /\ N - (N - i) = i
    BY <1>1, <1>7
  <2> QED BY <2>1 DEF T
<1> QED BY <1>4, <1>8 DEF s

\* Which turn of the i-th loop the k-th measurement falls in, counted from 0.
Digit(loops, k, i) == (k \div Stride(loops)[i]) % Len(loops[i])

LEMMA Digits ==
  ASSUME NEW loops, Listed(loops), NEW k \in Nat
  PROVE  /\ \A i \in 0 .. Len(loops) : k \div Stride(loops)[i] \in Nat
         /\ \A i \in 1 .. Len(loops) :
              /\ Digit(loops, k, i) \in Nat /\ Digit(loops, k, i) < Len(loops[i])
              /\ k \div Stride(loops)[i - 1] = (k \div Stride(loops)[i]) \div Len(loops[i])
              /\ k \div Stride(loops)[i]
                   = (k \div Stride(loops)[i - 1]) * Len(loops[i]) + Digit(loops, k, i)
         /\ k \div Stride(loops)[Len(loops)] = k
         /\ k < Size(loops) <=> k \div Stride(loops)[0] = 0
<1> DEFINE N == Len(loops)
           s == Stride(loops)
<1>1. /\ N \in Nat /\ s[N] = 1
      /\ \A i \in 1 .. N : s[i - 1] = Len(loops[i]) * s[i] /\ Len(loops[i]) \in Nat \ {0}
      /\ \A i \in 0 .. N : s[i] \in Nat \ {0}
  BY StrideFacts DEF Listed
<1> HIDE DEF s
<1>2. \A i \in 0 .. N : k \div s[i] \in Nat
  <2> TAKE i \in 0 .. N
  <2> QED BY <1>1, Divided
<1>3. ASSUME NEW i \in 1 .. N
      PROVE  /\ (k \div s[i]) % Len(loops[i]) \in Nat
             /\ (k \div s[i]) % Len(loops[i]) < Len(loops[i])
             /\ k \div s[i - 1] = (k \div s[i]) \div Len(loops[i])
             /\ k \div s[i] = (k \div s[i - 1]) * Len(loops[i]) + ((k \div s[i]) % Len(loops[i]))
  <2> DEFINE a == Len(loops[i])
             b == s[i]
  <2>1. a \in Nat \ {0} /\ b \in Nat \ {0} /\ s[i - 1] = a * b /\ k \div b \in Nat
    BY <1>1, <1>2
  <2> HIDE DEF a, b
  <2>2. k \div s[i - 1] = (k \div b) \div a
    <3>1. k \div (a * b) = (k \div b) \div a
      BY <2>1, DivideTwice
    <3> QED BY <2>1, <3>1, Zenon
  <2> DEFINE x == k \div b
  <2>3. x \in Nat
    BY <2>1
  <2> HIDE DEF x
  <2>4. x % a \in Nat /\ x % a < a /\ x = (x \div a) * a + (x % a)
    BY <2>1, <2>3, Divided
  <2> QED BY <2>2, <2>4, Zenon DEF a, b, x
<1>4. k \div s[N] = k
  <2>1. \A n \in Nat : n \div 1 = n
    OBVIOUS
  <2> QED BY <1>1, <2>1
<1>5. k < s[0] <=> k \div s[0] = 0
  <2> DEFINE d == s[0]
  <2>1. d \in Nat \ {0}
    BY <1>1
  <2> HIDE DEF d
  <2>2. k < d => k \div d = 0
    <3>1. k < d => (0 * d + k) \div d = 0
      BY <2>1, DivideIs
    <3>2. 0 * d + k = k
      BY <2>1
    <3> QED BY <3>1, <3>2
  <2>3. k \div d = 0 => k < d
    <3>1. k % d \in Nat /\ k % d < d /\ k = (k \div d) * d + (k % d)
      BY <2>1, Divided
    <3>2. 0 * d = 0
      BY <2>1
    <3> QED BY <3>1, <3>2
  <2> QED BY <2>2, <2>3 DEF d
<1> QED BY <1>2, <1>3, <1>4, <1>5, Zenon DEF Digit, Size, s

LEMMA PointIs ==
  ASSUME NEW loops, NEW k \in Nat
  PROVE  /\ DOMAIN Point(loops, k) = 1 .. Len(loops)
         /\ \A i \in 1 .. Len(loops) :
              Point(loops, k)[i] = loops[i][Digit(loops, k, i) + 1]
BY DEF Point, Digit

\* The turns of the loops up to the m-th tell where in the m-th one is.
LEMMA SameTurns ==
  ASSUME NEW loops, Listed(loops), NEW k \in Nat, NEW l \in Nat,
         k < Size(loops), l < Size(loops), NEW m \in 0 .. Len(loops),
         \A i \in 1 .. m : Digit(loops, k, i) = Digit(loops, l, i)
  PROVE  k \div Stride(loops)[m] = l \div Stride(loops)[m]
<1> DEFINE s == Stride(loops)
           T == {i \in Nat : i <= m => k \div s[i] = l \div s[i]}
<1> HIDE DEF s
<1>1. m \in Nat /\ m <= Len(loops) /\ Len(loops) \in Nat
  BY DEF Listed
<1>2. 0 \in T /\ T \in SUBSET Nat
  <2>1. k \div s[0] = 0 /\ l \div s[0] = 0
    BY Digits DEF s
  <2> QED BY <2>1
<1>3. ASSUME NEW i \in T, i < m PROVE i + 1 \in T
  <2>1. i + 1 \in 1 .. m /\ i + 1 \in 1 .. Len(loops) /\ i + 1 - 1 = i
        /\ k \div s[i] = l \div s[i]
    BY <1>1, <1>3
  <2>2. /\ k \div s[i + 1] = (k \div s[i]) * Len(loops[i + 1]) + Digit(loops, k, i + 1)
        /\ l \div s[i + 1] = (l \div s[i]) * Len(loops[i + 1]) + Digit(loops, l, i + 1)
    BY <2>1, Digits DEF s
  <2>3. k \div s[i + 1] = l \div s[i + 1]
    BY <2>1, <2>2
  <2> QED BY <2>3
<1> HIDE DEF T
<1>4. 0 .. m \subseteq T
  BY <1>1, <1>2, <1>3, Climb
<1> QED BY <1>1, <1>4 DEF T, s

\* No two measurements share all turns.
LEMMA TurnsDiffer ==
  ASSUME NEW loops, Listed(loops), NEW k \in Nat, NEW l \in Nat,
         k < Size(loops), l < Size(loops),
         \A i \in 1 .. Len(loops) : Digit(loops, k, i) = Digit(loops, l, i)
  PROVE  k = l
<1>1. Len(loops) \in 0 .. Len(loops)
  BY DEF Listed
<1>2. k \div Stride(loops)[Len(loops)] = l \div Stride(loops)[Len(loops)]
  BY <1>1, SameTurns
<1> QED BY <1>2, Digits

\* And every combination of turns comes.
LEMMA TurnsCome ==
  ASSUME NEW loops, Listed(loops), NEW f,
         \A i \in 1 .. Len(loops) : f[i] \in 1 .. Len(loops[i])
  PROVE  \E k \in Nat : /\ k < Size(loops)
                        /\ \A i \in 1 .. Len(loops) : Digit(loops, k, i) + 1 = f[i]
<1> DEFINE N == Len(loops)
           s == Stride(loops)
           Holds(q, m) ==
             \A k \in Nat : k \div s[m] = q =>
               k < Size(loops) /\ \A i \in 1 .. m : Digit(loops, k, i) + 1 = f[i]
           T == {m \in Nat : m <= N => \E q \in Nat : Holds(q, m)}
<1>1. N \in Nat
  BY DEF Listed
<1> HIDE DEF s
<1>2. 0 \in T /\ T \in SUBSET Nat
  <2>1. Holds(0, 0)
    BY Digits DEF s
  <2> QED BY <2>1
<1>3. ASSUME NEW m \in T, m < N PROVE m + 1 \in T
  <2>1. m + 1 \in 1 .. N /\ m + 1 - 1 = m
    BY <1>1, <1>3
  <2>2. PICK q \in Nat : Holds(q, m)
    BY <1>1, <1>3
  <2> DEFINE a == Len(loops[m + 1])
             r == f[m + 1] - 1
             q2 == q * a + r
  <2>3. a \in Nat \ {0} /\ r \in Nat /\ r < a /\ r + 1 = f[m + 1]
    BY <2>1 DEF Listed
  <2> HIDE DEF a, r
  <2>4. q2 \in Nat
    BY <2>3
  <2>5. q2 \div a = q /\ q2 % a = r
    BY <2>3, DivideIs
  <2> HIDE DEF q2
  <2>6. ASSUME NEW k \in Nat, k \div s[m + 1] = q2
        PROVE  k < Size(loops) /\ \A i \in 1 .. (m + 1) : Digit(loops, k, i) + 1 = f[i]
    <3>1. k \div s[m] = (k \div s[m + 1]) \div a
      <4>1. k \div s[(m + 1) - 1] = (k \div s[m + 1]) \div Len(loops[m + 1])
        BY <2>1, Digits DEF s
      <4>2. s[(m + 1) - 1] = s[m]
        BY <2>1
      <4> QED BY <4>1, <4>2, Zenon DEF a
    <3>2. k \div s[m] = q
      BY <3>1, <2>5, <2>6
    <3>3. Digit(loops, k, m + 1) = r
      BY <2>5, <2>6 DEF Digit, s, a
    <3>4. k < Size(loops) /\ \A i \in 1 .. m : Digit(loops, k, i) + 1 = f[i]
      BY <2>2, <3>2
    <3>5. \A i \in 1 .. (m + 1) : i \in 1 .. m \/ i = m + 1
      OBVIOUS
    <3> QED BY <2>3, <3>3, <3>4, <3>5
  <2>7. Holds(q2, m + 1)
    BY <2>6
  <2> HIDE DEF Holds
  <2> QED BY <2>4, <2>7
<1> HIDE DEF T
<1>4. 0 .. N \subseteq T
  BY <1>1, <1>2, <1>3, Climb
<1>5. PICK q \in Nat : Holds(q, N)
  <2> HIDE DEF Holds
  <2> QED BY <1>1, <1>4 DEF T
<1>6. q \div s[N] = q
  BY Digits DEF s
<1> QED BY <1>5, <1>6

LEMMA UpToListed ==
  ASSUME NEW n \in Nat \ {0}
  PROVE  /\ Len(UpTo(n)) = n /\ DOMAIN UpTo(n) = 1 .. n
         /\ \A i \in 1 .. n : UpTo(n)[i] = i
<1>1. UpTo(n) \in Seq(Nat)
  BY DEF UpTo
<1>2. DOMAIN UpTo(n) = 1 .. n
  BY DEF UpTo
<1>3. DOMAIN UpTo(n) = 1 .. Len(UpTo(n)) /\ Len(UpTo(n)) \in Nat
  BY <1>1
<1>4. Len(UpTo(n)) = n
  BY <1>2, <1>3
<1> QED BY <1>4 DEF UpTo

LEMMA ListedFour ==
  ASSUME NEW a, NEW b, NEW c, NEW d,
         \A l \in {a, b, c, d} : Len(l) \in Nat \ {0} /\ DOMAIN l = 1 .. Len(l)
  PROVE  Listed(<<a, b, c, d>>)
<1>1. Len(<<a, b, c, d>>) = 4 /\ DOMAIN <<a, b, c, d>> = 1 .. 4
  OBVIOUS
<1>2. \A i \in 1 .. 4 : <<a, b, c, d>>[i] \in {a, b, c, d}
  OBVIOUS
<1> QED BY <1>1, <1>2 DEF Listed

LEMMA ListedThree ==
  ASSUME NEW a, NEW b, NEW c,
         \A l \in {a, b, c} : Len(l) \in Nat \ {0} /\ DOMAIN l = 1 .. Len(l)
  PROVE  Listed(<<a, b, c>>)
<1>1. Len(<<a, b, c>>) = 3 /\ DOMAIN <<a, b, c>> = 1 .. 3
  OBVIOUS
<1>2. \A i \in 1 .. 3 : <<a, b, c>>[i] \in {a, b, c}
  OBVIOUS
<1> QED BY <1>1, <1>2 DEF Listed

\* The list of an option that is one.
LEMMA FitListed ==
  ASSUME NEW kind, NEW value, Fits(kind, value),
         kind \in {"counts", "count", "protocols", "modes", "failures"}
  PROVE  /\ Len(value) \in Nat \ {0} /\ DOMAIN value = 1 .. Len(value)
         /\ kind \in {"counts", "count"} => \A i \in 1 .. Len(value) : value[i] \in Nat \ {0}
         /\ kind \in {"protocols", "modes"} => IsInjective(value)
         /\ kind = "failures" => \A i \in 1 .. Len(value) : value[i] \in DOMAIN FailureNames
<1>1. \A S : \A v \in Seq(S) :
        /\ Len(v) \in Nat /\ DOMAIN v = 1 .. Len(v) /\ (v # <<>> => Len(v) # 0)
        /\ \A i \in 1 .. Len(v) : v[i] \in S
  OBVIOUS
<1>2. CASE kind \in {"counts", "count"}
  <2>1. value \in Seq(Nat \ {0}) /\ value # <<>>
    BY <1>2 DEF Fits
  <2> QED BY <1>1, <1>2, <2>1
<1>3. CASE kind = "protocols"
  <2>1. value \in Seq({"H2", "H3"}) /\ value # <<>> /\ IsInjective(value)
    BY <1>3 DEF Fits
  <2> QED BY <1>1, <1>3, <2>1
<1>4. CASE kind = "modes"
  <2>1. value \in Seq({"App503", "Reset"}) /\ value # <<>> /\ IsInjective(value)
    BY <1>4 DEF Fits
  <2> QED BY <1>1, <1>4, <2>1
<1>5. CASE kind = "failures"
  <2>1. value \in Seq(DOMAIN FailureNames) /\ value # <<>>
    BY <1>5 DEF Fits
  <2> QED BY <1>1, <1>5, <2>1
<1> QED BY <1>2, <1>3, <1>4, <1>5

\* No loop of a command is empty, and its innermost names nothing twice.
LEMMA LoopsListed ==
  ASSUME ConfigInv
  PROVE  /\ Listed(InnerLoops) /\ Len(InnerLoops) \in {3, 4}
         /\ IsInjective(InnerLoops[Len(InnerLoops)])
         /\ LET R == Rounds(command, config) IN
              Len(R) \in Nat \ {0} /\ DOMAIN R = 1 .. Len(R)
<1>1. CASE command = "bench"
  <2>1. /\ Fits("counts", config.users) /\ Fits("counts", config.messages)
        /\ Fits("count", config.repeats) /\ Fits("protocols", config.protocols)
        /\ Fits("failures", config.failures)
    BY <1>1 DEF ConfigInv, OptionsOf, BenchOptions
  <2>2. config.repeats[1] \in Nat \ {0}
    BY <2>1, FitListed
  <2> DEFINE u == UpTo(config.repeats[1])
  <2>3. Len(u) \in Nat \ {0} /\ DOMAIN u = 1 .. Len(u)
    BY <2>2, UpToListed
  <2> HIDE DEF u
  <2>4. InnerLoops = <<config.users, config.messages, u, config.protocols>>
        /\ Rounds(command, config) = config.failures
    BY <1>1 DEF InnerLoops, Loops, bench_loops, Rounds, u
  <2>5. Listed(<<config.users, config.messages, u, config.protocols>>)
    BY <2>1, <2>3, FitListed, ListedFour
  <2> QED BY <2>1, <2>4, <2>5, FitListed
<1>2. CASE command = "overload"
  <2>1. /\ Fits("counts", config.payload_sizes) /\ Fits("counts", config.concurrency)
        /\ Fits("counts", config.thresholds) /\ Fits("modes", config.modes)
        /\ Fits("count", config.repeats)
    BY <1>2 DEF ConfigInv, OptionsOf, OverloadOptions
  <2>2. config.repeats[1] \in Nat \ {0}
    BY <2>1, FitListed
  <2>3. InnerLoops = <<config.payload_sizes, config.concurrency, config.thresholds, config.modes>>
        /\ Rounds(command, config) = UpTo(config.repeats[1])
    BY <1>2 DEF InnerLoops, Loops, overload_loops, Rounds
  <2>4. Listed(<<config.payload_sizes, config.concurrency, config.thresholds, config.modes>>)
    BY <2>1, FitListed, ListedFour
  <2> QED BY <2>1, <2>2, <2>3, <2>4, FitListed, UpToListed
<1>3. CASE command \in {"h2load-rate", "rust-pps", "rust-pps-nginx"}
  <2>1. /\ Fits("counts", config.payload_sizes) /\ Fits("counts", config.target_pps)
        /\ Fits("protocols", config.protocols) /\ Fits("count", config.repeats)
    BY <1>3 DEF ConfigInv, OptionsOf, H2LoadRateOptions, RustPpsOptions, NginxPpsOptions
  <2>2. config.repeats[1] \in Nat \ {0}
    BY <2>1, FitListed
  <2>3. InnerLoops = <<config.payload_sizes, config.target_pps, config.protocols>>
        /\ Rounds(command, config) = UpTo(config.repeats[1])
    BY <1>3 DEF InnerLoops, Loops, pps_loops, Rounds
  <2>4. Listed(<<config.payload_sizes, config.target_pps, config.protocols>>)
    BY <2>1, FitListed, ListedThree
  <2> QED BY <2>1, <2>2, <2>3, <2>4, FitListed, UpToListed
<1> QED BY <1>1, <1>2, <1>3 DEF ConfigInv, CommandNames

-----------------------------------------------------------------------------
(***************************************************************************)
(* The rows.                                                               *)
(***************************************************************************)
\* The n-th measurement: its round and its place in the round.
RoundOf(n, L) == ((n - 1) \div Size(L)) + 1
PlaceOf(n, L) == (n - 1) % Size(L)

\* The rows of the first T measurements of the rounds R over the loops L.
Booked(rs, T, R, L) ==
  /\ IsFiniteSet(rs) /\ Cardinality(rs) = T
  /\ \A row \in rs : /\ row.nr \in 1 .. T
                     /\ row.round = R[RoundOf(row.nr, L)]
                     /\ row.point = Point(L, PlaceOf(row.nr, L))
  /\ \A n \in 1 .. T : \E row \in rs : row.nr = n
  /\ \A a, b \in rs : a.nr = b.nr => a = b

LEMMA SizePositive == ASSUME NEW L, Listed(L) PROVE Size(L) \in Nat \ {0}
BY StrideFacts DEF Size, Listed

LEMMA Numbered ==
  ASSUME NEW L, Listed(L), NEW r \in Nat \ {0}, NEW d \in Nat, d < Size(L)
  PROVE  /\ (r - 1) * Size(L) + d \in Nat
         /\ RoundOf((r - 1) * Size(L) + d + 1, L) = r
         /\ PlaceOf((r - 1) * Size(L) + d + 1, L) = d
<1> DEFINE s == Size(L)
           x == (r - 1) * s + d
<1>1. s \in Nat \ {0}
  BY SizePositive
<1> HIDE DEF s
<1>2. r - 1 \in Nat /\ x \in Nat /\ x + 1 - 1 = x
  BY <1>1
<1>3. x \div s = r - 1 /\ x % s = d
  BY <1>1, <1>2, DivideIs DEF s
<1> HIDE DEF x
<1>4. ((x + 1) - 1) \div s + 1 = r /\ ((x + 1) - 1) % s = d
  <2>1. ((x + 1) - 1) \div s = r - 1 /\ ((x + 1) - 1) % s = d
    BY <1>2, <1>3
  <2> DEFINE q == ((x + 1) - 1) \div s
  <2>2. q = r - 1
    BY <2>1
  <2> HIDE DEF q
  <2>3. q + 1 = r
    BY <2>2
  <2> QED BY <2>1, <2>3, Zenon DEF q
<1>5. RoundOf(x + 1, L) = r /\ PlaceOf(x + 1, L) = d
  BY <1>4, Zenon DEF RoundOf, PlaceOf, s
<1> QED BY <1>2, <1>5, Zenon DEF s, x

\* The other way: where a number is.
LEMMA Places ==
  ASSUME NEW L, Listed(L), NEW n \in Nat \ {0}
  PROVE  /\ RoundOf(n, L) \in Nat \ {0} /\ PlaceOf(n, L) \in Nat /\ PlaceOf(n, L) < Size(L)
         /\ n = (RoundOf(n, L) - 1) * Size(L) + PlaceOf(n, L) + 1
<1> DEFINE s == Size(L)
           x == n - 1
<1>1. s \in Nat \ {0} /\ x \in Nat
  BY SizePositive
<1> HIDE DEF s, x
<1>2. x \div s \in Nat /\ x % s \in Nat /\ x % s < s /\ x = (x \div s) * s + (x % s)
  BY <1>1, Divided
<1> DEFINE q == x \div s
           r == x % s
<1>3. q \in Nat /\ r \in Nat /\ r < s /\ x = q * s + r
  BY <1>2
<1> HIDE DEF q, r
<1>4. q + 1 \in Nat \ {0} /\ n = (q + 1 - 1) * s + r + 1
  <2>1. q + 1 - 1 = q /\ q * s \in Nat
    BY <1>1, <1>3
  <2> QED BY <1>3, <2>1 DEF x
<1>5. RoundOf(n, L) = q + 1 /\ PlaceOf(n, L) = r
  BY DEF RoundOf, PlaceOf, q, r, x, s
<1>6. RoundOf(n, L) \in Nat \ {0} /\ PlaceOf(n, L) \in Nat
  BY <1>3, <1>4, <1>5
<1>7. PlaceOf(n, L) < s
  BY <1>3, <1>5, Zenon
<1>8. n = (RoundOf(n, L) - 1) * s + PlaceOf(n, L) + 1
  <2> DEFINE w == RoundOf(n, L) - 1
             v == PlaceOf(n, L)
  <2>1. w = q /\ v = r
    BY <1>3, <1>5
  <2> HIDE DEF w, v
  <2>2. n = w * s + v + 1
    BY <1>1, <1>3, <2>1 DEF x
  <2> QED BY <2>2 DEF w, v
<1> QED BY <1>6, <1>7, <1>8 DEF s

LEMMA BookedAdd ==
  ASSUME NEW L, Listed(L), NEW R, NEW rs, NEW T, NEW r \in Nat \ {0}, NEW d \in Nat,
         d < Size(L), T = (r - 1) * Size(L) + d, Booked(rs, T, R, L), NEW outcome
  PROVE  Booked(rs \cup {[nr |-> Cardinality(rs) + 1, round |-> R[r],
                          point |-> Point(L, d), outcome |-> outcome]}, T + 1, R, L)
<1> DEFINE new == [nr |-> Cardinality(rs) + 1, round |-> R[r],
                   point |-> Point(L, d), outcome |-> outcome]
<1>1. T \in Nat /\ RoundOf(T + 1, L) = r /\ PlaceOf(T + 1, L) = d
  BY Numbered
<1>2. new.nr = T + 1 /\ new.round = R[r] /\ new.point = Point(L, d)
  BY DEF Booked
<1> HIDE DEF new
<1>3. \A row \in rs : row.nr # T + 1 /\ row.nr \in 1 .. (T + 1)
  BY <1>1 DEF Booked
<1>4. new \notin rs
  BY <1>2, <1>3
<1>5. IsFiniteSet(rs \cup {new}) /\ Cardinality(rs \cup {new}) = T + 1
  BY <1>4, FS_AddElement DEF Booked
<1>6. T + 1 \in 1 .. (T + 1) /\ 1 .. (T + 1) = (1 .. T) \cup {T + 1}
  BY <1>1
<1>7. \A row \in rs \cup {new} : /\ row.nr \in 1 .. (T + 1)
                                 /\ row.round = R[RoundOf(row.nr, L)]
                                 /\ row.point = Point(L, PlaceOf(row.nr, L))
  BY <1>1, <1>2, <1>3, <1>6, Zenon DEF Booked
<1>8. \A n \in 1 .. (T + 1) : \E row \in rs \cup {new} : row.nr = n
  BY <1>2, <1>6, Zenon DEF Booked
<1>9. \A a, b \in rs \cup {new} : a.nr = b.nr => a = b
  BY <1>2, <1>3, Zenon DEF Booked
<1> QED BY <1>5, <1>7, <1>8, <1>9, Zenon DEF Booked, new

LEMMA BookedNothing == ASSUME NEW R, NEW L PROVE Booked({}, 0, R, L)
BY FS_EmptySet DEF Booked

\* Measured so far.
Taken == (round - 1) * Size(InnerLoops) + done

\* Where the program is, and that the rows are those of the measurements made.
MatrixInv ==
  /\ stage \in {"arguments", "setup", "round", "point", "report", "written", "ended"}
  /\ stage \in {"arguments", "setup", "ended"} => round = 1
  /\ stage # "point" => done = 0
  /\ stage \in {"round", "point"} => round \in 1 .. Len(Rounds(command, config))
  /\ stage \in {"report", "written"} => round = Len(Rounds(command, config)) + 1
  /\ done \in 0 .. Size(InnerLoops)
  /\ trial # "off" => More
  /\ Booked(rows, Taken, Rounds(command, config), InnerLoops)

\* Nothing is measured.
AtStart ==
  /\ round = 1 /\ done = 0 /\ rows = {} /\ trial = "off"
  /\ stage \in {"arguments", "setup", "ended"}

LEMMA MatrixStart == ConfigInv /\ AtStart => MatrixInv
<1> SUFFICES ASSUME ConfigInv, AtStart PROVE MatrixInv
  OBVIOUS
<1> USE DEF AtStart
<1> DEFINE s == Size(InnerLoops)
<1>1. s \in Nat \ {0}
  BY LoopsListed, SizePositive
<1> HIDE DEF s
<1>2. (round - 1) * s + done = 0 /\ done \in 0 .. s
  BY <1>1
<1>3. Taken = 0 /\ done \in 0 .. Size(InnerLoops)
  BY <1>2, Zenon DEF Taken, s
<1> QED BY <1>3, BookedNothing DEF MatrixInv

LEMMA MatrixInit == Init => MatrixInv
BY ConfigInit, MatrixStart DEF Init, TrialInit, AtStart

LEMMA MatrixExit == ASSUME ConfigInv, NEW result, Exit(result) PROVE MatrixInv'
<1>1. ConfigInv'
  BY ConfigExit
<1>2. AtStart'
  BY DEF Exit, TrialDies, AtStart
<1> QED BY <1>1, <1>2, MatrixStart, PTL

\* A step that leaves the loops alone.
LEMMA MatrixQuiet ==
  ASSUME MatrixInv, UNCHANGED <<command, config, round, done, rows>>,
         \/ stage' = stage
         \/ stage = "arguments" /\ stage' = "setup"
         \/ stage = "report" /\ stage' = "written"
         \/ stage = "ended" /\ stage' = "arguments",
         trial' # "off" => (trial # "off" \/ More) /\ stage' = stage
  PROVE  MatrixInv'
<1>1. /\ InnerLoops' = InnerLoops
      /\ Rounds(command, config)' = Rounds(command, config)
  BY DEF InnerLoops
<1>2. Taken' = Taken /\ Size(InnerLoops)' = Size(InnerLoops)
  BY <1>1 DEF Taken
<1>3. More /\ stage' = stage => More'
  BY <1>2 DEF More
<1> QED BY <1>1, <1>2, <1>3 DEF MatrixInv

LEMMA MatrixPushed ==
  ASSUME ConfigInv, MatrixInv, NEW outcome, Pushed(outcome), More,
         (trial = "off" /\ trial' = trial) \/ trial' = "off"
  PROVE  MatrixInv' /\ Taken' = Taken + 1 /\ Number = Taken + 1
<1> DEFINE L == InnerLoops
           R == Rounds(command, config)
           new == [nr |-> Cardinality(rows) + 1, round |-> Current,
                   point |-> Here, outcome |-> outcome]
<1>1. /\ UNCHANGED <<command, config, stage, round>> /\ done' = done + 1
      /\ rows' = rows \cup {new}
  BY DEF Pushed, startVars
<1>2. L' = L /\ R' = R /\ Size(L)' = Size(L)
  BY <1>1 DEF InnerLoops
<1>3. Listed(L) /\ Size(L) \in Nat \ {0} /\ Len(R) \in Nat
  BY LoopsListed, SizePositive
<1>4. stage = "point" /\ round \in 1 .. Len(R) /\ done \in 0 .. Size(L) /\ done < Size(L)
  BY DEF More, MatrixInv
<1>5. round \in Nat \ {0} /\ done \in Nat
  BY <1>3, <1>4
<1>6. Booked(rows, Taken, R, L) /\ Taken = (round - 1) * Size(L) + done
  BY DEF MatrixInv, Taken
<1>7. Booked(rows \cup {new}, Taken + 1, R, L)
  <2> HIDE DEF L, R
  <2>1. Booked(rows \cup {[nr |-> Cardinality(rows) + 1, round |-> R[round],
                           point |-> Point(L, done), outcome |-> outcome]}, Taken + 1, R, L)
    BY <1>3, <1>4, <1>5, <1>6, BookedAdd
  <2> QED BY <2>1, Zenon DEF Current, Here, L, R
<1>8. Taken' = Taken + 1 /\ Taken \in Nat
  <2> DEFINE b == (round - 1) * Size(L)
  <2>1. b \in Nat
    BY <1>3, <1>5
  <2>2. Taken = b + done /\ Taken' = b + done'
    BY <1>1, <1>2 DEF Taken
  <2> HIDE DEF b
  <2> QED BY <1>1, <1>5, <2>1, <2>2
<1>9. Number = Taken + 1
  BY <1>6 DEF Number, Booked
<1>10. done' \in 0 .. Size(L)'
  <2> HIDE DEF L
  <2> QED BY <1>1, <1>2, <1>3, <1>4
<1>11. Booked(rows, Taken, R, L)'
  BY <1>1, <1>2, <1>7, <1>8, Zenon
<1>12. trial' = "off" /\ stage' = "point" /\ (round \in 1 .. Len(R))'
  BY <1>1, <1>2, <1>4
<1> QED BY <1>8, <1>9, <1>10, <1>11, <1>12 DEF MatrixInv

LEMMA MatrixNext == ConfigInv /\ IInv /\ MatrixInv /\ [Next]_commandVars => MatrixInv'
<1> SUFFICES ASSUME ConfigInv, IInv, MatrixInv, [Next]_commandVars PROVE MatrixInv'
  OBVIOUS
<1>1. CASE ReadArgument \/ EndArguments \/ Start
  <2>1. AtStart'
    BY <1>1 DEF ReadArgument, EndArguments, Start, MatrixInv, IInv, More, AtStart, loopVars,
       trialVars
  <2>2. ConfigInv'
    BY ConfigNext
  <2> QED BY <2>1, <2>2, MatrixStart, PTL
<1>2. CASE Setup \/ BeginRound
  <2>1. /\ UNCHANGED <<command, config, round, done, rows, trial>>
        /\ \/ stage = "setup" /\ stage' = "round"
           \/ stage = "round" /\ stage' = "point"
    BY <1>2 DEF Setup, BeginRound, startVars, loopVars, trialVars, DetectCapabilities
  <2>2. /\ InnerLoops' = InnerLoops /\ Rounds(command, config)' = Rounds(command, config)
        /\ Taken' = Taken /\ Size(InnerLoops)' = Size(InnerLoops)
    BY <2>1 DEF InnerLoops, Taken
  <2>3. round \in 1 .. Len(Rounds(command, config)) /\ trial = "off"
    BY <2>1, LoopsListed DEF MatrixInv, More
  <2> QED BY <2>1, <2>2, <2>3 DEF MatrixInv
<1>3. CASE MeasureBench \/ MeasureOverload \/ MeasurePps
  <2>1. PICK outcome : Pushed(outcome)
    BY <1>3 DEF MeasureBench, MeasureOverload, MeasurePps
  <2>2. More /\ trial = trial' /\ command # "h2load-rate"
    BY <1>3 DEF MeasureBench, MeasureOverload, MeasurePps, trialVars
  <2> QED BY <2>1, <2>2, MatrixPushed DEF IInv
<1>4. CASE EndTrial
  <2>1. More /\ trial' = "off" /\ Pushed(lines)
    BY <1>4 DEF EndTrial, MatrixInv, Joined
  <2> QED BY <2>1, MatrixPushed
<1>5. CASE SpawnH2Load \/ ChildStep \/ ChildFails \/ TrialStep \/ ServerStep
  <2>1. UNCHANGED <<command, config, stage, round, done, rows>>
    BY <1>5 DEF SpawnH2Load, ChildStep, ChildFails, TrialStep, ServerStep, Others, startVars,
       loopVars
  <2>2. trial # "off" \/ More
    BY <1>5 DEF SpawnH2Load, ChildStep, ChildFails, TrialStep, ServerStep, Polling
  <2> QED BY <2>1, <2>2, MatrixQuiet
<1>6. CASE WriteReport \/ UNCHANGED commandVars
  <2>1. /\ UNCHANGED <<command, config, round, done, rows, trial>>
        /\ \/ stage' = stage
           \/ stage = "report" /\ stage' = "written" /\ trial = "off"
    BY <1>6 DEF WriteReport, commandVars, startVars, loopVars, trialVars, MatrixInv, More
  <2> QED BY <2>1, MatrixQuiet
<1>7. CASE EndRound
  <2> DEFINE L == InnerLoops
             R == Rounds(command, config)
             s == Size(L)
  <2>1. /\ UNCHANGED <<command, config, rows, trial>> /\ stage = "point" /\ done = s
        /\ done' = 0 /\ round' = round + 1
        /\ stage' = IF round = Len(R) THEN "report" ELSE "round"
    BY <1>7 DEF EndRound, startVars, trialVars, LastRound
  <2>2. L' = L /\ R' = R /\ s' = s /\ s \in Nat \ {0} /\ Len(R) \in Nat
    BY <2>1, LoopsListed, SizePositive DEF InnerLoops
  <2>3. trial = "off" /\ round \in 1 .. Len(R) /\ Booked(rows, Taken, R, L)
    BY <2>1, <2>2 DEF MatrixInv, More
  <2>4. Taken' = Taken
    <3>1. Taken = (round - 1) * s + done /\ Taken' = (round' - 1) * s' + done'
      BY DEF Taken
    <3> HIDE DEF s, L, R
    <3>2. round \in Nat /\ (round - 1) * s + s = round * s
      BY <2>2, <2>3
    <3>3. round' - 1 = round
      BY <2>1, <3>2
    <3>4. Taken' = round * s + 0
      <4> DEFINE w == round' - 1
      <4>1. w = round /\ Taken' = w * s' + done'
        BY <3>1, <3>3
      <4> HIDE DEF w
      <4> QED BY <2>1, <2>2, <4>1
    <3>5. Taken = (round - 1) * s + s
      BY <2>1, <3>1, Zenon
    <3>6. round * s \in Nat
      BY <2>2, <3>2
    <3> QED BY <3>2, <3>4, <3>5, <3>6
  <2>5. Booked(rows, Taken, R, L)'
    BY <2>1, <2>2, <2>3, <2>4, Zenon
  <2>6. (done \in 0 .. s)'
    BY <2>1, <2>2
  <2>7. (stage = "round" => round \in 1 .. Len(R))' /\ (stage = "report" => round = Len(R) + 1)'
        /\ (stage \in {"round", "report"})' /\ (done = 0)' /\ (trial = "off")'
    <3> HIDE DEF s, L, R
    <3> QED BY <2>1, <2>2, <2>3
  <2> QED BY <2>5, <2>6, <2>7 DEF MatrixInv
<1>8. CASE \/ NetemMissing \/ ApplyFails \/ TrialFails \/ Finish
           \/ ArgumentStops \/ Fails \/ ReportFails \/ Killed
  BY <1>8, MatrixExit DEF NetemMissing, ApplyFails, TrialFails, Finish, ArgumentStops,
     Fails, ReportFails, Killed
<1> QED BY <1>1, <1>2, <1>3, <1>4, <1>5, <1>6, <1>7, <1>8 DEF Next, Progress

-----------------------------------------------------------------------------
(***************************************************************************)
(* The types.                                                              *)
(***************************************************************************)
Progressing ==
  /\ status \in {"running", "ok", "err", "help", "killed"}
  /\ arguments \in 0 .. MaxArguments /\ surprises \in 0 .. MaxSurprises
  /\ report \in {"none", "partial", "whole"}

Flags == verdict \in BOOLEAN /\ tc \in BOOLEAN /\ qdisc \in DOMAIN FailureNames

TypeInv ==
  /\ stage # "arguments" => NetemGiven(command, config)
  /\ Progressing /\ Flags
  /\ TrialTypeOK(0 .. Number)

LEMMA Bounds == MaxArguments \in Nat /\ MaxSurprises \in Nat
BY BoundsAssumption

LEMMA NoneNamed == "none" \in DOMAIN FailureNames
BY DEF FailureNames

LEMMA NoLogs == DOMAIN <<>> = {}
OBVIOUS

LEMMA TypeInit == Init => TypeInv
<1> SUFFICES ASSUME Init PROVE TypeInv
  OBVIOUS
<1>1. stage = "arguments" /\ status = "running" /\ arguments = 0 /\ surprises = 0
      /\ report = "none" /\ verdict = FALSE /\ tc = FALSE /\ TrialInit
  BY DEF Init
<1>2. Flags
  <2>1. qdisc \in DOMAIN FailureNames
    BY NoneNamed DEF Init
  <2> QED BY <1>1, <2>1 DEF Flags
<1>3. TrialTypeOK(0 .. Number)
  <2>1. stale \in BOOLEAN
    BY DEF Init
  <2> DEFINE numbers == 0 .. Number
  <2> HIDE DEF numbers
  <2>2. TrialTypeOK(numbers)
    BY <1>1, <2>1, NoLogs DEF TrialInit, TrialTypeOK
  <2> QED BY <2>2 DEF numbers
<1>4. Progressing
  BY <1>1, Bounds DEF Progressing
<1> QED BY <1>1, <1>2, <1>3, <1>4, Zenon DEF TypeInv

LEMMA TypeExit ==
  ASSUME ConfigInv, TypeInv, NEW result \in {"ok", "err", "help", "killed"}, Exit(result),
         UNCHANGED verdict, report' \in {"none", "partial", "whole"},
         qdisc' \in DOMAIN FailureNames
  PROVE  TypeInv'
<1>1. /\ stage' = "ended" /\ status' = result /\ arguments' = 0 /\ surprises' = 0
      /\ tc' = FALSE /\ command' = command /\ config' = Defaults(command, DefaultLoads)
      /\ trial' = "off" /\ child' = "none" /\ server' = "down" /\ lines' = {} /\ logs' = <<>>
      /\ rps' = FALSE /\ appends' = FALSE
  BY DEF Exit, TrialDies
<1>2. NetemGiven(command, config)'
  <2>1. ASSUME command = "bench" PROVE config'.failures = <<"none">>
    <3>1. "failures" \in DOMAIN OptionsOf(command) /\ OptionsOf(command)["failures"] = "failures"
      BY <2>1 DEF OptionsOf, BenchOptions
    <3>2. Default("failures", DefaultLoads) = <<"none">>
      BY DEF Default
    <3> QED BY <1>1, <3>1, <3>2 DEF Defaults
  <2>2. \A failure \in ToSet(<<"none">>) : Unimpaired(failure)
    BY DEF ToSet, Unimpaired
  <2> QED BY <1>1, <2>1, <2>2, Zenon DEF NetemGiven
<1>3. TrialTypeOK(0 .. Number)'
  <2>1. stale' \in BOOLEAN
    <3>1. stale \in BOOLEAN /\ stale' = (stale \/ DOMAIN logs # {} \/ child # "none")
      BY DEF TypeInv, TrialTypeOK, Exit, TrialDies
    <3> QED BY <3>1
  <2> DEFINE numbers == 0 .. Number
  <2> HIDE DEF numbers
  <2>2. TrialTypeOK(numbers)'
    BY <1>1, <2>1, NoLogs DEF TrialTypeOK
  <2> QED BY <2>2 DEF numbers
<1>4. Progressing'
  BY <1>1, Bounds DEF Progressing
<1>5. Flags' /\ stage' = "ended"
  BY <1>1 DEF Flags, TypeInv
<1> QED BY <1>2, <1>3, <1>4, <1>5, Zenon DEF TypeInv

\* A step that leaves the trial alone and takes no row back.
LEMMA TrialGrows ==
  ASSUME TypeInv, UNCHANGED trialVars, Number \in Nat, Number' \in Nat, Number <= Number'
  PROVE  TrialTypeOK(0 .. Number)'
<1>1. 0 .. Number \subseteq 0 .. Number'
  <2> DEFINE a == Number
             b == Number'
  <2> HIDE DEF a, b
  <2>1. a \in Nat /\ b \in Nat /\ a <= b
    BY DEF a, b
  <2>2. 0 .. a \subseteq 0 .. b
    BY <2>1
  <2> QED BY <2>2 DEF a, b
<1> QED BY <1>1 DEF TypeInv, TrialTypeOK, trialVars, programVars

LEMMA CountsRows == MatrixInv => Number = Taken + 1 /\ Number \in Nat /\ Cardinality(rows) \in Nat
<1> SUFFICES ASSUME MatrixInv
             PROVE  Number = Taken + 1 /\ Number \in Nat /\ Cardinality(rows) \in Nat
  OBVIOUS
<1>1. Taken = Cardinality(rows) /\ IsFiniteSet(rows)
  BY DEF MatrixInv, Booked
<1> QED BY <1>1, FS_CardinalityType DEF Number

\* The profile of a round of the bench command.
LEMMA CurrentNamed ==
  ASSUME ConfigInv, MatrixInv, Netem, stage = "round"
  PROVE  Current \in DOMAIN FailureNames
<1>1. Fits("failures", config.failures) /\ command = "bench"
  BY DEF Netem, ConfigInv, OptionsOf, BenchOptions
<1>2. Rounds(command, config) = config.failures /\ round \in 1 .. Len(config.failures)
  BY <1>1 DEF Rounds, MatrixInv
<1> QED BY <1>1, <1>2, FitListed DEF Current

\* The steps of a trial, for any numbers its lines may have.
LEMMA TrialTypes ==
  ASSUME NEW numbers, 0 \in numbers, Number \in numbers, TrialTypeOK(numbers),
         SpawnH2Load \/ ChildStep \/ ChildFails \/ TrialStep \/ ServerStep
  PROVE  /\ trial' \in {"off", "polling", "sampling", "stopping", "joining"}
         /\ child' \in {"none", "started", "logging", "blocked", "exited"}
         /\ server' \in {"down", "up", "told"}
         /\ {rps', appends', stale'} \subseteq BOOLEAN
         /\ \A path \in DOMAIN logs' : logs'[path] \subseteq numbers
         /\ lines' \subseteq numbers
<1> USE DEF TrialTypeOK, programVars
<1>1. CASE SpawnH2Load
  BY <1>1 DEF SpawnH2Load, SpawnChild
<1>2. CASE ChildStep
  <2>1. CASE ChildLogs(Path, Number)
    <3> DEFINE content == {Number} \cup (IF appends /\ Exists(Path) THEN Content(Path) ELSE {})
    <3>1. content \subseteq numbers
      BY DEF Content
    <3> HIDE DEF content
    <3>2. /\ child' = "logging" /\ UNCHANGED <<trial, server, rps, appends, stale, lines>>
          /\ logs' = Written(Path, content)
      BY <2>1 DEF ChildLogs, content
    <3>3. \A p \in DOMAIN logs' : logs'[p] \subseteq numbers
      BY <3>1, <3>2 DEF Written
    <3> QED BY <3>2, <3>3
  <2>2. CASE ChildExits \/ ChildBlocks
    BY <2>2 DEF ChildExits, ChildBlocks
  <2> QED BY <1>2, <2>1, <2>2 DEF ChildStep
<1>3. CASE ChildFails
  BY <1>3 DEF ChildFails, ChildQuits
<1>4. CASE TrialStep
  <2>1. CASE Reap(Path)
    BY <2>1 DEF Reap, Content
  <2>2. CASE StopServer
    BY <2>2 DEF StopServer
  <2>3. CASE Sample \/ SampleEnds
    BY <2>3 DEF Sample, SampleEnds
  <2> QED BY <1>4, <2>1, <2>2, <2>3 DEF TrialStep
<1>5. CASE ServerStep
  BY <1>5 DEF ServerStep, ServerEnds
<1> QED BY <1>1, <1>2, <1>3, <1>4, <1>5

LEMMA TypeNext ==
  ConfigInv /\ MatrixInv /\ MatrixInv' /\ TypeInv /\ [Next]_commandVars => TypeInv'
<1> SUFFICES ASSUME ConfigInv, MatrixInv, MatrixInv', TypeInv, [Next]_commandVars
             PROVE  TypeInv'
  OBVIOUS
<1>1. Number \in Nat /\ Cardinality(rows) \in Nat
  BY CountsRows
<1>2. CASE ReadArgument \/ EndArguments \/ BeginRound \/ EndRound \/ WriteReport \/ Start
           \/ UNCHANGED commandVars
  <2>1. UNCHANGED <<rows, surprises, trialVars, tc>>
    BY <1>2 DEF ReadArgument, EndArguments, BeginRound, EndRound, WriteReport, Start,
       loopVars, startVars, commandVars
  <2>2. TrialTypeOK(0 .. Number)'
    <3>1. Number' = Number
      BY <2>1 DEF Number
    <3> QED BY <1>1, <2>1, <3>1, TrialGrows
  <2>3. NetemGiven(command, config)' \/ stage' = "arguments"
    BY <1>2 DEF ReadArgument, EndArguments, BeginRound, EndRound, WriteReport, Start,
       startVars, commandVars, TypeInv
  <2>4. Progressing'
    <3>1. arguments' = arguments \/ (arguments' = arguments + 1 /\ arguments < MaxArguments)
      BY <1>2 DEF ReadArgument, EndArguments, BeginRound, EndRound, WriteReport, Start, commandVars
    <3>2. arguments' \in 0 .. MaxArguments
      BY <3>1, Bounds DEF TypeInv, Progressing
    <3>3. status' \in {status, "running"} /\ report' \in {report, "whole", "none"}
      BY <1>2 DEF ReadArgument, EndArguments, BeginRound, EndRound, WriteReport, Start,
         commandVars, reportVars
    <3> QED BY <2>1, <3>2, <3>3 DEF TypeInv, Progressing
  <2>5. Flags'
    <3>1. verdict' \in BOOLEAN
      BY <1>2 DEF ReadArgument, EndArguments, BeginRound, EndRound, WriteReport, Start,
         commandVars, reportVars, TypeInv, Flags
    <3>2. qdisc' \in DOMAIN FailureNames
      <4>1. CASE BeginRound
        BY <4>1, CurrentNamed, NoneNamed DEF BeginRound, Applies, clear, TypeInv, Flags
      <4>2. CASE WriteReport
        BY <4>2, NoneNamed DEF WriteReport, clear, TypeInv, Flags
      <4>3. CASE ~(BeginRound \/ WriteReport)
        BY <1>2, <4>3 DEF ReadArgument, EndArguments, EndRound, Start, commandVars, TypeInv, Flags
      <4> QED BY <4>1, <4>2, <4>3
    <3> QED BY <2>1, <3>1, <3>2 DEF TypeInv, Flags
  <2> QED BY <2>2, <2>3, <2>4, <2>5 DEF TypeInv
<1>3. CASE Setup
  <2>1. /\ UNCHANGED <<command, config, arguments, status, loopVars, reportVars, qdisc>>
        /\ tc' \in {FALSE, Netem} /\ stage # "arguments"
        /\ UNCHANGED <<trial, child, server, logs, stale, lines>>
        /\ rps' \in {rps, TRUE, FALSE} /\ appends' \in {appends, TRUE, FALSE}
    BY <1>3 DEF Setup, DetectCapabilities, trialVars, programVars
  <2>2. tc' \in BOOLEAN
    BY <2>1 DEF Netem
  <2>3. Number' = Number
    BY <2>1 DEF Number, loopVars
  <2>4. TrialTypeOK(0 .. Number)'
    BY <2>1, <2>3 DEF TypeInv, TrialTypeOK
  <2> QED BY <2>1, <2>2, <2>4 DEF TypeInv, Progressing, Flags, loopVars, reportVars
<1>4. CASE MeasureBench \/ MeasureOverload \/ MeasurePps \/ EndTrial
  <2>1. PICK outcome : Pushed(outcome)
    BY <1>4 DEF MeasureBench, MeasureOverload, MeasurePps, EndTrial
  <2>2. /\ UNCHANGED <<command, config, tc, arguments, stage, status, report, verdict, qdisc>>
        /\ rows' = rows \cup {[nr |-> Cardinality(rows) + 1, round |-> Current,
                               point |-> Here, outcome |-> outcome]}
    BY <2>1 DEF Pushed, startVars, reportVars
  <2>3. stage = "point"
    BY <1>4 DEF MeasureBench, MeasureOverload, MeasurePps, EndTrial, More
  <2>4. Number' \in Nat /\ Number <= Number'
    <3>1. IsFiniteSet(rows) /\ IsFiniteSet(rows')
      BY DEF MatrixInv, Booked
    <3>2. rows \in SUBSET rows'
      BY <2>2
    <3>3. Cardinality(rows) <= Cardinality(rows') /\ Cardinality(rows') \in Nat
      BY <3>1, <3>2, FS_Subset, FS_CardinalityType
    <3> QED BY <1>1, <3>3 DEF Number
  <2>5. TrialTypeOK(0 .. Number)'
    <3>1. CASE UNCHANGED trialVars
      BY <1>1, <2>4, <3>1, TrialGrows
    <3>2. CASE Joined
      <4>1. 0 .. Number \subseteq 0 .. Number'
        <5> DEFINE a == Number
                   b == Number'
        <5> HIDE DEF a, b
        <5>1. a \in Nat /\ b \in Nat /\ a <= b
          BY <1>1, <2>4 DEF a, b
        <5>2. 0 .. a \subseteq 0 .. b
          BY <5>1
        <5> QED BY <5>2 DEF a, b
      <4> QED BY <3>2, <4>1 DEF Joined, TypeInv, TrialTypeOK, programVars
    <3> QED BY <1>4, <3>1, <3>2 DEF MeasureBench, MeasureOverload, MeasurePps, EndTrial
  <2>6. surprises' \in 0 .. MaxSurprises
    <3>1. CASE MeasureOverload
      <4>1. PICK outcome2 \in Measurements :
              /\ surprises' = surprises + (IF outcome2 = Expected(Variant(Here)) THEN 0 ELSE 1)
              /\ surprises' <= MaxSurprises
        BY <3>1 DEF MeasureOverload
      <4>2. surprises \in Nat
        BY Bounds DEF TypeInv, Progressing
      <4>3. surprises' = surprises \/ surprises' = surprises + 1
        BY <4>1, <4>2
      <4> QED BY <4>1, <4>2, <4>3, Bounds
    <3>2. CASE ~MeasureOverload
      BY <1>4, <3>2 DEF MeasureBench, MeasurePps, EndTrial, TypeInv, Progressing
    <3> QED BY <3>1, <3>2
  <2> QED BY <2>2, <2>3, <2>5, <2>6 DEF TypeInv, Progressing, Flags
<1>5. CASE SpawnH2Load \/ ChildStep \/ ChildFails \/ TrialStep \/ ServerStep
  <2>1. UNCHANGED <<command, config, tc, arguments, stage, status, rows, report, verdict, qdisc>>
    BY <1>5 DEF SpawnH2Load, ChildStep, ChildFails, TrialStep, ServerStep, Others, startVars,
       loopVars, reportVars
  <2>2. surprises' \in 0 .. MaxSurprises
    <3>1. \/ surprises' = surprises
          \/ surprises' = surprises + 1 /\ surprises < MaxSurprises
      BY <1>5 DEF SpawnH2Load, ChildStep, ChildFails, TrialStep, ServerStep, Others, loopVars
    <3> QED BY <3>1, Bounds DEF TypeInv, Progressing
  <2>3. Number' = Number
    BY <2>1 DEF Number
  <2> DEFINE numbers == 0 .. Number
  <2>4. 0 \in numbers /\ Number \in numbers /\ TrialTypeOK(numbers)
    BY <1>1 DEF TypeInv
  <2>5. TrialTypeOK(0 .. Number)'
    <3>1. numbers' = numbers
      BY <2>3
    <3> HIDE DEF numbers
    <3>2. TrialTypeOK(numbers)'
      BY <1>5, <2>4, <3>1, TrialTypes DEF TrialTypeOK
    <3> QED BY <3>2 DEF numbers
  <2> QED BY <2>1, <2>2, <2>5 DEF TypeInv, Progressing, Flags
<1>6. CASE \/ NetemMissing \/ ApplyFails \/ TrialFails \/ Finish
           \/ ArgumentStops \/ Fails \/ ReportFails \/ Killed
  <2>1. PICK result \in {"ok", "err", "help", "killed"} : Exit(result)
    BY <1>6 DEF NetemMissing, ApplyFails, TrialFails, Finish, ArgumentStops,
       Fails, ReportFails, Killed
  <2>2. verdict' = verdict /\ report' \in {report, "none", "partial"}
    BY <1>6 DEF NetemMissing, ApplyFails, TrialFails, Finish, ArgumentStops,
       Fails, ReportFails, Killed, reportVars
  <2>3. qdisc' \in {qdisc, "none"}
    BY <1>6 DEF NetemMissing, ApplyFails, TrialFails, Finish, ArgumentStops,
       Fails, ReportFails, Killed, clear
  <2> QED BY <2>1, <2>2, <2>3, TypeExit, NoneNamed DEF TypeInv, Progressing, Flags
<1> QED BY <1>2, <1>3, <1>4, <1>5, <1>6 DEF Next, Progress

\* What the invariants say together is that the types are right.
LEMMA TypesFollow == ConfigInv /\ MatrixInv /\ TypeInv => TypeOK
<1> SUFFICES ASSUME ConfigInv, MatrixInv, TypeInv PROVE TypeOK
  OBVIOUS
<1>1. ASSUME stage # "arguments" PROVE RunnableConfig
  <2>1. ASSUME NEW option \in DOMAIN config
        PROVE  LET kind == OptionsOf(command)[option] IN
               /\ config[option] # <<>>
               /\ kind \in {"count", "counts"} => 0 \notin ToSet(config[option])
               /\ kind \in {"protocols", "modes"} => IsInjective(config[option])
    <3>1. Fits(OptionsOf(command)[option], config[option])
      BY DEF ConfigInv
    <3> QED BY <3>1, FitListed DEF Fits, ToSet
  <2>2. ASSUME command = "bench", ~config.netem[1] PROVE ToSet(config.failures) = {"none"}
    <3>1. Fits("failures", config.failures)
      BY <2>2 DEF ConfigInv, OptionsOf, BenchOptions
    <3>2. \A failure \in ToSet(config.failures) : failure = "none"
      BY <1>1, <2>2 DEF TypeInv, NetemGiven, Unimpaired
    <3>3. 1 \in DOMAIN config.failures
      BY <3>1, FitListed
    <3> QED BY <3>2, <3>3 DEF ToSet
  <2> QED BY <2>1, <2>2 DEF RunnableConfig
<1>2. round \in 1 .. Len(Rounds(command, config)) + 1
  <2>1. Len(Rounds(command, config)) \in Nat \ {0}
    BY LoopsListed
  <2> HIDE DEF Rounds
  <2> QED BY <2>1 DEF MatrixInv
<1>3. done \in 0 .. Size(InnerLoops)
  BY DEF MatrixInv
<1>4. TrialTypeOK(0 .. Cardinality(rows) + 1)
  BY DEF TypeInv, Number
<1>5. command \in CommandNames /\ DOMAIN config = DOMAIN OptionsOf(command)
  BY DEF ConfigInv
<1>6. stage \in {"arguments", "setup", "round", "point", "report", "written", "ended"}
  BY DEF MatrixInv
<1>7. {verdict, tc} \subseteq BOOLEAN /\ qdisc \in DOMAIN FailureNames /\ Progressing
  BY DEF TypeInv, Flags
<1> QED BY <1>1, <1>2, <1>3, <1>4, <1>5, <1>6, <1>7 DEF TypeOK, Progressing

-----------------------------------------------------------------------------
(***************************************************************************)
(* The invariants together.                                                *)
(***************************************************************************)
LEMMA Invariants == Safety => [](ConfigInv /\ IInv /\ MatrixInv /\ TypeInv)
<1>1. Init => ConfigInv /\ IInv /\ MatrixInv /\ TypeInv
  BY ConfigInit, IInvInit, MatrixInit, TypeInit
<1>2. ConfigInv /\ IInv /\ MatrixInv /\ TypeInv /\ [Next]_commandVars
        => (ConfigInv /\ IInv /\ MatrixInv /\ TypeInv)'
  BY ConfigNext, IInvNext, MatrixNext, TypeNext
<1> QED BY <1>1, <1>2, PTL DEF Safety

\* Whatever the arguments and their order, the configuration that is run has a
\* value for every option, no list of it is empty, no number zero, no transport
\* or mode named twice, and an impairment comes with -netem; the loops stay in
\* their ranges and every variable has its type (cli.rs:58, overload.rs:120).
THEOREM TypeCorrect == Safety => []TypeOK
BY Invariants, TypesFollow, PTL

-----------------------------------------------------------------------------
(***************************************************************************)
(* The logs.                                                               *)
(***************************************************************************)
LEMMA PointsDiffer ==
  ASSUME NEW L, Listed(L), \A i \in 1 .. Len(L) : IsInjective(L[i]),
         NEW k \in Nat, NEW l \in Nat, k < Size(L), l < Size(L), Point(L, k) = Point(L, l)
  PROVE  k = l
<1>1. ASSUME NEW i \in 1 .. Len(L) PROVE Digit(L, k, i) = Digit(L, l, i)
  <2> DEFINE a == Digit(L, k, i)
             b == Digit(L, l, i)
  <2>1. a \in Nat /\ a < Len(L[i]) /\ b \in Nat /\ b < Len(L[i])
    BY Digits
  <2>2. L[i][a + 1] = L[i][b + 1]
    BY PointIs
  <2>3. DOMAIN L[i] = 1 .. Len(L[i]) /\ Len(L[i]) \in Nat
    BY DEF Listed
  <2> HIDE DEF a, b
  <2>4. a + 1 \in DOMAIN L[i] /\ b + 1 \in DOMAIN L[i]
    BY <2>1, <2>3
  <2>5. a + 1 = b + 1
    BY <2>2, <2>4 DEF IsInjective
  <2>6. a = b
    BY <2>1, <2>5
  <2> QED BY <2>6 DEF a, b
<1> QED BY <1>1, TurnsDiffer

\* The log of the n-th measurement.
PathOf(n, R, L) == log_path(R[RoundOf(n, L)], Point(L, PlaceOf(n, L)))

\* No value is named twice, neither by a load nor, ever, by the transports.
Named == \A i \in 1 .. 3 : IsInjective(InnerLoops[i])

LEMMA PathsDiffer ==
  ASSUME NEW L, Listed(L), \A i \in 1 .. Len(L) : IsInjective(L[i]), NEW R, NEW r \in Nat \ {0},
         \A i \in 1 .. r : R[i] = i, NEW d \in Nat, d < Size(L),
         NEW n \in Nat \ {0}, n <= (r - 1) * Size(L) + d + 1,
         PathOf(n, R, L) = PathOf((r - 1) * Size(L) + d + 1, R, L)
  PROVE  n = (r - 1) * Size(L) + d + 1
<1> DEFINE s == Size(L)
           q == RoundOf(n, L)
           p == PlaceOf(n, L)
<1>1. s \in Nat \ {0}
  BY SizePositive
<1>2. q \in Nat \ {0} /\ p \in Nat /\ p < s /\ n = (q - 1) * s + p + 1
  BY Places
<1>3. RoundOf((r - 1) * s + d + 1, L) = r /\ PlaceOf((r - 1) * s + d + 1, L) = d
  BY Numbered
<1>4. <<Point(L, p), R[q]>> = <<Point(L, d), R[r]>>
  BY <1>3 DEF PathOf, log_path
<1> HIDE DEF q, p
<1>5. q <= r
  <2> HIDE DEF s
  <2> SUFFICES ASSUME r <= q - 1 PROVE FALSE
    BY <1>2
  <2>1. q - 1 \in Nat /\ r * s <= (q - 1) * s
    BY <1>1, <1>2
  <2>2. (r - 1) * s + s = r * s /\ (r - 1) * s \in Int /\ r * s \in Nat /\ (q - 1) * s \in Nat
    BY <1>1, <2>1
  <2>3. n <= (r - 1) * s + d + 1 /\ d < s
    BY DEF s
  <2> QED BY <1>1, <1>2, <2>1, <2>2, <2>3
<1>6. q = r
  BY <1>2, <1>4, <1>5
<1>7. p = d
  BY <1>2, <1>4, PointsDiffer DEF s
<1> QED BY <1>2, <1>6, <1>7 DEF s

\* A log holds the lines of the one child whose measurement it is named for,
\* and while a child has not opened its own there is none of that name.
LogInv ==
  /\ child # "none" => Polling
  /\ stage \in {"arguments", "ended"} => DOMAIN logs = {} /\ lines = {}
  /\ command = "h2load-rate" /\ ~stale /\ Named =>
       /\ \A row \in rows : row.outcome \subseteq {row.nr}
       /\ \A path \in DOMAIN logs :
            \E n \in 1 .. Number :
              /\ path = PathOf(n, Rounds(command, config), InnerLoops)
              /\ logs[path] \subseteq {n}
              /\ trial = "off" \/ child = "started" => n < Number
       /\ lines \subseteq {Number}

LEMMA LogInit == Init => LogInv
<1> SUFFICES ASSUME Init PROVE LogInv
  OBVIOUS
<1>1. child = "none" /\ DOMAIN logs = {} /\ lines = {} /\ rows = {}
  BY NoLogs DEF Init, TrialInit
<1> QED BY <1>1 DEF LogInv

LEMMA LogExit == ASSUME NEW result, Exit(result) PROVE LogInv'
<1>1. child' = "none" /\ DOMAIN logs' = {} /\ lines' = {} /\ rows' = {}
  BY NoLogs DEF Exit, TrialDies
<1> QED BY <1>1 DEF LogInv

\* The path of a running trial is the one of the next number.
LEMMA PathHere ==
  ASSUME ConfigInv, MatrixInv, More
  PROVE  Path = PathOf(Number, Rounds(command, config), InnerLoops)
<1> DEFINE L == InnerLoops
<1>1. Listed(L) /\ Len(Rounds(command, config)) \in Nat
  BY LoopsListed
<1>2. round \in Nat \ {0} /\ done \in Nat /\ done < Size(L)
  <2>1. round \in 1 .. Len(Rounds(command, config)) /\ done < Size(L) /\ done \in 0 .. Size(L)
    BY DEF MatrixInv, More
  <2> HIDE DEF L
  <2> QED BY <1>1, <2>1, SizePositive
<1>3. Number = (round - 1) * Size(L) + done + 1
  BY CountsRows DEF Taken
<1> HIDE DEF L
<1>4. RoundOf(Number, L) = round /\ PlaceOf(Number, L) = done
  BY <1>1, <1>2, <1>3, Numbered
<1> QED BY <1>4, Zenon DEF PathOf, Path, Current, Here, L

\* And no smaller number has it.
LEMMA PathOwn ==
  ASSUME ConfigInv, MatrixInv, More, command = "h2load-rate", Named, NEW n \in 1 .. Number,
         PathOf(n, Rounds(command, config), InnerLoops) = Path
  PROVE  n = Number
<1> DEFINE L == InnerLoops
           R == Rounds(command, config)
<1>1. Listed(L) /\ Len(L) = 3 /\ Len(R) \in Nat
  <2>1. Len(L) = 3
    BY DEF InnerLoops, Loops, pps_loops
  <2> QED BY <2>1, LoopsListed
<1>2. \A i \in 1 .. Len(L) : IsInjective(L[i])
  BY <1>1 DEF Named
<1>3. \A i \in 1 .. Len(R) : R[i] = i
  <2>1. R = UpTo(config.repeats[1])
    BY DEF Rounds
  <2>2. config.repeats[1] \in Nat \ {0}
    <3>1. Fits("count", config.repeats)
      BY DEF ConfigInv, OptionsOf, H2LoadRateOptions
    <3> QED BY <3>1, FitListed
  <2> QED BY <2>1, <2>2, UpToListed
<1>4. round \in 1 .. Len(R) /\ done < Size(L) /\ done \in 0 .. Size(L)
  BY DEF MatrixInv, More
<1>5. Number = (round - 1) * Size(L) + done + 1 /\ Number \in Nat
  BY CountsRows DEF Taken
<1>6. PathOf(n, R, L) = PathOf(Number, R, L)
  BY PathHere
<1> HIDE DEF L, R
<1>7. round \in Nat \ {0} /\ done \in Nat /\ \A i \in 1 .. round : R[i] = i
  BY <1>1, <1>3, <1>4, SizePositive
<1>8. n \in Nat \ {0} /\ n <= (round - 1) * Size(L) + done + 1
  BY <1>5
<1>9. PathOf(n, R, L) = PathOf((round - 1) * Size(L) + done + 1, R, L)
  BY <1>5, <1>6, Zenon
<1>10. n = (round - 1) * Size(L) + done + 1
  BY <1>1, <1>2, <1>4, <1>7, <1>8, <1>9, PathsDiffer
<1> QED BY <1>5, <1>10

\* A step that leaves the files, the lines and the rows alone.
LEMMA LogQuiet ==
  ASSUME LogInv, UNCHANGED <<command, config, logs, stale, rows, lines>>,
         child' # "none" => Polling',
         stage' \in {"arguments", "ended"} => stage \in {"arguments", "ended"},
         trial' = "off" \/ child' = "started" => trial = "off" \/ child = "started"
  PROVE  LogInv'
<1>1. /\ InnerLoops' = InnerLoops /\ Rounds(command, config)' = Rounds(command, config)
      /\ Number' = Number
  BY DEF InnerLoops, Number
<1>2. Named' = Named
  BY <1>1 DEF Named
<1> QED BY <1>1, <1>2 DEF LogInv, Polling

LEMMA LogNext ==
  ConfigInv /\ IInv /\ MatrixInv /\ MatrixInv' /\ LogInv /\ [Next]_commandVars => LogInv'
<1> SUFFICES ASSUME ConfigInv, IInv, MatrixInv, MatrixInv', LogInv, [Next]_commandVars
             PROVE  LogInv'
  OBVIOUS
<1>1. Number \in Nat
  BY CountsRows
<1>2. CASE ReadArgument
  <2>1. /\ stage = "arguments" /\ UNCHANGED <<stage, logs, lines, rows, child, trial>>
    BY <1>2 DEF ReadArgument, loopVars, trialVars
  <2>2. DOMAIN logs = {} /\ lines = {} /\ rows = {}
    BY <2>1 DEF LogInv, IInv
  <2> QED BY <2>1, <2>2 DEF LogInv, Polling
<1>3. CASE EndArguments \/ Setup \/ BeginRound \/ EndRound \/ WriteReport
           \/ UNCHANGED commandVars
  <2>1. UNCHANGED <<command, config, logs, stale, rows, lines, child, trial>>
    BY <1>3 DEF EndArguments, Setup, BeginRound, EndRound, WriteReport, DetectCapabilities,
       startVars, loopVars, trialVars, commandVars
  <2>2. stage' \in {"arguments", "ended"} => stage \in {"arguments", "ended"}
    BY <1>3 DEF EndArguments, Setup, BeginRound, EndRound, WriteReport, commandVars
  <2> QED BY <2>1, <2>2, LogQuiet DEF LogInv, Polling
<1>4. CASE MeasureBench \/ MeasureOverload \/ MeasurePps
  <2>1. PICK outcome : Pushed(outcome)
    BY <1>4 DEF MeasureBench, MeasureOverload, MeasurePps
  <2>2. /\ command # "h2load-rate" /\ UNCHANGED <<command, stage, logs, lines, child, trial>>
    BY <1>4, <2>1 DEF MeasureBench, MeasureOverload, MeasurePps, Pushed, startVars, trialVars
  <2> QED BY <2>2 DEF LogInv, Polling
<1>5. CASE EndTrial
  <2> DEFINE L == InnerLoops
             R == Rounds(command, config)
  <2>1. /\ trial # "off" /\ Joined /\ Pushed(lines) /\ More
    BY <1>5 DEF EndTrial, MatrixInv
  <2>2. /\ UNCHANGED <<command, config, stage, child, logs, stale>>
        /\ trial' = "off" /\ lines' = {} /\ child = "none"
        /\ rows' = rows \cup {[nr |-> Number, round |-> Current, point |-> Here, outcome |-> lines]}
    BY <2>1 DEF Joined, Pushed, startVars, LogInv, Polling, Number
  <2>3. Number' = Number + 1
    <3>1. trial' = "off" /\ Number = Taken + 1 /\ Taken' = Taken + 1
      BY <2>1, <2>2, MatrixPushed
    <3>2. Number' = Taken' + 1
      BY DEF MatrixInv, Booked, Number
    <3> QED BY <3>1, <3>2
  <2>4. L' = L /\ R' = R /\ Named' = Named
    BY <2>2 DEF InnerLoops, Named
  <2>5. ASSUME command = "h2load-rate", ~stale, Named
        PROVE  /\ \A row \in rows' : row.outcome \subseteq {row.nr}
               /\ \A path \in DOMAIN logs :
                    \E n \in 1 .. Number' :
                      path = PathOf(n, R, L) /\ logs[path] \subseteq {n} /\ n < Number'
    <3>1. \A row \in rows : row.outcome \subseteq {row.nr}
      BY <2>5 DEF LogInv
    <3>2. lines \subseteq {Number}
      BY <2>5 DEF LogInv
    <3>3. ASSUME NEW path \in DOMAIN logs
          PROVE  \E n \in 1 .. Number' :
                   path = PathOf(n, R, L) /\ logs[path] \subseteq {n} /\ n < Number'
      <4>1. PICK n \in 1 .. Number : path = PathOf(n, R, L) /\ logs[path] \subseteq {n}
        BY <2>5 DEF LogInv
      <4>2. n \in 1 .. Number' /\ n < Number'
        BY <1>1, <2>3
      <4> HIDE DEF L, R
      <4> QED BY <4>1, <4>2
    <3> QED BY <2>2, <3>1, <3>2, <3>3
  <2> HIDE DEF L, R
  <2> QED BY <2>2, <2>4, <2>5 DEF LogInv, L, R
<1>6. CASE SpawnH2Load \/ TrialStep \/ ServerStep \/ ChildFails
           \/ (Polling /\ Others /\ (ChildExits \/ ChildBlocks))
  <2>1. UNCHANGED <<command, config, stage, rows, logs, stale>>
    BY <1>6 DEF SpawnH2Load, SpawnChild, TrialStep, Sample, SampleEnds, Reap, StopServer,
       ServerStep, ServerEnds, ChildFails, ChildQuits, ChildExits, ChildBlocks, Others, startVars, loopVars
  <2>2. CASE Reap(Path)
    <3>1. /\ trial = "polling" /\ Exists(Path) /\ lines' = Content(Path)
          /\ trial' = "stopping" /\ child' = "none"
      BY <2>2 DEF Reap
    <3>2. More
      BY <3>1 DEF MatrixInv
    <3>3. ASSUME command = "h2load-rate", ~stale, Named PROVE lines' \subseteq {Number}
      <4>1. Path \in DOMAIN logs /\ lines' = logs[Path]
        BY <3>1, <3>3 DEF Exists, Content
      <4>2. PICK n \in 1 .. Number : /\ Path = PathOf(n, Rounds(command, config), InnerLoops)
                                     /\ logs[Path] \subseteq {n}
        BY <3>3, <4>1 DEF LogInv
      <4>3. n = Number
        BY <3>2, <3>3, <4>2, PathOwn
      <4> QED BY <4>1, <4>2, <4>3
    <3>4. /\ InnerLoops' = InnerLoops /\ Rounds(command, config)' = Rounds(command, config)
          /\ Number' = Number
      BY <2>1 DEF InnerLoops, Number
    <3>5. Named' = Named
      BY <3>4 DEF Named
    <3>6. stage \notin {"arguments", "ended"}
      BY <3>2 DEF More
    <3> QED BY <2>1, <3>1, <3>3, <3>4, <3>5, <3>6 DEF LogInv
  <2>3. CASE ~Reap(Path)
    <3>1. lines' = lines
      BY <1>6, <2>3 DEF SpawnH2Load, SpawnChild, TrialStep, Sample, SampleEnds, StopServer,
         ServerStep, ServerEnds, ChildFails, ChildQuits, ChildExits, ChildBlocks
    <3>2. child' # "none" => Polling'
      BY <1>6, <2>3 DEF SpawnH2Load, SpawnChild, TrialStep, Sample, SampleEnds, StopServer,
         ServerStep, ServerEnds, ChildFails, ChildQuits, ChildExits, ChildBlocks, LogInv,
         Polling
    <3>3. trial' = "off" \/ child' = "started" => trial = "off" \/ child = "started"
      BY <1>6, <2>3 DEF SpawnH2Load, SpawnChild, TrialStep, Sample, SampleEnds, StopServer,
         ServerStep, ServerEnds, ChildFails, ChildQuits, ChildExits, ChildBlocks
    <3> QED BY <2>1, <3>1, <3>2, <3>3, LogQuiet
  <2> QED BY <2>2, <2>3
<1>7. CASE Polling /\ Others /\ ChildLogs(Path, Number)
  <2> DEFINE content ==
        {Number} \cup (IF appends /\ Exists(Path) THEN Content(Path) ELSE {})
      L == InnerLoops
      R == Rounds(command, config)
  <2>1. /\ child = "started" /\ child' = "logging" /\ logs' = Written(Path, content)
        /\ UNCHANGED <<command, config, stage, rows, trial, stale, lines>>
    BY <1>7 DEF ChildLogs, Others, startVars, loopVars
  <2>2. More /\ stage \notin {"arguments", "ended"}
    BY <1>7 DEF MatrixInv, More, Polling
  <2>3. L' = L /\ R' = R /\ Named' = Named /\ Number' = Number
    BY <2>1 DEF InnerLoops, Named, Number
  <2>4. ASSUME command = "h2load-rate", ~stale, Named
        PROVE  \A path \in DOMAIN logs' :
                 \E n \in 1 .. Number : path = PathOf(n, R, L) /\ logs'[path] \subseteq {n}
    <3>1. \A path \in DOMAIN logs :
            \E n \in 1 .. Number :
              path = PathOf(n, R, L) /\ logs[path] \subseteq {n} /\ n < Number
      BY <2>1, <2>4 DEF LogInv
    <3>2. Path \notin DOMAIN logs
      <4> SUFFICES ASSUME Path \in DOMAIN logs PROVE FALSE
        OBVIOUS
      <4>1. PICK n \in 1 .. Number : Path = PathOf(n, R, L) /\ n < Number
        BY <3>1
      <4>2. n = Number
        BY <2>2, <2>4, <4>1, PathOwn
      <4> QED BY <1>1, <4>1, <4>2
    <3>3. content = {Number}
      BY <2>4, <3>2 DEF Exists
    <3>4. Path = PathOf(Number, R, L) /\ Number \in 1 .. Number
      <4>1. Number \in 1 .. Number
        BY CountsRows DEF Number
      <4> QED BY <2>2, <4>1, PathHere
    <3> HIDE DEF content, L, R
    <3>5. /\ DOMAIN logs' = DOMAIN logs \cup {Path} /\ logs'[Path] = {Number}
          /\ \A path \in DOMAIN logs : logs'[path] = logs[path]
      BY <2>1, <3>2, <3>3 DEF Written
    <3> QED BY <3>1, <3>4, <3>5
  <2>5. child' # "started" /\ trial' # "off" /\ Polling'
    BY <1>7, <2>1 DEF Polling
  <2> HIDE DEF L, R
  <2> QED BY <2>1, <2>2, <2>3, <2>4, <2>5 DEF LogInv, L, R
<1>8. CASE \/ NetemMissing \/ ApplyFails \/ TrialFails \/ Finish
           \/ ArgumentStops \/ Fails \/ ReportFails \/ Killed
  BY <1>8, LogExit DEF NetemMissing, ApplyFails, TrialFails, Finish, ArgumentStops,
     Fails, ReportFails, Killed
<1>9. CASE Start
  <2>1. /\ stage = "ended" /\ stage' = "arguments"
        /\ UNCHANGED <<logs, lines, rows, child, trial>>
    BY <1>9 DEF Start, loopVars, trialVars
  <2>2. DOMAIN logs = {} /\ lines = {} /\ rows = {}
    BY <2>1 DEF LogInv, IInv
  <2> QED BY <2>1, <2>2 DEF LogInv, Polling
<1> QED
  BY <1>2, <1>3, <1>4, <1>5, <1>6, <1>7, <1>8, <1>9 DEF Next, Progress, ChildStep

\* In a directory without older logs, and when no value is named twice, a row
\* counts the lines of its own child only, whatever h2load does with a file
\* that exists, whichever children fail before they open theirs and however
\* earlier processes ended (h2load_rate.rs:254, 355).
THEOREM OwnLogCorrect == Safety => []OwnLog
<1>1. Init => LogInv
  BY LogInit
<1>2. LogInv => OwnLog
  BY DEF LogInv, OwnLog, Named
<1> QED BY <1>1, <1>2, LogNext, Invariants, PTL DEF Safety

-----------------------------------------------------------------------------
(***************************************************************************)
(* The whole matrix.                                                       *)
(***************************************************************************)
\* A command that succeeds has written its report, and the verdict is that of
\* the rows it was written from.
EndInv ==
  /\ stage # "ended" => status = "running"
  /\ stage = "written" \/ status = "ok" => report = "whole"
  /\ stage = "written" /\ command = "overload" => (verdict <=> overload_claim_supported(rows))

LEMMA EndInit == Init => EndInv
BY DEF Init, EndInv

LEMMA EndNext == EndInv /\ [Next]_commandVars => EndInv'
<1> SUFFICES ASSUME EndInv, [Next]_commandVars PROVE EndInv'
  OBVIOUS
<1>1. CASE ReadArgument \/ EndArguments \/ Setup \/ BeginRound \/ EndRound
           \/ SpawnH2Load \/ ChildStep \/ ChildFails \/ TrialStep \/ ServerStep
  <2>1. /\ UNCHANGED <<command, status, report, verdict>>
        /\ stage' \notin {"written", "ended"} \/ (stage' = stage /\ rows' = rows)
    BY <1>1 DEF ReadArgument, EndArguments, Setup, BeginRound, EndRound, SpawnH2Load,
       ChildStep, ChildFails, TrialStep, ServerStep, Others, startVars, reportVars, loopVars
  <2>2. stage' # "ended" => stage # "ended"
    BY <1>1, <2>1 DEF ReadArgument, EndArguments, Setup, BeginRound, EndRound, SpawnH2Load,
       ChildStep, ChildFails, TrialStep, ServerStep, Others
  <2> QED BY <2>1, <2>2 DEF EndInv
<1>2. CASE MeasureBench \/ MeasureOverload \/ MeasurePps \/ EndTrial
  <2>1. /\ UNCHANGED <<command, status, report, verdict, stage>>
        /\ stage = "point"
    BY <1>2 DEF MeasureBench, MeasureOverload, MeasurePps, EndTrial, Pushed, More, startVars,
       reportVars
  <2> QED BY <2>1 DEF EndInv
<1>3. CASE WriteReport
  <2>1. /\ UNCHANGED <<command, status, rows>> /\ stage = "report" /\ stage' = "written"
        /\ report' = "whole"
        /\ verdict' = (command = "overload" /\ overload_claim_supported(rows))
    BY <1>3 DEF WriteReport, startVars, loopVars
  <2> QED BY <2>1 DEF EndInv
<1>4. CASE Start
  BY <1>4 DEF Start, EndInv
<1>5. CASE Finish
  BY <1>5 DEF Finish, Exit, reportVars, EndInv
<1>6. CASE \/ NetemMissing \/ ApplyFails \/ TrialFails
           \/ ArgumentStops \/ Fails \/ ReportFails \/ Killed
  <2>1. PICK result \in {"err", "help", "killed"} : Exit(result)
    BY <1>6 DEF NetemMissing, ApplyFails, TrialFails, ArgumentStops, Fails, ReportFails, Killed
  <2> QED BY <2>1 DEF Exit, EndInv
<1>7. CASE UNCHANGED commandVars
  BY <1>7 DEF commandVars, startVars, loopVars, reportVars, EndInv
<1> QED BY <1>1, <1>2, <1>3, <1>4, <1>5, <1>6, <1>7 DEF Next, Progress

\* At the end every measurement was made.
LEMMA AllTaken ==
  ASSUME ConfigInv, MatrixInv, stage \in {"report", "written"}
  PROVE  Booked(rows, Len(Rounds(command, config)) * Size(InnerLoops),
                Rounds(command, config), InnerLoops)
<1> DEFINE R == Rounds(command, config)
           s == Size(InnerLoops)
<1>1. Len(R) \in Nat /\ s \in Nat
  BY LoopsListed, SizePositive
<1>2. round = Len(R) + 1 /\ done = 0 /\ Taken = (round - 1) * s + done
  BY DEF MatrixInv, Taken
<1> HIDE DEF R, s
<1> DEFINE w == round - 1
<1>3. w = Len(R) /\ Taken = w * s + 0
  BY <1>1, <1>2
<1> HIDE DEF w
<1>4. w * s \in Nat
  BY <1>1, <1>3
<1>5. Taken = Len(R) * s
  BY <1>3, <1>4
<1>6. Booked(rows, Taken, R, InnerLoops)
  BY DEF MatrixInv, R
<1> QED BY <1>5, <1>6, Zenon DEF R, s

LEMMA Concat ==
  ASSUME NEW X, NEW x \in X, NEW s \in Seq(X)
  PROVE  /\ DOMAIN (<<x>> \o s) = 1 .. (Len(s) + 1)
         /\ (<<x>> \o s)[1] = x
         /\ \A i \in 2 .. (Len(s) + 1) : (<<x>> \o s)[i] = s[i - 1]
<1>1. <<x>> \o s \in Seq(X) /\ Len(<<x>> \o s) = Len(s) + 1
  OBVIOUS
<1>2. (<<x>> \o s)[1] = x
  OBVIOUS
<1>3. ASSUME NEW i \in 2 .. (Len(s) + 1) PROVE (<<x>> \o s)[i] = s[i - 1]
  OBVIOUS
<1> QED BY <1>1, <1>2, <1>3

\* A function on 1 .. n is a sequence.
LEMMA IsSequence ==
  ASSUME NEW f, NEW n \in Nat, f = [i \in 1 .. n |-> f[i]]
  PROVE  f \in Seq({f[i] : i \in 1 .. n}) /\ Len(f) = n
<1> DEFINE X == {f[i] : i \in 1 .. n}
<1>1. \A i \in 1 .. n : f[i] \in X
  OBVIOUS
<1> HIDE DEF X
<1>2. f \in Seq(X)
  BY <1>1
<1>3. DOMAIN f = 1 .. n /\ DOMAIN f = 1 .. Len(f) /\ Len(f) \in Nat
  BY <1>2
<1> QED BY <1>2, <1>3 DEF X

LEMMA PointSeq ==
  ASSUME NEW L, Len(L) \in Nat, NEW k \in Nat
  PROVE  \E X : Point(L, k) \in Seq(X) /\ Len(Point(L, k)) = Len(L)
<1> DEFINE p == Point(L, k)
<1>1. p = [i \in 1 .. Len(L) |-> p[i]]
  BY DEF Point
<1> HIDE DEF p
<1>2. p \in Seq({p[i] : i \in 1 .. Len(L)}) /\ Len(p) = Len(L)
  BY <1>1, IsSequence
<1> QED BY <1>2 DEF p

\* The turns of all loops, the round first.
TurnsOf(loops) ==
  {f \in [DOMAIN loops -> UNION {DOMAIN loops[i] : i \in DOMAIN loops}] :
     \A i \in DOMAIN loops : f[i] \in DOMAIN loops[i]}
At(loops, f) == [i \in DOMAIN f |-> loops[i][f[i]]]
Turn(row, L) ==
  [i \in 1 .. Len(L) + 1 |->
     IF i = 1 THEN RoundOf(row.nr, L) ELSE Digit(L, PlaceOf(row.nr, L), i - 1) + 1]

LEMMA RoundIn ==
  ASSUME NEW L, Listed(L), NEW K \in Nat, NEW n \in 1 .. (K * Size(L))
  PROVE  RoundOf(n, L) \in 1 .. K
<1> DEFINE s == Size(L)
           q == RoundOf(n, L)
           p == PlaceOf(n, L)
<1>1. s \in Nat \ {0} /\ n \in Nat \ {0} /\ n <= K * s
  <2>1. s \in Nat \ {0}
    BY SizePositive
  <2> HIDE DEF s
  <2>2. K * s \in Nat
    BY <2>1
  <2> QED BY <2>1, <2>2 DEF s
<1>2. q \in Nat \ {0} /\ p \in Nat /\ n = (q - 1) * s + p + 1
  BY <1>1, Places
<1> HIDE DEF s, p, q
<1>3. ~(K <= q - 1)
  <2> SUFFICES ASSUME K <= q - 1 PROVE FALSE
    OBVIOUS
  <2>1. q - 1 \in Nat /\ K * s <= (q - 1) * s
    BY <1>1, <1>2
  <2>2. K * s \in Nat /\ (q - 1) * s \in Nat
    BY <1>1, <2>1
  <2> QED BY <1>1, <1>2, <2>1, <2>2
<1>4. q \in 1 .. K
  BY <1>2, <1>3
<1> QED BY <1>4 DEF q

LEMMA NumberIn ==
  ASSUME NEW s \in Nat \ {0}, NEW K \in Nat, NEW q \in 1 .. K, NEW p \in Nat, p < s
  PROVE  (q - 1) * s + p + 1 \in 1 .. (K * s)
<1>1. (q - 1) * s + s = q * s /\ q * s <= K * s /\ (q - 1) * s \in Nat /\ K * s \in Nat
  <2>1. q * s <= K * s
    OBVIOUS
  <2>2. (q - 1) * s + s = q * s
    OBVIOUS
  <2>3. q - 1 \in Nat
    OBVIOUS
  <2> QED BY <2>1, <2>2, <2>3
<1> QED BY <1>1

LEMMA RowPlaces ==
  ASSUME NEW L, Listed(L), NEW R, NEW K \in Nat, NEW rs, Booked(rs, K * Size(L), R, L),
         NEW row \in rs
  PROVE  /\ row.nr \in Nat \ {0} /\ RoundOf(row.nr, L) \in 1 .. K
         /\ PlaceOf(row.nr, L) \in Nat /\ PlaceOf(row.nr, L) < Size(L)
         /\ row.round = R[RoundOf(row.nr, L)] /\ row.point = Point(L, PlaceOf(row.nr, L))
<1>1. row.nr \in 1 .. (K * Size(L))
  BY DEF Booked
<1>2. K * Size(L) \in Nat
  <2>1. Size(L) \in Nat
    BY SizePositive
  <2> QED BY <2>1
<1>3. row.nr \in Nat \ {0}
  BY <1>1, <1>2
<1> QED BY <1>1, <1>3, RoundIn, Places DEF Booked

LEMMA RowTurns ==
  ASSUME NEW X, NEW L \in Seq(X), Listed(L), NEW R \in X, Len(R) \in Nat,
         DOMAIN R = 1 .. Len(R), NEW rs, Booked(rs, Len(R) * Size(L), R, L), NEW row \in rs
  PROVE  /\ Turn(row, L) \in TurnsOf(<<R>> \o L)
         /\ At(<<R>> \o L, Turn(row, L)) = <<row.round>> \o row.point
<1> DEFINE loops == <<R>> \o L
           N == Len(L)
           k == PlaceOf(row.nr, L)
           q == RoundOf(row.nr, L)
           f == Turn(row, L)
<1>1. N \in Nat
  OBVIOUS
<1>2. /\ DOMAIN loops = 1 .. (N + 1) /\ loops[1] = R
      /\ \A i \in 2 .. (N + 1) : loops[i] = L[i - 1]
  BY Concat
<1>3. /\ q \in 1 .. Len(R) /\ k \in Nat /\ k < Size(L)
      /\ row.round = R[q] /\ row.point = Point(L, k)
  BY RowPlaces
<1>4. /\ f = [i \in 1 .. N + 1 |-> IF i = 1 THEN q ELSE Digit(L, k, i - 1) + 1]
  BY DEF Turn
<1>5. \A i \in 1 .. N : Digit(L, k, i) \in Nat /\ Digit(L, k, i) < Len(L[i])
                        /\ Digit(L, k, i) + 1 \in DOMAIN L[i]
  <2> TAKE i \in 1 .. N
  <2>1. Digit(L, k, i) \in Nat /\ Digit(L, k, i) < Len(L[i])
    BY <1>3, Digits
  <2>2. DOMAIN L[i] = 1 .. Len(L[i]) /\ Len(L[i]) \in Nat
    BY DEF Listed
  <2> QED BY <2>1, <2>2
<1> HIDE DEF loops, N, k, q, f
<1>6. \A i \in 1 .. N + 1 : i = 1 \/ (i \in 2 .. N + 1 /\ i - 1 \in 1 .. N)
  BY <1>1
<1>7. \A i \in 1 .. N + 1 : f[i] \in DOMAIN loops[i]
  BY <1>2, <1>3, <1>4, <1>5, <1>6
<1>8. f \in TurnsOf(loops)
  <2>1. f \in [DOMAIN loops -> UNION {DOMAIN loops[i] : i \in DOMAIN loops}]
    BY <1>2, <1>4, <1>7
  <2> QED BY <1>2, <1>7, <2>1 DEF TurnsOf
<1>9. At(loops, f) = <<row.round>> \o row.point
  <2>1. DOMAIN At(loops, f) = 1 .. (N + 1) /\ At(loops, f) = [i \in 1 .. (N + 1) |-> loops[i][f[i]]]
    BY <1>4 DEF At
  <2> DEFINE p == row.point
             r == row.round
             c == <<r>> \o p
  <2>2. PICK Y : p \in Seq(Y) /\ Len(p) = N
    BY <1>1, <1>3, PointSeq DEF N
  <2> HIDE DEF p, r
  <2>3. p \in Seq(Y \cup {r}) /\ r \in Y \cup {r}
    <3>1. \A Z : Y \subseteq Z => Seq(Y) \subseteq Seq(Z)
      OBVIOUS
    <3> QED BY <2>2, <3>1
  <2>4. /\ c \in Seq(Y \cup {r}) /\ DOMAIN c = 1 .. (N + 1) /\ c[1] = r
        /\ \A i \in 2 .. (N + 1) : c[i] = p[i - 1]
    <3>1. c \in Seq(Y \cup {r})
      BY <2>3
    <3>2. /\ DOMAIN c = 1 .. (Len(p) + 1) /\ c[1] = r
          /\ \A i \in 2 .. (Len(p) + 1) : c[i] = p[i - 1]
      BY <2>3, Concat
    <3> QED BY <2>2, <3>1, <3>2
  <2> HIDE DEF c
  <2>5. \A i \in 1 .. (N + 1) : loops[i][f[i]] = c[i]
    <3> TAKE i \in 1 .. (N + 1)
    <3>1. CASE i = 1
      BY <1>2, <1>3, <1>4, <2>4, <3>1 DEF r
    <3>2. CASE i # 1
      <4>1. i \in 2 .. (N + 1) /\ i - 1 \in 1 .. N
        BY <1>6, <3>2
      <4>2. loops[i] = L[i - 1] /\ f[i] = Digit(L, k, i - 1) + 1
        BY <1>2, <1>4, <3>2, <4>1
      <4>3. p[i - 1] = L[i - 1][Digit(L, k, i - 1) + 1]
        BY <1>3, <4>1, PointIs DEF p, N
      <4> QED BY <2>4, <4>1, <4>2, <4>3
    <3> QED BY <3>1, <3>2
  <2>6. c = [i \in 1 .. (N + 1) |-> c[i]]
    BY <2>4
  <2> QED BY <2>1, <2>5, <2>6 DEF c, p, r
<1> QED BY <1>8, <1>9 DEF loops, f

LEMMA TurnsBijection ==
  ASSUME NEW X, NEW L \in Seq(X), Listed(L), NEW R \in X, Len(R) \in Nat,
         DOMAIN R = 1 .. Len(R), NEW rs, Booked(rs, Len(R) * Size(L), R, L)
  PROVE  /\ \A a, b \in rs : Turn(a, L) = Turn(b, L) => a = b
         /\ \A f \in TurnsOf(<<R>> \o L) : \E row \in rs : Turn(row, L) = f
<1> DEFINE loops == <<R>> \o L
           N == Len(L)
           s == Size(L)
<1>1. N \in Nat /\ s \in Nat \ {0}
  BY SizePositive
<1>2. ASSUME NEW a \in rs, NEW b \in rs, Turn(a, L) = Turn(b, L) PROVE a = b
  <2> DEFINE k == PlaceOf(a.nr, L)
             l == PlaceOf(b.nr, L)
  <2>1. /\ k \in Nat /\ k < Size(L) /\ l \in Nat /\ l < Size(L)
        /\ a.nr \in Nat \ {0} /\ b.nr \in Nat \ {0}
    BY RowPlaces
  <2>2. RoundOf(a.nr, L) = RoundOf(b.nr, L)
    <3>1. Turn(a, L)[1] = RoundOf(a.nr, L) /\ Turn(b, L)[1] = RoundOf(b.nr, L)
      BY <1>1 DEF Turn
    <3> QED BY <1>2, <3>1
  <2>3. \A i \in 1 .. N : Digit(L, k, i) = Digit(L, l, i)
    <3> TAKE i \in 1 .. N
    <3>1. i + 1 \in 1 .. N + 1 /\ i + 1 # 1 /\ i + 1 - 1 = i
      BY <1>1
    <3>2. Turn(a, L)[i + 1] = Digit(L, k, i) + 1 /\ Turn(b, L)[i + 1] = Digit(L, l, i) + 1
      BY <3>1 DEF Turn
    <3>3. Digit(L, k, i) \in Nat /\ Digit(L, l, i) \in Nat
      BY <2>1, Digits
    <3> HIDE DEF k, l
    <3> QED BY <1>2, <3>2, <3>3
  <2>4. k = l
    <3> HIDE DEF k, l
    <3> QED BY <2>1, <2>3, TurnsDiffer
  <2>5. a.nr = (RoundOf(a.nr, L) - 1) * s + k + 1 /\ b.nr = (RoundOf(b.nr, L) - 1) * s + l + 1
    BY <2>1, Places
  <2> HIDE DEF k, l, s
  <2>6. a.nr = b.nr
    BY <2>2, <2>4, <2>5
  <2> QED BY <2>6 DEF Booked
<1>3. ASSUME NEW f \in TurnsOf(loops) PROVE \E row \in rs : Turn(row, L) = f
  <2>1. /\ DOMAIN loops = 1 .. (N + 1) /\ loops[1] = R
        /\ \A i \in 2 .. (N + 1) : loops[i] = L[i - 1]
    BY Concat
  <2> DEFINE g == [i \in 1 .. N |-> f[i + 1]]
  <2> HIDE DEF loops
  <2>2. f = [i \in 1 .. (N + 1) |-> f[i]] /\ \A i \in 1 .. (N + 1) : f[i] \in DOMAIN loops[i]
    BY <2>1 DEF TurnsOf
  <2>3. f[1] \in 1 .. Len(R)
    <3>1. 1 \in 1 .. (N + 1)
      BY <1>1
    <3> QED BY <2>1, <2>2, <3>1
  <2>4. \A i \in 1 .. Len(L) : g[i] \in 1 .. Len(L[i])
    <3> TAKE i \in 1 .. Len(L)
    <3>1. i + 1 \in 2 .. (N + 1) /\ i + 1 \in 1 .. (N + 1) /\ i + 1 - 1 = i
      BY <1>1
    <3>2. f[i + 1] \in DOMAIN L[i]
      BY <2>1, <2>2, <3>1
    <3> QED BY <3>2 DEF Listed
  <2> HIDE DEF g
  <2>5. PICK k \in Nat : k < Size(L) /\ \A i \in 1 .. Len(L) : Digit(L, k, i) + 1 = g[i]
    BY <2>4, TurnsCome
  <2> DEFINE n == (f[1] - 1) * s + k + 1
  <2>6. n \in 1 .. (Len(R) * s)
    BY <1>1, <2>3, <2>5, NumberIn
  <2>7. RoundOf(n, L) = f[1] /\ PlaceOf(n, L) = k
    <3>1. f[1] \in Nat \ {0}
      BY <2>3
    <3> QED BY <2>5, <3>1, Numbered
  <2> HIDE DEF n, s
  <2>8. PICK row \in rs : row.nr = n
    BY <2>6 DEF Booked, s
  <2>9. \A i \in 1 .. (N + 1) :
          (IF i = 1 THEN RoundOf(row.nr, L) ELSE Digit(L, PlaceOf(row.nr, L), i - 1) + 1) = f[i]
    <3> TAKE i \in 1 .. (N + 1)
    <3>1. CASE i = 1
      BY <2>7, <2>8, <3>1
    <3>2. CASE i # 1
      <4>1. i - 1 \in 1 .. N /\ i - 1 + 1 = i
        BY <1>1, <3>2
      <4>2. Digit(L, PlaceOf(row.nr, L), i - 1) + 1 = g[i - 1]
        BY <2>5, <2>7, <2>8, <4>1
      <4>3. g[i - 1] = f[i]
        BY <4>1 DEF g
      <4> QED BY <3>2, <4>2, <4>3, Zenon
    <3> QED BY <3>1, <3>2
  <2>10. Turn(row, L) = f
    BY <2>2, <2>9 DEF Turn
  <2> QED BY <2>10
<1> QED BY <1>2, <1>3 DEF loops

LEMMA SameCount ==
  ASSUME NEW S, IsFiniteSet(S), NEW T, NEW B, \A a \in S : B[a] \in T,
         \A a, b \in S : B[a] = B[b] => a = b, \A t \in T : \E a \in S : B[a] = t
  PROVE  Cardinality(S) = Cardinality(T)
<1> DEFINE F == [a \in S |-> B[a]]
<1>1. /\ F \in [S -> T] /\ \A a, b \in S : F[a] = F[b] => a = b
      /\ \A t \in T : \E a \in S : F[a] = t
  OBVIOUS
<1> HIDE DEF F
<1>2. F \in Bijection(S, T)
  BY <1>1, Fun_IsBij
<1> QED BY <1>2, FS_Bijection DEF ExistsBijection

LEMMA InnerSeq ==
  \E X : InnerLoops \in Seq(X) /\ Rounds(command, config) \in X
<1> DEFINE R == Rounds(command, config)
<1> HIDE DEF R
<1>1. \A a, b, c, d : <<a, b, c, d>> \in Seq({a, b, c, d, R})
  OBVIOUS
<1>2. \A a, b, c : <<a, b, c>> \in Seq({a, b, c, R})
  OBVIOUS
<1>3. \/ \E a, b, c, d : InnerLoops = <<a, b, c, d>>
      \/ \E a, b, c : InnerLoops = <<a, b, c>>
  <2>1. CASE command = "bench"
    BY <2>1 DEF InnerLoops, Loops, bench_loops
  <2>2. CASE command = "overload"
    BY <2>2 DEF InnerLoops, Loops, overload_loops
  <2>3. CASE ~(command = "bench" \/ command = "overload")
    BY <2>3 DEF InnerLoops, Loops, pps_loops
  <2> QED BY <2>1, <2>2, <2>3
<1>4. CASE \E a, b, c, d : InnerLoops = <<a, b, c, d>>
  <2>1. PICK a, b, c, d : InnerLoops = <<a, b, c, d>>
    BY <1>4
  <2>2. InnerLoops \in Seq({a, b, c, d, R})
    BY <1>1, <2>1
  <2> QED BY <2>2 DEF R
<1>5. CASE \E a, b, c : InnerLoops = <<a, b, c>>
  <2>1. PICK a, b, c : InnerLoops = <<a, b, c>>
    BY <1>5
  <2>2. InnerLoops \in Seq({a, b, c, R})
    BY <1>2, <2>1
  <2> QED BY <2>2 DEF R
<1> QED BY <1>3, <1>4, <1>5

LEMMA MatrixWhole ==
  ASSUME ConfigInv, MatrixInv, stage = "written"
  PROVE  LET loops == <<Rounds(command, config)>> \o InnerLoops
             Measured(point) == {row \in rows : <<row.round>> \o row.point = point} IN
         /\ Cardinality(rows) = Cardinality(TurnsOf(loops))
         /\ \A f \in TurnsOf(loops) :
              Cardinality(Measured(At(loops, f)))
                = Cardinality({g \in TurnsOf(loops) : At(loops, g) = At(loops, f)})
<1> DEFINE L == InnerLoops
           R == Rounds(command, config)
           loops == <<R>> \o L
           B == [row \in rows |-> Turn(row, L)]
           Measured(point) == {row \in rows : <<row.round>> \o row.point = point}
<1>1. PICK X : L \in Seq(X) /\ R \in X
  BY InnerSeq
<1>2. /\ Listed(L) /\ Len(R) \in Nat /\ DOMAIN R = 1 .. Len(R)
      /\ Booked(rows, Len(R) * Size(L), R, L)
  BY LoopsListed, AllTaken
<1> HIDE DEF L, R
<1>3. \A row \in rows : /\ B[row] \in TurnsOf(loops)
                        /\ At(loops, B[row]) = <<row.round>> \o row.point
  <2> TAKE row \in rows
  <2> QED BY <1>1, <1>2, RowTurns
<1>4. /\ \A a, b \in rows : B[a] = B[b] => a = b
      /\ \A f \in TurnsOf(loops) : \E row \in rows : B[row] = f
  <2>1. /\ \A a, b \in rows : Turn(a, L) = Turn(b, L) => a = b
        /\ \A f \in TurnsOf(<<R>> \o L) : \E row \in rows : Turn(row, L) = f
    BY <1>1, <1>2, TurnsBijection
  <2> QED BY <2>1
<1>5. IsFiniteSet(rows)
  BY <1>2 DEF Booked
<1> HIDE DEF loops, B
<1>6. Cardinality(rows) = Cardinality(TurnsOf(loops))
  BY <1>3, <1>4, <1>5, SameCount
<1>7. ASSUME NEW f \in TurnsOf(loops)
      PROVE  Cardinality(Measured(At(loops, f)))
               = Cardinality({g \in TurnsOf(loops) : At(loops, g) = At(loops, f)})
  <2> DEFINE S == Measured(At(loops, f))
             T == {g \in TurnsOf(loops) : At(loops, g) = At(loops, f)}
  <2>1. IsFiniteSet(S)
    <3>1. S \in SUBSET rows
      OBVIOUS
    <3> QED BY <1>5, <3>1, FS_Subset
  <2>2. /\ \A a \in S : B[a] \in T
        /\ \A a, b \in S : B[a] = B[b] => a = b
        /\ \A t \in T : \E a \in S : B[a] = t
    BY <1>3, <1>4
  <2> HIDE DEF S, T
  <2>3. Cardinality(S) = Cardinality(T)
    BY <2>1, <2>2, SameCount
  <2> QED BY <2>3 DEF S, T
<1> QED BY <1>6, <1>7 DEF loops, R, L

\* A report that is complete has a row for each combination of the values of
\* the lists, as often as they name it, and no other, for any lists; a command
\* that succeeds has written it (cli.rs:275, overload.rs:170, rust_pps.rs:103,
\* nginx_pps.rs:158, h2load_rate.rs:148).
THEOREM WholeMatrixCorrect == Safety => []WholeMatrix
<1>1. ConfigInv /\ MatrixInv /\ EndInv => WholeMatrix
  <2> SUFFICES ASSUME ConfigInv, MatrixInv, EndInv PROVE WholeMatrix
    OBVIOUS
  <2>1. status = "ok" => report = "whole"
    BY DEF EndInv
  <2>2. CASE stage = "written"
    <3> DEFINE loops == <<Rounds(command, config)>> \o InnerLoops
               Measured(point) == {row \in rows : <<row.round>> \o row.point = point}
    <3>1. /\ Cardinality(rows) = Cardinality(TurnsOf(loops))
          /\ \A f \in TurnsOf(loops) :
               Cardinality(Measured(At(loops, f)))
                 = Cardinality({g \in TurnsOf(loops) : At(loops, g) = At(loops, f)})
      BY <2>2, MatrixWhole
    <3> QED BY <2>1, <3>1, Zenon DEF WholeMatrix, TurnsOf, At
  <2> QED BY <2>1, <2>2 DEF WholeMatrix
<1>2. Init => EndInv
  BY EndInit
<1> QED BY <1>1, <1>2, EndNext, Invariants, PTL DEF Safety

-----------------------------------------------------------------------------
(***************************************************************************)
(* The verdict.                                                            *)
(***************************************************************************)
\* Rows of the two modes with the same load and repeat.
Rival(a, r) ==
  /\ Variant(a.point) = "App503" /\ Variant(r.point) = "Reset"
  /\ Front(a.point) = Front(r.point) /\ a.round = r.round

\* A report of the overload command, no value named twice.
Reported ==
  ConfigInv /\ MatrixInv /\ stage = "written" /\ command = "overload" /\ Named

LEMMA OverloadLoops ==
  ASSUME Reported
  PROVE  /\ Listed(InnerLoops) /\ Len(InnerLoops) = 4
         /\ \A i \in 1 .. 4 : IsInjective(InnerLoops[i])
         /\ InnerLoops[4] = config.modes /\ Len(config.modes) \in Nat
         /\ \A i \in 1 .. Len(config.modes) : config.modes[i] \in {"App503", "Reset"}
         /\ Len(Rounds(command, config)) \in Nat \ {0}
         /\ \A i \in 1 .. Len(Rounds(command, config)) : Rounds(command, config)[i] = i
<1>1. /\ Listed(InnerLoops) /\ IsInjective(InnerLoops[Len(InnerLoops)])
      /\ Len(Rounds(command, config)) \in Nat \ {0}
  BY LoopsListed DEF Reported
<1>2. Len(InnerLoops) = 4 /\ InnerLoops[4] = config.modes
  BY DEF Reported, InnerLoops, Loops, overload_loops
<1>3. \A i \in 1 .. 4 : IsInjective(InnerLoops[i])
  <2>1. \A i \in 1 .. 4 : i \in 1 .. 3 \/ i = 4
    OBVIOUS
  <2> QED BY <1>1, <1>2, <2>1 DEF Reported, Named
<1>4. Fits("modes", config.modes) /\ Fits("count", config.repeats)
  BY DEF Reported, ConfigInv, OptionsOf, OverloadOptions
<1>5. Len(config.modes) \in Nat
      /\ \A i \in 1 .. Len(config.modes) : config.modes[i] \in {"App503", "Reset"}
  <2> DEFINE both == {"App503", "Reset"}
  <2>1. config.modes \in Seq(both)
    BY <1>4 DEF Fits
  <2> HIDE DEF both
  <2>2. Len(config.modes) \in Nat /\ \A i \in 1 .. Len(config.modes) : config.modes[i] \in both
    BY <2>1
  <2> QED BY <2>2 DEF both
<1>6. config.repeats[1] \in Nat \ {0}
  BY <1>4, FitListed
<1>7. Rounds(command, config) = UpTo(config.repeats[1])
  BY DEF Reported, Rounds
<1>8. \A i \in 1 .. Len(Rounds(command, config)) : Rounds(command, config)[i] = i
  BY <1>6, <1>7, UpToListed
<1> QED BY <1>1, <1>2, <1>3, <1>5, <1>8

\* The coordinates of a row.
LEMMA RowPoint ==
  ASSUME Reported, NEW row \in rows
  PROVE  /\ row.point = [i \in 1 .. 4 |-> row.point[i]]
         /\ Variant(row.point) = row.point[4]
         /\ \E i \in 1 .. Len(config.modes) : row.point[4] = config.modes[i]
<1> DEFINE L == InnerLoops
           R == Rounds(command, config)
           k == PlaceOf(row.nr, L)
<1>1. /\ Listed(L) /\ Len(L) = 4 /\ Len(R) \in Nat /\ Booked(rows, Len(R) * Size(L), R, L)
      /\ L[4] = config.modes
  BY OverloadLoops, AllTaken DEF Reported
<1> HIDE DEF L, R
<1>2. k \in Nat /\ row.point = Point(L, k)
  BY <1>1, RowPlaces
<1> HIDE DEF k
<1>3. row.point = [i \in 1 .. 4 |-> row.point[i]]
  BY <1>1, <1>2 DEF Point
<1>4. Len(row.point) = 4
  BY <1>1, <1>2, PointSeq
<1>5. row.point[4] = L[4][Digit(L, k, 4) + 1] /\ Digit(L, k, 4) \in Nat /\ Digit(L, k, 4) < Len(L[4])
  <2>1. 4 \in 1 .. Len(L)
    BY <1>1
  <2>2. row.point[4] = L[4][Digit(L, k, 4) + 1]
    BY <1>2, <2>1, PointIs
  <2>3. Digit(L, k, 4) \in Nat /\ Digit(L, k, 4) < Len(L[4])
    BY <1>1, <1>2, <2>1, Digits
  <2> QED BY <2>2, <2>3
<1>6. Digit(L, k, 4) + 1 \in 1 .. Len(L[4])
  <2>1. Len(L[4]) \in Nat
    BY <1>1 DEF Listed
  <2> QED BY <1>5, <2>1
<1> QED BY <1>1, <1>3, <1>4, <1>5, <1>6 DEF Variant, Last

LEMMA SameFront ==
  ASSUME Reported, NEW a \in rows, NEW b \in rows
  PROVE  Front(a.point) = Front(b.point) <=> \A i \in 1 .. 3 : a.point[i] = b.point[i]
<1> DEFINE p == a.point
           q == b.point
<1>1. p = [i \in 1 .. 4 |-> p[i]] /\ q = [i \in 1 .. 4 |-> q[i]]
  BY RowPoint
<1> HIDE DEF p, q
<1>2. Len(p) = 4 /\ Len(q) = 4
  BY <1>1, IsSequence
<1>3. Front(p) = [i \in 1 .. 3 |-> p[i]] /\ Front(q) = [i \in 1 .. 3 |-> q[i]]
  <2>1. \A s : SubSeq(s, 1, 3) = [i \in 1 .. 3 |-> s[i]]
    BY DEF SubSeq
  <2> QED BY <1>2, <2>1 DEF Front
<1>4. Front(p) = Front(q) <=> \A i \in 1 .. 3 : p[i] = q[i]
  BY <1>3
<1> QED BY <1>4 DEF p, q

\* Load, repeat and mode are of one row only.
LEMMA OneRow ==
  ASSUME Reported, NEW a \in rows, NEW b \in rows, key(a) = key(b), a.point[4] = b.point[4]
  PROVE  a = b
<1> DEFINE L == InnerLoops
           R == Rounds(command, config)
           k == PlaceOf(a.nr, L)
           l == PlaceOf(b.nr, L)
<1>1. /\ Listed(L) /\ Len(L) = 4 /\ Len(R) \in Nat /\ Booked(rows, Len(R) * Size(L), R, L)
      /\ \A i \in 1 .. 4 : IsInjective(L[i])
      /\ \A j \in 1 .. Len(R) : R[j] = j
  BY OverloadLoops, AllTaken DEF Reported
<1> HIDE DEF L, R
<1>2. /\ k \in Nat /\ k < Size(L) /\ l \in Nat /\ l < Size(L)
      /\ a.nr \in Nat \ {0} /\ b.nr \in Nat \ {0}
      /\ RoundOf(a.nr, L) \in 1 .. Len(R) /\ RoundOf(b.nr, L) \in 1 .. Len(R)
      /\ a.round = R[RoundOf(a.nr, L)] /\ b.round = R[RoundOf(b.nr, L)]
      /\ a.point = Point(L, k) /\ b.point = Point(L, l)
  BY <1>1, RowPlaces
<1>3. a.round = b.round /\ \A i \in 1 .. 4 : a.point[i] = b.point[i]
  <2>1. /\ a.point[1] = b.point[1] /\ a.point[2] = b.point[2] /\ a.point[3] = b.point[3]
        /\ a.round = b.round
    BY DEF key
  <2>2. \A i \in 1 .. 4 : i = 1 \/ i = 2 \/ i = 3 \/ i = 4
    OBVIOUS
  <2> QED BY <2>1, <2>2
<1>4. a.point = b.point
  <2>1. a.point = [i \in 1 .. 4 |-> a.point[i]] /\ b.point = [i \in 1 .. 4 |-> b.point[i]]
    BY RowPoint
  <2> QED BY <1>3, <2>1
<1>5. k = l
  <2> HIDE DEF k, l
  <2> QED BY <1>1, <1>2, <1>4, PointsDiffer
<1>6. RoundOf(a.nr, L) = RoundOf(b.nr, L)
  <2>1. R[RoundOf(a.nr, L)] = RoundOf(a.nr, L) /\ R[RoundOf(b.nr, L)] = RoundOf(b.nr, L)
    BY <1>1, <1>2
  <2> QED BY <1>2, <1>3, <2>1
<1>7. a.nr = (RoundOf(a.nr, L) - 1) * Size(L) + k + 1
      /\ b.nr = (RoundOf(b.nr, L) - 1) * Size(L) + l + 1
  BY <1>1, <1>2, Places
<1> HIDE DEF k, l
<1>8. a.nr = b.nr
  BY <1>5, <1>6, <1>7
<1> QED BY <1>1, <1>8 DEF Booked

LEMMA RivalsCompared ==
  ASSUME Reported, NEW a \in rows, NEW r \in rows
  PROVE  Rival(a, r) <=> [app503 |-> a, reset |-> r] \in overload_comparisons(rows)
<1>1. \A row, later \in rows : key(row) = key(later) /\ row.point[4] = later.point[4] => row = later
  BY OneRow
<1>2. \A row \in rows : row.nr \in Nat
  <2> DEFINE T == Len(Rounds(command, config)) * Size(InnerLoops)
  <2>1. Booked(rows, T, Rounds(command, config), InnerLoops)
    BY AllTaken DEF Reported
  <2> HIDE DEF T
  <2>2. \A n \in 1 .. T : n \in Nat
    OBVIOUS
  <2> QED BY <2>1, <2>2 DEF Booked
<1>3. \A m : Inserted(rows, m) = {row \in rows : row.point[4] = m}
  BY <1>1, <1>2 DEF Inserted
<1>4. Rival(a, r) <=> a.point[4] = "App503" /\ r.point[4] = "Reset" /\ key(a) = key(r)
  <2>1. key(a) = key(r) <=> (\A i \in 1 .. 3 : a.point[i] = r.point[i]) /\ a.round = r.round
    <3>1. key(a) = key(r)
            <=> /\ a.point[1] = r.point[1] /\ a.point[2] = r.point[2] /\ a.point[3] = r.point[3]
                /\ a.round = r.round
      BY DEF key
    <3>2. \A i \in 1 .. 3 : i = 1 \/ i = 2 \/ i = 3
      OBVIOUS
    <3>3. 1 \in 1 .. 3 /\ 2 \in 1 .. 3 /\ 3 \in 1 .. 3
      OBVIOUS
    <3> QED BY <3>1, <3>2, <3>3
  <2>2. Variant(a.point) = a.point[4] /\ Variant(r.point) = r.point[4]
    BY RowPoint
  <2> QED BY <2>1, <2>2, SameFront DEF Rival
<1> DEFINE pair == [app503 |-> a, reset |-> r]
<1>5. pair.app503 = a /\ pair.reset = r
  OBVIOUS
<1>6. pair \in [app503 : Inserted(rows, "App503"), reset : Inserted(rows, "Reset")]
        <=> a \in Inserted(rows, "App503") /\ r \in Inserted(rows, "Reset")
  OBVIOUS
<1> HIDE DEF pair
<1>7. pair \in overload_comparisons(rows)
        <=> /\ a \in Inserted(rows, "App503") /\ r \in Inserted(rows, "Reset")
            /\ key(a) = key(r)
  BY <1>5, <1>6 DEF overload_comparisons
<1> QED BY <1>3, <1>4, <1>7 DEF pair

\* With both modes there are two rows to compare, and with one there are none.
LEMMA RivalsExist ==
  ASSUME Reported
  PROVE  (\E a, r \in rows : Rival(a, r)) <=> Len(config.modes) = 2
<1> DEFINE L == InnerLoops
           R == Rounds(command, config)
           M == config.modes
           s == Size(L)
<1>1. /\ Listed(L) /\ Len(L) = 4 /\ Len(R) \in Nat \ {0} /\ Booked(rows, Len(R) * s, R, L)
      /\ L[4] = M /\ Len(M) \in Nat /\ DOMAIN M = 1 .. Len(M) /\ IsInjective(M)
      /\ \A i \in 1 .. Len(M) : M[i] \in {"App503", "Reset"}
  <2>1. DOMAIN L[4] = 1 .. Len(L[4]) /\ IsInjective(L[4])
    BY OverloadLoops DEF Listed
  <2> QED BY <2>1, OverloadLoops, AllTaken DEF Reported
<1>2. ASSUME NEW a \in rows, NEW r \in rows, Rival(a, r) PROVE Len(M) = 2
  <2>1. PICK i \in 1 .. Len(M) : a.point[4] = M[i]
    BY RowPoint
  <2>2. PICK j \in 1 .. Len(M) : r.point[4] = M[j]
    BY RowPoint
  <2>3. M[i] = "App503" /\ M[j] = "Reset"
    BY <1>2, <2>1, <2>2, RowPoint DEF Rival
  <2> HIDE DEF M
  <2>4. i # j /\ Len(M) >= 2
    <3>1. i # j
      BY <2>3
    <3> QED BY <1>1, <3>1
  <2>5. ~(Len(M) >= 3)
    <3> SUFFICES ASSUME Len(M) >= 3 PROVE FALSE
      OBVIOUS
    <3>1. 1 \in 1 .. Len(M) /\ 2 \in 1 .. Len(M) /\ 3 \in 1 .. Len(M)
      BY <1>1
    <3>2. M[1] # M[2] /\ M[2] # M[3] /\ M[1] # M[3]
      BY <1>1, <3>1 DEF IsInjective
    <3> QED BY <1>1, <3>1, <3>2
  <2> QED BY <1>1, <2>4, <2>5
<1>3. ASSUME Len(M) = 2 PROVE \E a, r \in rows : Rival(a, r)
  <2>1. M[1] \in {"App503", "Reset"} /\ M[2] \in {"App503", "Reset"} /\ M[1] # M[2]
    <3> HIDE DEF M
    <3>1. 1 \in 1 .. Len(M) /\ 2 \in 1 .. Len(M)
      BY <1>3
    <3> QED BY <1>1, <3>1 DEF IsInjective
  <2>2. PICK i \in {1, 2}, j \in {1, 2} : M[i] = "App503" /\ M[j] = "Reset"
    BY <2>1
  <2>3. ASSUME NEW m \in {1, 2}
        PROVE  \E row \in rows : /\ row.round = R[1] /\ row.point[4] = M[m]
                                 /\ \A c \in 1 .. 3 : row.point[c] = L[c][1]
    <3> HIDE DEF M, L, R, s
    <3> DEFINE f == [c \in 1 .. 4 |-> IF c = 4 THEN m ELSE 1]
    <3>1. \A c \in 1 .. Len(L) : f[c] \in 1 .. Len(L[c])
      <4> TAKE c \in 1 .. Len(L)
      <4>1. Len(L[c]) \in Nat \ {0} /\ c \in 1 .. 4
        BY <1>1 DEF Listed
      <4>2. CASE c = 4
        <5>1. Len(L[4]) = 2 /\ f[4] = m
          BY <1>1, <1>3
        <5> QED BY <4>2, <5>1
      <4>3. CASE c # 4
        BY <4>1, <4>3
      <4> QED BY <4>2, <4>3
    <3> HIDE DEF f
    <3>2. PICK k \in Nat : k < Size(L) /\ \A c \in 1 .. Len(L) : Digit(L, k, c) + 1 = f[c]
      <4>1. Listed(L)
        BY <1>1
      <4>2. \E k \in Nat : k < Size(L) /\ \A c \in 1 .. Len(L) : Digit(L, k, c) + 1 = f[c]
        BY <3>1, <4>1, TurnsCome
      <4> QED BY <4>2
    <3> DEFINE n == (1 - 1) * s + k + 1
    <3>3. s \in Nat \ {0} /\ 1 \in 1 .. Len(R) /\ Len(R) \in Nat
      BY <1>1, SizePositive DEF s
    <3>4. n \in 1 .. (Len(R) * s)
      BY <3>2, <3>3, NumberIn DEF s
    <3>5. RoundOf(n, L) = 1 /\ PlaceOf(n, L) = k
      BY <1>1, <3>2, Numbered DEF s
    <3> HIDE DEF n
    <3>6. PICK row \in rows : row.nr = n
      BY <1>1, <3>4 DEF Booked
    <3>7. row.round = R[1] /\ row.point = Point(L, k)
      BY <1>1, <3>5, <3>6 DEF Booked
    <3>8. \A c \in 1 .. Len(L) : row.point[c] = L[c][f[c]]
      BY <3>2, <3>7, PointIs
    <3>9. f[4] = m /\ 4 \in 1 .. Len(L) /\ \A c \in 1 .. 3 : c \in 1 .. Len(L) /\ f[c] = 1
      BY <1>1 DEF f
    <3> QED BY <1>1, <3>7, <3>8, <3>9
  <2>4. PICK a \in rows : /\ a.round = R[1] /\ a.point[4] = M[i]
                          /\ \A c \in 1 .. 3 : a.point[c] = L[c][1]
    BY <2>3
  <2>5. PICK r \in rows : /\ r.round = R[1] /\ r.point[4] = M[j]
                          /\ \A c \in 1 .. 3 : r.point[c] = L[c][1]
    BY <2>3
  <2>6. Front(a.point) = Front(r.point)
    BY <2>4, <2>5, SameFront
  <2>7. Rival(a, r)
    <3>1. Variant(a.point) = a.point[4] /\ Variant(r.point) = r.point[4]
      BY RowPoint
    <3> QED BY <2>2, <2>4, <2>5, <2>6, <3>1 DEF Rival
  <2> QED BY <2>7
<1> QED BY <1>2, <1>3

\* The summary says that the claim is supported exactly if both modes were
\* measured and reset was better in every pair of the same load and repeat,
\* whatever was measured, for any lists that name no value twice
\* (overload.rs:1094, 1145).
THEOREM VerdictCorrect == Safety => []VerdictFollows
<1>1. ConfigInv /\ MatrixInv /\ EndInv => VerdictFollows
  <2> SUFFICES ASSUME ConfigInv, MatrixInv, EndInv, command = "overload", stage = "written", Named
               PROVE  verdict <=> /\ Len(config.modes) = 2
                                  /\ \A a, r \in rows :
                                       Rival(a, r) => Better(r.outcome, a.outcome)
    BY Zenon DEF VerdictFollows, Named, Rival
  <2>1. Reported
    BY DEF Reported
  <2>2. verdict <=> overload_claim_supported(rows)
    BY DEF EndInv
  <2>3. \A a, r \in rows : Rival(a, r) <=> [app503 |-> a, reset |-> r] \in overload_comparisons(rows)
    BY <2>1, RivalsCompared
  <2>4. \A pair \in overload_comparisons(rows) :
          /\ pair = [app503 |-> pair.app503, reset |-> pair.reset]
          /\ pair.app503 \in rows /\ pair.reset \in rows
    BY DEF overload_comparisons, Inserted
  <2>5. overload_comparisons(rows) # {} <=> \E a, r \in rows : Rival(a, r)
    <3>1. ASSUME NEW pair \in overload_comparisons(rows) PROVE \E a, r \in rows : Rival(a, r)
      <4>1. /\ Rival(pair.app503, pair.reset) /\ pair.app503 \in rows /\ pair.reset \in rows
        BY <2>3, <2>4
      <4> QED BY <4>1
    <3>2. ASSUME NEW a \in rows, NEW r \in rows, Rival(a, r) PROVE overload_comparisons(rows) # {}
      BY <2>3, <3>2
    <3> QED BY <3>1, <3>2
  <2>6. (\A pair \in overload_comparisons(rows) : Better(pair.reset.outcome, pair.app503.outcome))
          <=> \A a, r \in rows : Rival(a, r) => Better(r.outcome, a.outcome)
    <3>1. \A a, r : /\ [app503 |-> a, reset |-> r].app503 = a
                    /\ [app503 |-> a, reset |-> r].reset = r
      OBVIOUS
    <3>2. ASSUME \A pair \in overload_comparisons(rows) :
                   Better(pair.reset.outcome, pair.app503.outcome),
                 NEW a \in rows, NEW r \in rows, Rival(a, r)
          PROVE  Better(r.outcome, a.outcome)
      <4> DEFINE pair == [app503 |-> a, reset |-> r]
      <4>1. pair \in overload_comparisons(rows) /\ pair.app503 = a /\ pair.reset = r
        BY <2>3, <3>1, <3>2
      <4> HIDE DEF pair
      <4> QED BY <3>2, <4>1
    <3>3. ASSUME \A a, r \in rows : Rival(a, r) => Better(r.outcome, a.outcome),
                 NEW pair \in overload_comparisons(rows)
          PROVE  Better(pair.reset.outcome, pair.app503.outcome)
      <4>1. Rival(pair.app503, pair.reset) /\ pair.app503 \in rows /\ pair.reset \in rows
        BY <2>3, <2>4
      <4> QED BY <3>3, <4>1
    <3> QED BY <3>2, <3>3
  <2>7. (\E a, r \in rows : Rival(a, r)) <=> Len(config.modes) = 2
    BY <2>1, RivalsExist
  <2> QED BY <2>2, <2>5, <2>6, <2>7 DEF overload_claim_supported
<1>2. Init => EndInv
  BY EndInit
<1> QED BY <1>1, <1>2, EndNext, Invariants, PTL DEF Safety

-----------------------------------------------------------------------------
(***************************************************************************)
(* The interleaving.                                                       *)
(***************************************************************************)
\* The place of another transport at the same turns of the loops around it.
Beside(L, k, w) == (k \div Len(L[Len(L)])) * Len(L[Len(L)]) + w

LEMMA SameLoad ==
  ASSUME NEW L, Listed(L), Len(L) # 0, NEW k \in Nat, k < Size(L),
         NEW w \in Nat, w < Len(L[Len(L)])
  PROVE  /\ Beside(L, k, w) \in Nat /\ Beside(L, k, w) < Size(L)
         /\ Digit(L, Beside(L, k, w), Len(L)) = w
         /\ \A i \in 1 .. Len(L) - 1 : Digit(L, Beside(L, k, w), i) = Digit(L, k, i)
         /\ k \div Len(L[Len(L)]) \in Nat
         /\ k = (k \div Len(L[Len(L)])) * Len(L[Len(L)]) + Digit(L, k, Len(L))
<1> DEFINE N == Len(L)
           P == Len(L[N])
           s == Stride(L)
           e == k \div P
           l == e * P + w
<1>1. N \in Nat \ {0} /\ N \in 1 .. N /\ P \in Nat \ {0} /\ s[N] = 1 /\ s[N - 1] = P
  <2>1. N \in Nat \ {0} /\ N \in 1 .. N
    BY DEF Listed
  <2>2. P \in Nat \ {0}
    BY <2>1 DEF Listed
  <2>3. s[N] = 1 /\ s[N - 1] = P * s[N]
    BY <2>1, StrideFacts
  <2> HIDE DEF P, s
  <2>4. P * 1 = P
    BY <2>2
  <2> QED BY <2>1, <2>2, <2>3, <2>4
<1> HIDE DEF P, s
<1>2. e \in Nat /\ k % P \in Nat /\ k = e * P + (k % P)
  BY <1>1, Divided
<1> HIDE DEF e
<1>3. l \in Nat /\ l \div P = e /\ l % P = w
  <2>1. w < P
    BY DEF P
  <2>2. l \in Nat
    BY <1>1, <1>2
  <2>3. (e * P + w) \div P = e /\ (e * P + w) % P = w
    <3>1. P \in Nat \ {0} /\ e \in Nat
      BY <1>1, <1>2
    <3> QED BY <2>1, <3>1, DivideIs
  <2> QED BY <2>2, <2>3
<1> HIDE DEF l
<1>4. Digit(L, l, N) = w /\ Digit(L, k, N) = k % P
  <2>1. l \div s[N] = l /\ k \div s[N] = k
    BY <1>3, Digits DEF s, N
  <2> QED BY <1>3, <2>1 DEF Digit, s, P
<1> DEFINE T == {m \in Nat : m <= N - 1 => l \div s[(N - 1) - m] = k \div s[(N - 1) - m]}
<1>5. 0 \in T /\ T \in SUBSET Nat
  <2>1. (N - 1) - 0 = N - 1
    BY <1>1
  <2>2. l \div s[N - 1] = k \div s[N - 1]
    BY <1>1, <1>3 DEF e
  <2> QED BY <2>1, <2>2
<1>6. ASSUME NEW m \in T, m < N - 1 PROVE m + 1 \in T
  <2> DEFINE j == (N - 1) - m
  <2>1. j \in 1 .. N /\ (N - 1) - (m + 1) = j - 1
    BY <1>1, <1>6
  <2>2. l \div s[j] = k \div s[j]
    BY <1>1, <1>6
  <2> HIDE DEF j
  <2>3. /\ l \div s[j - 1] = (l \div s[j]) \div Len(L[j])
        /\ k \div s[j - 1] = (k \div s[j]) \div Len(L[j])
    BY <1>3, <2>1, Digits DEF s, N
  <2>4. l \div s[(N - 1) - (m + 1)] = k \div s[(N - 1) - (m + 1)]
    BY <2>1, <2>2, <2>3
  <2> QED BY <2>4
<1> HIDE DEF T
<1>7. 0 .. (N - 1) \subseteq T
  <2>1. N - 1 \in Nat
    BY <1>1
  <2> QED BY <1>5, <1>6, <2>1, Climb
<1>8. ASSUME NEW i \in 0 .. (N - 1) PROVE l \div s[i] = k \div s[i]
  <2>1. (N - 1) - i \in T /\ (N - 1) - i <= N - 1 /\ (N - 1) - ((N - 1) - i) = i
    BY <1>1, <1>7
  <2> QED BY <2>1 DEF T
<1>9. l < Size(L)
  <2>1. k \div s[0] = 0
    BY Digits DEF s
  <2>2. l \div s[0] = 0
    BY <1>1, <1>8, <2>1
  <2> QED BY <1>3, <2>2, Digits DEF s
<1>10. \A i \in 1 .. N - 1 : Digit(L, l, i) = Digit(L, k, i)
  BY <1>1, <1>8 DEF Digit, s
<1>11. Beside(L, k, w) = l
  BY DEF Beside, l, e, P, N
<1> QED BY <1>2, <1>3, <1>4, <1>9, <1>10, <1>11 DEF e, P, N

LEMMA Before ==
  ASSUME NEW s \in Nat \ {0}, NEW P \in Nat \ {0}, NEW q \in Nat \ {0}, NEW q2 \in Nat \ {0},
         NEW e \in Nat, NEW e2 \in Nat, NEW d \in Nat, NEW w \in Nat, w < P, e * P + w < s,
         q < q2 \/ (q = q2 /\ e < e2)
  PROVE  (q - 1) * s + (e * P + w) + 1 <= (q2 - 1) * s + (e2 * P + d) + 1
<1>1. (q - 1) * s \in Nat /\ (q2 - 1) * s \in Nat /\ e * P \in Nat /\ e2 * P \in Nat
  <2>1. q - 1 \in Nat /\ q2 - 1 \in Nat
    OBVIOUS
  <2>2. \A a, b \in Nat : a * b \in Nat
    OBVIOUS
  <2> QED BY <2>1, <2>2
<1>2. CASE q < q2
  <2>1. q * s <= (q2 - 1) * s
    <3>1. \A a, b \in Nat : a <= b => a * s <= b * s
      OBVIOUS
    <3>2. q2 - 1 \in Nat /\ q <= q2 - 1
      BY <1>2
    <3> QED BY <3>1, <3>2
  <2>2. q * s = (q - 1) * s + s
    OBVIOUS
  <2> QED BY <1>1, <2>1, <2>2
<1>3. CASE q = q2 /\ e < e2
  <2>1. (e + 1) * P <= e2 * P
    <3>1. \A a, b \in Nat : a <= b => a * P <= b * P
      OBVIOUS
    <3> QED BY <1>3, <3>1
  <2>2. (e + 1) * P = e * P + P
    OBVIOUS
  <2> QED BY <1>1, <1>3, <2>1, <2>2
<1> QED BY <1>2, <1>3

\* The number of the row of transport w beside the n-th measurement.
Mate(n, L, w) == (RoundOf(n, L) - 1) * Size(L) + Beside(L, PlaceOf(n, L), w) + 1

LEMMA MatePlace ==
  ASSUME NEW L, Listed(L), Len(L) # 0, NEW n \in Nat \ {0}, NEW w \in Nat, w < Len(L[Len(L)])
  PROVE  /\ Mate(n, L, w) \in Nat \ {0}
         /\ RoundOf(Mate(n, L, w), L) = RoundOf(n, L)
         /\ PlaceOf(Mate(n, L, w), L) = Beside(L, PlaceOf(n, L), w)
<1> DEFINE q == RoundOf(n, L)
           k == PlaceOf(n, L)
           l == Beside(L, k, w)
<1>1. q \in Nat \ {0} /\ k \in Nat /\ k < Size(L)
  BY Places
<1>2. l \in Nat /\ l < Size(L)
  BY <1>1, SameLoad
<1> HIDE DEF q, k, l
<1>3. /\ (q - 1) * Size(L) + l \in Nat
      /\ RoundOf((q - 1) * Size(L) + l + 1, L) = q
      /\ PlaceOf((q - 1) * Size(L) + l + 1, L) = l
  BY <1>1, <1>2, Numbered
<1>4. Mate(n, L, w) = (q - 1) * Size(L) + l + 1
  BY DEF Mate, q, l, k
<1> QED BY <1>3, <1>4 DEF q, l, k

\* Of two measurements of one transport, the mate of one comes before the other.
LEMMA MatesBefore ==
  ASSUME NEW L, Listed(L), Len(L) # 0, NEW a \in Nat \ {0}, NEW b \in Nat \ {0}, a # b,
         Digit(L, PlaceOf(a, L), Len(L)) = Digit(L, PlaceOf(b, L), Len(L)),
         NEW w \in Nat, w < Len(L[Len(L)])
  PROVE  Mate(a, L, w) <= b \/ Mate(b, L, w) <= a
<1> DEFINE s == Size(L)
           P == Len(L[Len(L)])
           qa == RoundOf(a, L)
           qb == RoundOf(b, L)
           ka == PlaceOf(a, L)
           kb == PlaceOf(b, L)
           ea == ka \div P
           eb == kb \div P
           d == Digit(L, ka, Len(L))
<1>1. s \in Nat \ {0} /\ P \in Nat \ {0}
  <2>1. Len(L) \in 1 .. Len(L)
    BY DEF Listed
  <2> QED BY <2>1, SizePositive DEF Listed
<1>2. /\ qa \in Nat \ {0} /\ ka \in Nat /\ ka < s /\ a = (qa - 1) * s + ka + 1
      /\ qb \in Nat \ {0} /\ kb \in Nat /\ kb < s /\ b = (qb - 1) * s + kb + 1
  BY Places
<1>3. /\ ea \in Nat /\ ka = ea * P + d /\ ea * P + w < s /\ Mate(a, L, w) = (qa - 1) * s + (ea * P + w) + 1
      /\ d \in Nat
  <2>1. Len(L) \in 1 .. Len(L)
    BY DEF Listed
  <2>2. d \in Nat
    BY <1>2, <2>1, Digits
  <2>3. /\ Beside(L, ka, w) < Size(L) /\ ka \div Len(L[Len(L)]) \in Nat
        /\ ka = (ka \div Len(L[Len(L)])) * Len(L[Len(L)]) + Digit(L, ka, Len(L))
    BY <1>2, SameLoad
  <2> QED BY <2>2, <2>3, Zenon DEF Mate, Beside
<1>4. /\ eb \in Nat /\ kb = eb * P + d /\ eb * P + w < s /\ Mate(b, L, w) = (qb - 1) * s + (eb * P + w) + 1
  <2>1. /\ Beside(L, kb, w) < Size(L) /\ kb \div Len(L[Len(L)]) \in Nat
        /\ kb = (kb \div Len(L[Len(L)])) * Len(L[Len(L)]) + Digit(L, kb, Len(L))
    BY <1>2, SameLoad
  <2> QED BY <2>1, Zenon DEF Mate, Beside
<1>5. w < P
  OBVIOUS
<1>6. qa < qb \/ (qa = qb /\ ea < eb) \/ qb < qa \/ (qb = qa /\ eb < ea)
  <2> SUFFICES ASSUME qa = qb, ea = eb PROVE FALSE
    <3> HIDE DEF qa, qb, ea, eb
    <3> QED BY <1>2, <1>3, <1>4
  <2>1. ka = kb
    BY <1>3, <1>4, Zenon
  <2>2. a = b
    BY <1>2, <2>1, Zenon
  <2> QED BY <2>2
<1> DEFINE ma == Mate(a, L, w)
           mb == Mate(b, L, w)
<1> HIDE DEF s, P, qa, qb, ka, kb, ea, eb, d, ma, mb
<1>7. /\ a = (qa - 1) * s + (ea * P + d) + 1 /\ b = (qb - 1) * s + (eb * P + d) + 1
      /\ ma = (qa - 1) * s + (ea * P + w) + 1 /\ mb = (qb - 1) * s + (eb * P + w) + 1
  BY <1>2, <1>3, <1>4, Zenon DEF ma, mb
<1>8. CASE qa < qb \/ (qa = qb /\ ea < eb)
  <2>1. (qa - 1) * s + (ea * P + w) + 1 <= (qb - 1) * s + (eb * P + d) + 1
    BY <1>1, <1>2, <1>3, <1>4, <1>5, <1>8, Before
  <2>2. ma <= b
    BY <1>7, <2>1, Zenon
  <2> QED BY <2>2 DEF ma
<1>9. CASE qb < qa \/ (qb = qa /\ eb < ea)
  <2>1. (qb - 1) * s + (eb * P + w) + 1 <= (qa - 1) * s + (ea * P + d) + 1
    BY <1>1, <1>2, <1>3, <1>4, <1>5, <1>9, Before
  <2>2. mb <= a
    BY <1>7, <2>1, Zenon
  <2> QED BY <2>2 DEF mb
<1> QED BY <1>6, <1>8, <1>9

LEMMA MatesDiffer ==
  ASSUME NEW L, Listed(L), Len(L) # 0, NEW a \in Nat \ {0}, NEW b \in Nat \ {0},
         Digit(L, PlaceOf(a, L), Len(L)) = Digit(L, PlaceOf(b, L), Len(L)),
         NEW w \in Nat, w < Len(L[Len(L)]), Mate(a, L, w) = Mate(b, L, w)
  PROVE  a = b
<1> DEFINE P == Len(L[Len(L)])
           ka == PlaceOf(a, L)
           kb == PlaceOf(b, L)
           ea == ka \div P
           eb == kb \div P
           d == Digit(L, ka, Len(L))
<1>1. P \in Nat \ {0} /\ Len(L) \in 1 .. Len(L)
  BY DEF Listed
<1>2. RoundOf(a, L) = RoundOf(b, L) /\ Beside(L, ka, w) = Beside(L, kb, w)
  BY MatePlace
<1>3. /\ ka \in Nat /\ ka < Size(L) /\ a = (RoundOf(a, L) - 1) * Size(L) + ka + 1
      /\ kb \in Nat /\ kb < Size(L) /\ b = (RoundOf(b, L) - 1) * Size(L) + kb + 1
  BY Places
<1>4. ea \in Nat /\ ka = ea * P + d /\ eb \in Nat /\ kb = eb * P + d
  <2>1. /\ ka \div Len(L[Len(L)]) \in Nat
        /\ ka = (ka \div Len(L[Len(L)])) * Len(L[Len(L)]) + Digit(L, ka, Len(L))
    BY <1>3, SameLoad
  <2>2. /\ kb \div Len(L[Len(L)]) \in Nat
        /\ kb = (kb \div Len(L[Len(L)])) * Len(L[Len(L)]) + Digit(L, kb, Len(L))
    BY <1>3, SameLoad
  <2> QED BY <2>1, <2>2, Zenon
<1>5. ea * P + w = eb * P + w
  BY <1>2, Zenon DEF Beside
<1> HIDE DEF P, ea, eb, ka, kb, d
<1>6. ea * P = eb * P
  <2>1. ea * P \in Nat /\ eb * P \in Nat
    BY <1>1, <1>4
  <2> QED BY <1>5, <2>1
<1>7. ka = kb
  BY <1>4, <1>6, Zenon
<1> QED BY <1>2, <1>3, <1>7, Zenon

LEMMA OneMore ==
  ASSUME NEW A, IsFiniteSet(A), NEW B, IsFiniteSet(B), NEW x, NEW G,
         \A a \in A \ {x} : G[a] \in B,
         \A a, b \in A \ {x} : G[a] = G[b] => a = b
  PROVE  Cardinality(A) <= Cardinality(B) + 1
<1> DEFINE D == A \ {x}
           F == [a \in D |-> G[a]]
<1>1. F \in [D -> B] /\ \A a, b \in D : F[a] = F[b] => a = b
  OBVIOUS
<1>2. /\ IsFiniteSet(D)
      /\ Cardinality(D) = IF x \in A THEN Cardinality(A) - 1 ELSE Cardinality(A)
  BY FS_RemoveElement
<1> HIDE DEF D, F
<1>3. F \in Injection(D, B)
  BY <1>1, Fun_IsInj
<1>4. Cardinality(D) <= Cardinality(B)
  BY <1>3, FS_Injection
<1>5. Cardinality(A) \in Nat /\ Cardinality(B) \in Nat
  BY FS_CardinalityType
<1> QED BY <1>2, <1>4, <1>5

\* Where the transport of a row is in its list.
LEMMA RowVariant ==
  ASSUME ConfigInv, MatrixInv, NEW row \in rows
  PROVE  LET L == InnerLoops IN
         /\ row.nr \in Nat \ {0} /\ row.nr <= Taken
         /\ row.round = Rounds(command, config)[RoundOf(row.nr, L)]
         /\ row.point = Point(L, PlaceOf(row.nr, L))
         /\ PlaceOf(row.nr, L) \in Nat /\ PlaceOf(row.nr, L) < Size(L)
         /\ Digit(L, PlaceOf(row.nr, L), Len(L)) + 1 \in 1 .. Len(L[Len(L)])
         /\ Variant(row.point) = L[Len(L)][Digit(L, PlaceOf(row.nr, L), Len(L)) + 1]
<1> DEFINE L == InnerLoops
           k == PlaceOf(row.nr, L)
           N == Len(L)
<1>1. Listed(L) /\ N \in Nat \ {0} /\ N \in 1 .. N /\ Len(L[N]) \in Nat
  BY LoopsListed DEF Listed
<1>2. Taken \in Nat
  BY CountsRows, FS_CardinalityType DEF MatrixInv, Booked
<1>3. /\ row.nr \in 1 .. Taken /\ row.point = Point(L, k)
      /\ row.round = Rounds(command, config)[RoundOf(row.nr, L)]
  BY DEF MatrixInv, Booked
<1>4. row.nr \in Nat \ {0} /\ row.nr <= Taken
  BY <1>2, <1>3
<1> HIDE DEF L
<1>5. k \in Nat /\ k < Size(L)
  BY <1>1, <1>4, Places
<1> HIDE DEF k, N
<1>6. Digit(L, k, N) + 1 \in 1 .. Len(L[N])
  <2>1. Digit(L, k, N) \in Nat /\ Digit(L, k, N) < Len(L[N])
    BY <1>1, <1>5, Digits DEF N
  <2> QED BY <1>1, <2>1
<1>7. Variant(row.point) = L[N][Digit(L, k, N) + 1]
  <2>1. Len(row.point) = N
    BY <1>1, <1>3, <1>5, PointSeq DEF N
  <2>2. row.point[N] = L[N][Digit(L, k, N) + 1]
    BY <1>1, <1>3, <1>5, PointIs DEF N
  <2> QED BY <2>1, <2>2 DEF Variant, Last
<1> QED BY <1>3, <1>4, <1>5, <1>6, <1>7, Zenon DEF k, N, L

\* The mate of a row, once it is measured, has the row's load.
LEMMA MateLoad ==
  ASSUME ConfigInv, MatrixInv, NEW row \in rows, NEW w \in 1 .. Len(InnerLoops[Len(InnerLoops)]),
         NEW r \in rows, r.nr = Mate(row.nr, InnerLoops, w - 1)
  PROVE  Load(r) = Load(row) /\ Variant(r.point) = InnerLoops[Len(InnerLoops)][w]
<1> DEFINE L == InnerLoops
           N == Len(L)
           k == PlaceOf(row.nr, L)
           l == PlaceOf(r.nr, L)
<1>1. Listed(L) /\ N \in {3, 4} /\ N \in 1 .. N /\ Len(L[N]) \in Nat
  BY LoopsListed DEF Listed
<1>2. w - 1 \in Nat /\ w - 1 < Len(L[N]) /\ w - 1 + 1 = w
  BY <1>1
<1>3. /\ row.nr \in Nat \ {0} /\ k \in Nat /\ k < Size(L) /\ row.point = Point(L, k)
      /\ row.round = Rounds(command, config)[RoundOf(row.nr, L)]
      /\ l \in Nat /\ r.point = Point(L, l)
      /\ r.round = Rounds(command, config)[RoundOf(r.nr, L)]
      /\ Variant(r.point) = L[N][Digit(L, l, N) + 1]
  BY RowVariant
<1>4. RoundOf(r.nr, L) = RoundOf(row.nr, L) /\ l = Beside(L, k, w - 1)
  <2> HIDE DEF L
  <2>1. Len(L) # 0
    BY <1>1
  <2> QED BY <1>1, <1>2, <1>3, <2>1, MatePlace DEF L
<1> HIDE DEF L, l, k
<1>5. Digit(L, l, N) = w - 1 /\ \A i \in 1 .. N - 1 : Digit(L, l, i) = Digit(L, k, i)
  <2> DEFINE u == w - 1
  <2>1. /\ Listed(L) /\ Len(L) # 0 /\ k \in Nat /\ k < Size(L)
        /\ u \in Nat /\ u < Len(L[Len(L)])
    BY <1>1, <1>2, <1>3
  <2> HIDE DEF u
  <2>2. /\ Digit(L, Beside(L, k, u), Len(L)) = u
        /\ \A i \in 1 .. Len(L) - 1 : Digit(L, Beside(L, k, u), i) = Digit(L, k, i)
    BY <2>1, SameLoad
  <2> QED BY <1>4, <2>2, Zenon DEF u
<1>6. Variant(r.point) = L[N][w]
  BY <1>2, <1>3, <1>5
<1> HIDE DEF N
<1>7. \A i \in 1 .. N - 1 : r.point[i] = row.point[i]
  <2> TAKE i \in 1 .. N - 1
  <2>1. i \in 1 .. N
    BY <1>1
  <2>2. r.point[i] = L[i][Digit(L, l, i) + 1] /\ row.point[i] = L[i][Digit(L, k, i) + 1]
    BY <1>3, <2>1, PointIs DEF N
  <2> QED BY <1>5, <2>2
<1>8. Load(r) = Load(row)
  <2>1. CASE command = "bench"
    <3>1. N = 4
      BY <2>1 DEF N, L, InnerLoops, Loops, bench_loops
    <3>2. r.point[1] = row.point[1] /\ r.point[2] = row.point[2]
      BY <1>7, <3>1
    <3>3. r.round = row.round
      BY <1>3, <1>4
    <3> QED BY <2>1, <3>2, <3>3 DEF Load
  <2>2. CASE command # "bench"
    <3>1. Len(r.point) = N /\ Len(row.point) = N
      BY <1>1, <1>3, PointSeq DEF N
    <3>2. \A s : SubSeq(s, 1, N - 1) = [i \in 1 .. N - 1 |-> s[i]]
      <4>1. N - 1 \in Nat /\ N - 1 - 1 + 1 = N - 1
        BY <1>1
      <4> QED BY <1>1, <4>1 DEF SubSeq
    <3>3. Front(r.point) = [i \in 1 .. N - 1 |-> r.point[i]]
          /\ Front(row.point) = [i \in 1 .. N - 1 |-> row.point[i]]
      BY <3>1, <3>2 DEF Front
    <3>4. [i \in 1 .. N - 1 |-> r.point[i]] = [i \in 1 .. N - 1 |-> row.point[i]]
      BY <1>7
    <3> QED BY <2>2, <3>3, <3>4 DEF Load
  <2> QED BY <2>1, <2>2
<1> QED BY <1>6, <1>8 DEF L, N

\* The rows of a load and a transport.
Share(load, variant) == {row \in rows : Load(row) = load /\ Variant(row.point) = variant}

LEMMA SharesEven ==
  ASSUME ConfigInv, MatrixInv, NEW load, NEW v \in ToSet(Last(InnerLoops)),
         NEW w \in ToSet(Last(InnerLoops))
  PROVE  Cardinality(Share(load, v)) <= Cardinality(Share(load, w)) + 1
<1> DEFINE L == InnerLoops
           last == L[Len(L)]
           A == Share(load, v)
           B == Share(load, w)
<1>1. /\ Listed(L) /\ Len(L) # 0 /\ IsInjective(last)
      /\ DOMAIN last = 1 .. Len(last) /\ Len(last) \in Nat
  BY LoopsListed DEF Listed
<1>2. Last(L) = last
  BY DEF Last
<1>3. PICK i \in 1 .. Len(last) : last[i] = v
  BY <1>1, <1>2 DEF ToSet
<1>4. PICK j \in 1 .. Len(last) : last[j] = w
  BY <1>1, <1>2 DEF ToSet
<1>5. j - 1 \in Nat /\ j - 1 < Len(L[Len(L)])
  BY <1>1
<1>6. IsFiniteSet(rows) /\ Booked(rows, Taken, Rounds(command, config), L)
  BY DEF MatrixInv, Booked
<1>7. IsFiniteSet(A) /\ IsFiniteSet(B)
  <2>1. A \in SUBSET rows /\ B \in SUBSET rows
    BY DEF Share
  <2> QED BY <1>6, <2>1, FS_Subset
<1>8. \A a \in A : /\ a \in rows /\ a.nr \in Nat \ {0} /\ a.nr <= Taken
                   /\ Digit(L, PlaceOf(a.nr, L), Len(L)) = i - 1
  <2> TAKE a \in A
  <2> DEFINE d == Digit(L, PlaceOf(a.nr, L), Len(L))
  <2>1. a \in rows /\ Variant(a.point) = v
    BY DEF Share
  <2>2. /\ a.nr \in Nat \ {0} /\ a.nr <= Taken
        /\ d + 1 \in 1 .. Len(last) /\ last[d + 1] = v
    BY <2>1, RowVariant
  <2>3. d \in Nat
    <3>1. Listed(L) /\ Len(L) \in 1 .. Len(L)
      BY <1>1 DEF Listed
    <3>2. PlaceOf(a.nr, L) \in Nat
      BY <2>1, RowVariant
    <3> HIDE DEF L
    <3>3. Digit(L, PlaceOf(a.nr, L), Len(L)) \in Nat
      BY <3>1, <3>2, Digits
    <3> QED BY <3>3
  <2> HIDE DEF d, last
  <2>4. d + 1 = i
    BY <1>1, <1>3, <2>2 DEF IsInjective
  <2>5. d = i - 1
    BY <2>3, <2>4
  <2> QED BY <2>1, <2>2, <2>5 DEF d
<1> DEFINE mate(a) == Mate(a.nr, L, j - 1)
           G == [a \in A |-> CHOOSE r \in rows : r.nr = mate(a)]
<1> HIDE DEF L, last, A, B
<1>9. Taken \in Nat /\ \A a \in A : mate(a) \in Nat \ {0}
  <2>1. Taken \in Nat
    BY <1>6, FS_CardinalityType DEF Booked
  <2>2. \A a \in A : mate(a) \in Nat \ {0}
    BY <1>1, <1>5, <1>8, MatePlace
  <2> QED BY <2>1, <2>2
<1>10. \A a, b \in A : a # b => mate(a) <= Taken \/ mate(b) <= Taken
  <2> SUFFICES ASSUME NEW a \in A, NEW b \in A, a # b
               PROVE  mate(a) <= Taken \/ mate(b) <= Taken
    OBVIOUS
  <2>1. a.nr # b.nr
    BY <1>6, <1>8 DEF Booked
  <2>2. /\ a.nr \in Nat \ {0} /\ b.nr \in Nat \ {0} /\ a.nr <= Taken /\ b.nr <= Taken
        /\ Digit(L, PlaceOf(a.nr, L), Len(L)) = Digit(L, PlaceOf(b.nr, L), Len(L))
    BY <1>8
  <2> DEFINE u == j - 1
             m == a.nr
             n == b.nr
  <2>3. /\ u \in Nat /\ u < Len(L[Len(L)]) /\ m \in Nat \ {0} /\ n \in Nat \ {0} /\ m # n
        /\ Digit(L, PlaceOf(m, L), Len(L)) = Digit(L, PlaceOf(n, L), Len(L))
    BY <1>5, <2>1, <2>2
  <2> HIDE DEF u, m, n
  <2>4. Mate(m, L, u) <= n \/ Mate(n, L, u) <= m
    BY <1>1, <2>3, MatesBefore
  <2>5. mate(a) <= n \/ mate(b) <= m
    BY <2>4, Zenon DEF u, m, n
  <2> QED BY <1>9, <2>2, <2>5 DEF m, n
<1>11. ASSUME NEW a \in A, mate(a) <= Taken
       PROVE  G[a] \in rows /\ G[a].nr = mate(a) /\ G[a] \in B
  <2>1. mate(a) \in 1 .. Taken
    <3> DEFINE m == mate(a)
    <3>1. m \in Nat \ {0} /\ m <= Taken
      BY <1>9, <1>11
    <3> HIDE DEF m
    <3>2. m \in 1 .. Taken
      BY <1>9, <3>1
    <3> QED BY <3>2 DEF m
  <2>2. \E r \in rows : r.nr = mate(a)
    BY <1>6, <2>1 DEF Booked
  <2>3. G[a] \in rows /\ G[a].nr = mate(a)
    BY <2>2
  <2> DEFINE r == G[a]
  <2> HIDE DEF G
  <2>4. Load(r) = Load(a) /\ Variant(r.point) = InnerLoops[Len(InnerLoops)][j]
    <3>1. r \in rows /\ a \in rows /\ r.nr = Mate(a.nr, InnerLoops, j - 1)
      BY <1>8, <2>3 DEF L
    <3>2. j \in 1 .. Len(InnerLoops[Len(InnerLoops)])
      BY DEF last, L
    <3> QED BY <3>1, <3>2, MateLoad
  <2>5. Load(a) = load
    BY DEF A, Share
  <2>6. Variant(r.point) = w
    BY <1>4, <2>4 DEF last, L
  <2> QED BY <2>3, <2>4, <2>5, <2>6 DEF B, Share
<1>12. ASSUME NEW a \in A, NEW b \in A, mate(a) <= Taken, mate(b) <= Taken, G[a] = G[b]
       PROVE  a = b
  <2>1. mate(a) = mate(b)
    BY <1>11, <1>12
  <2>2. a.nr = b.nr
    <3> DEFINE u == j - 1
               m == a.nr
               n == b.nr
    <3>1. /\ u \in Nat /\ u < Len(L[Len(L)]) /\ m \in Nat \ {0} /\ n \in Nat \ {0}
          /\ Digit(L, PlaceOf(m, L), Len(L)) = Digit(L, PlaceOf(n, L), Len(L))
          /\ Mate(m, L, u) = Mate(n, L, u)
      BY <1>5, <1>8, <2>1
    <3> HIDE DEF u, m, n
    <3>2. m = n
      BY <1>1, <3>1, MatesDiffer
    <3> QED BY <3>2 DEF m, n
  <2> QED BY <1>6, <1>8, <2>2 DEF Booked
<1>13. PICK x : \A a \in A \ {x} : mate(a) <= Taken
  <2>1. CASE \E a \in A : ~(mate(a) <= Taken)
    <3>1. PICK x \in A : ~(mate(x) <= Taken)
      BY <2>1
    <3>2. \A a \in A \ {x} : mate(a) <= Taken
      <4> HIDE DEF mate
      <4> QED BY <1>10, <3>1
    <3> QED BY <3>2
  <2>2. CASE ~\E a \in A : ~(mate(a) <= Taken)
    <3>1. \A a \in A \ {0} : mate(a) <= Taken
      <4> HIDE DEF mate
      <4> QED BY <2>2
    <3> QED BY <3>1
  <2> QED BY <2>1, <2>2
<1>14. /\ \A a \in A \ {x} : G[a] \in B
       /\ \A a, b \in A \ {x} : G[a] = G[b] => a = b
  <2> HIDE DEF G, mate
  <2> QED BY <1>11, <1>12, <1>13
<1>15. Cardinality(A) <= Cardinality(B) + 1
  <2> HIDE DEF G, mate
  <2>1. /\ IsFiniteSet(A) /\ IsFiniteSet(B)
        /\ \A a \in A \ {x} : G[a] \in B
        /\ \A a, b \in A \ {x} : G[a] = G[b] => a = b
    BY <1>7, <1>14, Zenon
  <2> QED BY ONLY <2>1, OneMore
<1> QED BY <1>15 DEF A, B

\* At no time has one transport of a load been measured two times more often
\* than another, for any lists of loads and any number of repeats
\* (README.md:256, "Protocols are interleaved by repeat for each load
\* scenario").
THEOREM InterleavedCorrect == Safety => []Interleaved
<1>1. ConfigInv /\ MatrixInv => Interleaved
  <2> SUFFICES ASSUME ConfigInv, MatrixInv PROVE Interleaved
    OBVIOUS
  <2>1. ASSUME NEW load, NEW v \in ToSet(Last(InnerLoops)), NEW w \in ToSet(Last(InnerLoops))
        PROVE  Cardinality({row \in rows : Load(row) = load /\ Variant(row.point) = v})
                 <= Cardinality({row \in rows : Load(row) = load /\ Variant(row.point) = w}) + 1
    BY SharesEven DEF Share
  <2> QED BY <2>1, Zenon DEF Interleaved
<1> QED BY <1>1, Invariants, PTL

=============================================================================
