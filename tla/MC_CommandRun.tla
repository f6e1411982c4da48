---------------------------- MODULE MC_CommandRun ----------------------------
(***************************************************************************)
(* CommandRun for TLC: of each kind of value some that parse, among them   *)
(* lists that name a value twice, and some that do not.                    *)
(***************************************************************************)
EXTENDS CommandRun

OneLoad == <<1>>

SomeInputs(kind) ==
  CASE kind = "protocols" -> {<<"h2">>, <<"h3_quiche", "", "h2">>, <<"h2", "h2_inline">>, <<"">>}
    [] kind = "modes" -> {<<"reset">>, <<"reset", "app503">>, <<"reset", "reset">>, <<"both">>}
    [] kind = "failures" -> {<<"loss1">>, <<"delay1s", "none">>, <<"none", "loss1", "none">>}
    [] kind = "counts" -> {<<"two">>, <<"two", "one">>, <<"one", "one">>, <<"zero">>, <<"many">>}
    [] kind = "count" -> {<<"two">>, <<"one", "two">>, <<"">>, <<"zero">>}
    [] kind = "percent" -> {<<"half">>, <<"over">>, <<"nan">>}
    [] kind = "target" -> {<<"https", "u16", "resolves">>, <<"http", "u16", "resolves">>}
    [] OTHER -> {<<"given">>}
=============================================================================
